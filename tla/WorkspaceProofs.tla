--------------------------- MODULE WorkspaceProofs ---------------------------
(***************************************************************************)
(* Proofs about the areas of MCWorkspace, for every value of the constants *)
(* of their modules: the turn of a chat (ChatTurn), the built-in tools     *)
(* (BuiltinTools), what is looked up for a question (Retrieval), what is   *)
(* remembered about a user (Memory) and the messages of a chat             *)
(* (ChatHistory).  Each area has its inductive invariant; the last section *)
(* says of the whole specification what the areas keep.                    *)
(***************************************************************************)
EXTENDS MCWorkspace, FiniteSetTheorems, SequenceTheorems, WellFoundedInduction, TLAPS

-----------------------------------------------------------------------------
(* ChatTurn                                                                 *)

RowText == {None, "answer", "partial", "filtered", "edited"}
RowType == [here : BOOLEAN, done : BOOLEAN, error : BOOLEAN, text : RowText, original : RowText,
            extras : SUBSET {"follow_ups", "title", "tags"}]

\* The stages before anything is told, those after the answer, and the end.
Preparing == {"load_messages_from_db", "folder", "knowledge", "process_pipeline_inlet_filter", "inlet", "features",
              "skills", "connect_mcp_server", "terminal", "builtin", "chat_completion_tools_handler",
              "chat_completion_files_handler", "request", "generate_chat_completion"}
Answering == {"save_stream", "tell_stream", "error", "completion", "save", "except"}
Following == {"outlet", "pipeline_outlet", "outlet_filters", "background", "title", "tags"}

\* The message, the text the outlet read, and where the turn is.
TurnTypes ==
    /\ TurnTypeOK
    /\ at \in Preparing \cup Answering \cup Following \cup {"finally", "ended"}
    /\ row \in RowType /\ snapshot \in RowText /\ exists \in BOOLEAN
    /\ row.here => plan.saved

\* What the user may use now is among what he could use, and so is what was given.
RightsInv == mayUse \subseteq reached /\ WithinRights

\* What the browser has heard when an answer is there, and when the turn ends.
Heard == plan.ui /\ plan.answer \notin {"empty", "other"} /\ failed \cap {"completion", "error", "except"} = {}
ToldInv ==
    /\ Heard /\ at \in Following => "done" \in told
    /\ Heard /\ at \in {"finally", "ended"} => told \cap {"done", "error", "cancel"} # {}

\* What was told of a message that nobody deleted is in its row.
Untouched == plan.saved /\ exists /\ "delete" \notin by_user /\ failed \cap {"save", "error", "except"} = {}
SavedInv ==
    /\ Untouched /\ (at = "tell_stream" \/ "done" \in told) => row.done
    /\ Untouched /\ "error" \in told => row.error

TurnIInv == TurnTypes /\ RightsInv /\ ConnectionsClosed /\ ToldInv /\ SavedInv

LEMMA TurnInitIInv == TurnInit => TurnIInv
<1> SUFFICES ASSUME TurnInit PROVE TurnIInv
    OBVIOUS
<1> USE TurnAssumption DEF TurnInit
<1>1. plan \in Plan
    OBVIOUS
<1>2. TurnTypes
    BY <1>1 DEF TurnTypes, TurnTypeOK, Plan, BlankRow, RowType, RowText, Preparing
<1>3. RightsInv /\ ConnectionsClosed
    BY DEF RightsInv, WithinRights, ConnectionsClosed
<1>4. ToldInv /\ SavedInv
    BY DEF ToldInv, SavedInv, Following
<1> QED BY <1>2, <1>3, <1>4 DEF TurnIInv

(* A stage that puts parts the user may use into the request keeps the       *)
(* invariant.                                                               *)
LEMMA GiveKeeps ==
    ASSUME TurnIInv, NEW here, NEW next \in Preparing, NEW parts, Give(here, next, parts),
           parts \subseteq Usable(Part)
    PROVE  TurnIInv'
<1> USE DEF Give, Aside, RowStays, Clients
<1>1. parts \subseteq Part /\ parts \cap Rights \subseteq mayUse
  <2>1. parts \subseteq Part /\ \A x \in parts : x \in Guarded => x \in mayUse
      BY DEF Usable
  <2> QED BY <2>1, TurnAssumption DEF Rights
<1>2. TurnTypes'
    BY <1>1 DEF TurnIInv, TurnTypes, TurnTypeOK
<1>3. RightsInv'
    BY <1>1 DEF TurnIInv, RightsInv, WithinRights
<1>4. ConnectionsClosed'
    BY DEF ConnectionsClosed, Preparing
<1>5. ToldInv' /\ SavedInv'
    BY DEF TurnIInv, ToldInv, SavedInv, Heard, Untouched, Preparing, Following
<1> QED BY <1>2, <1>3, <1>4, <1>5 DEF TurnIInv

(* A step that puts nothing into the request and leaves clients and rights   *)
(* alone keeps types, rights and connections.                               *)
Onward == /\ Aside /\ Clients /\ UNCHANGED given /\ at # "ended" /\ at' # "ended"
          /\ at' \in Preparing \cup Answering \cup Following \cup {"finally"}
          /\ row' \in RowType /\ snapshot' \in RowText /\ exists' = exists
          /\ (row'.here => plan.saved) /\ told \subseteq told' /\ told' \subseteq told \cup {"done", "error", "outlet", "cancel"}
LEMMA OnwardKeeps ==
    ASSUME TurnIInv, Onward
    PROVE  TurnTypes' /\ RightsInv' /\ ConnectionsClosed'
<1> USE DEF Onward, Aside, Clients
<1>1. TurnTypes'
    BY DEF TurnIInv, TurnTypes, TurnTypeOK
<1>2. RightsInv'
    BY DEF TurnIInv, RightsInv, WithinRights
<1>3. ConnectionsClosed'
    BY DEF ConnectionsClosed
<1> QED BY <1>1, <1>2, <1>3

(* Save writes the row, or leaves it. *)
LEMMA SaveWrites ==
    ASSUME TurnIInv, NEW here, NEW next, NEW new \in RowType, Save(here, next, new), new.here = row.here
    PROVE  /\ row' \in RowType /\ (row'.here => plan.saved)
           /\ exists' = exists /\ snapshot' = snapshot
           /\ plan.saved /\ exists => row'.done = new.done /\ row'.error = new.error
<1> USE DEF TurnIInv, TurnTypes, Save
<1> DEFINE kept == [new EXCEPT !.here = TRUE]
<1>1. kept \in RowType /\ kept.done = new.done /\ kept.error = new.error
    BY DEF RowType
<1>2. CASE plan.saved /\ new # row
  <2>1. row' = IF exists THEN kept ELSE row
      BY <1>2 DEF UpsertMessage
  <2> QED BY <1>1, <1>2, <2>1
<1>3. CASE ~(plan.saved /\ new # row)
  <2>1. row' = row
      BY <1>3
  <2> QED BY <1>3, <2>1
<1> QED BY <1>2, <1>3

LEMMA TurnNextIInv == TurnIInv /\ [TurnNext]_turnVars => TurnIInv'
<1> SUFFICES ASSUME TurnIInv, [TurnNext]_turnVars PROVE TurnIInv'
    OBVIOUS
<1> USE TurnAssumption
<1>usable. \A parts \in SUBSET Part : Usable(parts) \subseteq Usable(Part)
    BY DEF Usable
(* Putting the request together. *)
<1>1. ASSUME load_messages_from_db PROVE TurnIInv'
    BY <1>1, GiveKeeps DEF load_messages_from_db, Preparing
<1>2. ASSUME folder PROVE TurnIInv'
    BY <1>2, <1>usable, GiveKeeps DEF folder, Preparing, Part
<1>3. ASSUME model_knowledge PROVE TurnIInv'
  <2> DEFINE parts == IF plan.legacy THEN Usable({"knowledge"}) ELSE {}
  <2>1. parts \subseteq Usable(Part)
      BY <1>usable DEF Part
  <2>2. Give("knowledge", "process_pipeline_inlet_filter", parts)
      BY <1>3 DEF model_knowledge
  <2> HIDE DEF parts
  <2> QED BY <2>1, <2>2, GiveKeeps DEF Preparing
<1>4. ASSUME process_pipeline_inlet_filter PROVE TurnIInv'
    BY <1>4, GiveKeeps DEF process_pipeline_inlet_filter, Preparing
<1>5. ASSUME inlet PROVE TurnIInv'
    BY <1>5, GiveKeeps DEF inlet, Preparing
<1>6. ASSUME features PROVE TurnIInv'
  <2> DEFINE parts == Usable({"voice", "memory", "code_interpreter"}) \cup chat_web_search_handler \cup chat_image_generation_handler
  <2>1. /\ Usable({"voice", "memory", "code_interpreter"}) \subseteq Usable(Part)
        /\ Usable({"web_search"}) \subseteq Usable(Part) /\ Usable({"image_generation"}) \subseteq Usable(Part)
      BY <1>usable DEF Part
  <2>2. parts \subseteq Usable(Part)
      BY <2>1 DEF chat_web_search_handler, chat_image_generation_handler
  <2>3. Give("features", "skills", parts)
      BY <1>6 DEF features
  <2> HIDE DEF parts
  <2> QED BY <2>2, <2>3, GiveKeeps DEF Preparing
<1>7. ASSUME skills PROVE TurnIInv'
    BY <1>7, <1>usable, GiveKeeps DEF skills, Preparing, Part
<1>8. ASSUME NEW s \in McpServer, NEW ok \in BOOLEAN, connect_mcp_server(s, ok) PROVE TurnIInv'
  <2> USE <1>8 DEF connect_mcp_server, Aside, RowStays
  <2>1. TurnTypes'
      BY DEF TurnIInv, TurnTypes, TurnTypeOK, Tell
  <2>2. RightsInv'
      BY DEF TurnIInv, RightsInv, WithinRights, Rights
  <2>3. ConnectionsClosed'
      BY DEF ConnectionsClosed
  <2>4. ToldInv' /\ SavedInv'
      BY DEF TurnIInv, ToldInv, SavedInv, Heard, Untouched, Following, Tell
  <2> QED BY <2>1, <2>2, <2>3, <2>4 DEF TurnIInv
<1>9. ASSUME get_tools PROVE TurnIInv'
    BY <1>9, <1>usable, GiveKeeps DEF get_tools, Preparing, Part
<1>10. ASSUME terminal PROVE TurnIInv'
  <2> USE <1>10 DEF terminal, Aside, RowStays
  <2>1. TurnTypes'
      BY DEF TurnIInv, TurnTypes, TurnTypeOK, Preparing, Usable, Part
  <2>2. RightsInv'
      BY DEF TurnIInv, RightsInv, WithinRights, Rights, Usable, Part
  <2>3. ConnectionsClosed'
      BY DEF ConnectionsClosed
  <2>4. ToldInv' /\ SavedInv'
      BY DEF TurnIInv, ToldInv, SavedInv, Heard, Untouched, Following
  <2> QED BY <2>1, <2>2, <2>3, <2>4 DEF TurnIInv
<1>11. ASSUME builtin PROVE TurnIInv'
  <2> DEFINE parts == IF use_builtin_tools THEN Usable({"knowledge", "attached"}) ELSE {}
  <2>1. parts \subseteq Usable(Part)
      BY <1>usable DEF Part
  <2>2. Give("builtin", "chat_completion_tools_handler", parts)
      BY <1>11 DEF builtin
  <2> HIDE DEF parts
  <2> QED BY <2>1, <2>2, GiveKeeps DEF Preparing
<1>12. ASSUME chat_completion_tools_handler PROVE TurnIInv'
    BY <1>12, GiveKeeps DEF chat_completion_tools_handler, Preparing
<1>13. ASSUME chat_completion_files_handler PROVE TurnIInv'
    BY <1>13, <1>usable, GiveKeeps DEF chat_completion_files_handler, Preparing, Part
<1>14. ASSUME request_filters PROVE TurnIInv'
    BY <1>14, GiveKeeps DEF request_filters, Preparing
(* Steps that write nothing. *)
<1>15. ASSUME stage_raises PROVE TurnIInv'
  <2> USE <1>15 DEF stage_raises, Aside, RowStays, Clients
  <2>1. Onward
      BY DEF TurnIInv, TurnTypes, TurnTypeOK, Onward, Raising, Answering
  <2>2. ToldInv' /\ SavedInv'
      BY DEF TurnIInv, ToldInv, SavedInv, Heard, Untouched, Following
  <2> QED BY <2>1, <2>2, OnwardKeeps DEF TurnIInv
<1>16. ASSUME generate_chat_completion PROVE TurnIInv'
  <2> USE <1>16 DEF generate_chat_completion, Aside, RowStays, Clients
  <2>1. at' \in {"save_stream", "error", "completion", "finally"}
      OBVIOUS
  <2>2. Onward
      BY <2>1 DEF TurnIInv, TurnTypes, TurnTypeOK, Onward, Answering
  <2>3. at' = "finally" => ~plan.ui \/ plan.answer \in {"empty", "other"}
      BY DEF TurnIInv, TurnTypes, TurnTypeOK, Plan, Answers
  <2>4. ToldInv' /\ SavedInv'
      BY <2>1, <2>3 DEF TurnIInv, ToldInv, SavedInv, Heard, Untouched, Following
  <2> QED BY <2>2, <2>4, OnwardKeeps DEF TurnIInv
<1>17. ASSUME outlet_reads PROVE TurnIInv'
  <2> USE <1>17 DEF outlet_reads, Aside, Clients
  <2>1. Onward
      BY DEF TurnIInv, TurnTypes, TurnTypeOK, Onward, Following, RowType
  <2>2. ToldInv' /\ SavedInv'
      BY DEF TurnIInv, ToldInv, SavedInv, Heard, Untouched, Following
  <2> QED BY <2>1, <2>2, OnwardKeeps DEF TurnIInv
<1>18. ASSUME outlet_fails PROVE TurnIInv'
  <2> USE <1>18 DEF outlet_fails, Aside, RowStays, Clients
  <2>1. Onward
      BY DEF TurnIInv, TurnTypes, TurnTypeOK, Onward, Following
  <2>2. ToldInv' /\ SavedInv'
      BY DEF TurnIInv, ToldInv, SavedInv, Heard, Untouched, Following
  <2> QED BY <2>1, <2>2, OnwardKeeps DEF TurnIInv
<1>19. ASSUME background_raises PROVE TurnIInv'
  <2> USE <1>19 DEF background_raises, Aside, RowStays, Clients
  <2>1. Onward
      BY DEF TurnIInv, TurnTypes, TurnTypeOK, Onward, Answering
  <2>2. ToldInv' /\ SavedInv'
      BY DEF TurnIInv, ToldInv, SavedInv, Heard, Untouched, Following
  <2> QED BY <2>1, <2>2, OnwardKeeps DEF TurnIInv
<1>20. ASSUME process_chat_except_fails PROVE TurnIInv'
  <2> USE <1>20 DEF process_chat_except_fails, Aside, RowStays, Clients
  <2>1. Onward
      BY DEF TurnIInv, TurnTypes, TurnTypeOK, Onward
  <2>2. ToldInv' /\ SavedInv'
      BY DEF TurnIInv, ToldInv, SavedInv, Heard, Untouched, Following
  <2> QED BY <2>1, <2>2, OnwardKeeps DEF TurnIInv
<1>21. ASSUME save_fails PROVE TurnIInv'
  <2> USE <1>21 DEF save_fails, Aside, RowStays, Clients, Tell
  <2>1. Onward
      BY DEF TurnIInv, TurnTypes, TurnTypeOK, Onward
  <2>2. ToldInv' /\ SavedInv'
      BY DEF TurnIInv, ToldInv, SavedInv, Heard, Untouched, Following
  <2> QED BY <2>1, <2>2, OnwardKeeps DEF TurnIInv
(* Steps that save. *)
<1>22. ASSUME response_error PROVE TurnIInv'
  <2> DEFINE new == [row EXCEPT !.error = TRUE]
  <2>1. Save("error", "finally", new)
      BY <1>22 DEF response_error
  <2>2. new \in RowType /\ new.here = row.here /\ (row.done => new.done) /\ (row.error => new.error)
      BY DEF TurnIInv, TurnTypes, RowType, RowText
  <2>3. new.error
      BY DEF TurnIInv, TurnTypes, RowType
  <2> HIDE DEF new
  <2>4. /\ row' \in RowType /\ (row'.here => plan.saved) /\ exists' = exists /\ snapshot' = snapshot
        /\ plan.saved /\ exists => row'.done = new.done /\ row'.error = new.error
      BY <2>1, <2>2, SaveWrites
  <2>5. /\ at = "error" /\ at' = "finally" /\ Aside /\ Clients /\ UNCHANGED <<given, failed>>
        /\ told' = IF plan.ui THEN told \cup {"error"} ELSE told
      BY <1>22, <2>1 DEF Save, response_error, Tell
  <2>6. Onward
      BY <2>4, <2>5 DEF TurnIInv, TurnTypes, TurnTypeOK, Onward, Answering, Following
  <2>7. ToldInv'
      BY <2>5 DEF TurnIInv, ToldInv, Heard, Following, Aside
  <2>8. SavedInv'
      BY <2>2, <2>3, <2>4, <2>5 DEF TurnIInv, SavedInv, Untouched, Aside
  <2> QED BY <2>6, <2>7, <2>8, OnwardKeeps DEF TurnIInv
<1>23. ASSUME completion PROVE TurnIInv'
  <2> DEFINE new == row
  <2>1. Save("completion", "save", new)
      BY <1>23 DEF completion
  <2>2. new \in RowType /\ new.here = row.here /\ (row.done => new.done) /\ (row.error => new.error)
      BY DEF TurnIInv, TurnTypes, RowType, RowText
  <2> HIDE DEF new
  <2>3. /\ row' \in RowType /\ (row'.here => plan.saved) /\ exists' = exists /\ snapshot' = snapshot
        /\ plan.saved /\ exists => row'.done = new.done /\ row'.error = new.error
      BY <2>1, <2>2, SaveWrites
  <2>4. /\ at = "completion" /\ at' = "save" /\ Aside /\ Clients /\ UNCHANGED <<given, failed>>
        /\ told' = told
      BY <1>23, <2>1 DEF Save, completion, Tell
  <2>5. Onward
      BY <2>3, <2>4 DEF TurnIInv, TurnTypes, TurnTypeOK, Onward, Answering, Following
  <2>6. ToldInv'
      BY <2>4 DEF TurnIInv, ToldInv, Heard, Following, Aside
  <2>7. SavedInv'
      BY <2>2, <2>3, <2>4 DEF TurnIInv, SavedInv, Untouched, Aside
  <2> QED BY <2>5, <2>6, <2>7, OnwardKeeps DEF TurnIInv
<1>24. ASSUME completion_done PROVE TurnIInv'
  <2> DEFINE new == [row EXCEPT !.done = TRUE, !.text = "answer"]
  <2>1. Save("save", "outlet", new)
      BY <1>24 DEF completion_done
  <2>2. new \in RowType /\ new.here = row.here /\ (row.done => new.done) /\ (row.error => new.error)
      BY DEF TurnIInv, TurnTypes, RowType, RowText
  <2>3. new.done
      BY DEF TurnIInv, TurnTypes, RowType
  <2> HIDE DEF new
  <2>4. /\ row' \in RowType /\ (row'.here => plan.saved) /\ exists' = exists /\ snapshot' = snapshot
        /\ plan.saved /\ exists => row'.done = new.done /\ row'.error = new.error
      BY <2>1, <2>2, SaveWrites
  <2>5. /\ at = "save" /\ at' = "outlet" /\ Aside /\ Clients /\ UNCHANGED <<given, failed>>
        /\ told' = IF plan.ui THEN told \cup {"done"} ELSE told
      BY <1>24, <2>1 DEF Save, completion_done, Tell
  <2>6. Onward
      BY <2>4, <2>5 DEF TurnIInv, TurnTypes, TurnTypeOK, Onward, Answering, Following
  <2>7. ToldInv'
      BY <2>5 DEF TurnIInv, ToldInv, Heard, Following, Aside
  <2>8. SavedInv'
      BY <2>2, <2>3, <2>4, <2>5 DEF TurnIInv, SavedInv, Untouched, Aside
  <2> QED BY <2>6, <2>7, <2>8, OnwardKeeps DEF TurnIInv
<1>25. ASSUME save_stream PROVE TurnIInv'
  <2> DEFINE new == [row EXCEPT !.done = TRUE, !.text = "answer"]
  <2>1. Save("save_stream", "tell_stream", new)
      BY <1>25 DEF save_stream
  <2>2. new \in RowType /\ new.here = row.here /\ (row.done => new.done) /\ (row.error => new.error)
      BY DEF TurnIInv, TurnTypes, RowType, RowText
  <2>3. new.done
      BY DEF TurnIInv, TurnTypes, RowType
  <2> HIDE DEF new
  <2>4. /\ row' \in RowType /\ (row'.here => plan.saved) /\ exists' = exists /\ snapshot' = snapshot
        /\ plan.saved /\ exists => row'.done = new.done /\ row'.error = new.error
      BY <2>1, <2>2, SaveWrites
  <2>5. /\ at = "save_stream" /\ at' = "tell_stream" /\ Aside /\ Clients /\ UNCHANGED <<given, failed>>
        /\ told' = told
      BY <1>25, <2>1 DEF Save, save_stream, Tell
  <2>6. Onward
      BY <2>4, <2>5 DEF TurnIInv, TurnTypes, TurnTypeOK, Onward, Answering, Following
  <2>7. ToldInv'
      BY <2>5 DEF TurnIInv, ToldInv, Heard, Following, Aside
  <2>8. SavedInv'
      BY <2>2, <2>3, <2>4, <2>5 DEF TurnIInv, SavedInv, Untouched, Aside
  <2> QED BY <2>6, <2>7, <2>8, OnwardKeeps DEF TurnIInv
<1>26. ASSUME tell_stream PROVE TurnIInv'
  <2> DEFINE new == row
  <2>1. Save("tell_stream", "outlet", new)
      BY <1>26 DEF tell_stream
  <2>2. new \in RowType /\ new.here = row.here /\ (row.done => new.done) /\ (row.error => new.error)
      BY DEF TurnIInv, TurnTypes, RowType, RowText
  <2> HIDE DEF new
  <2>3. /\ row' \in RowType /\ (row'.here => plan.saved) /\ exists' = exists /\ snapshot' = snapshot
        /\ plan.saved /\ exists => row'.done = new.done /\ row'.error = new.error
      BY <2>1, <2>2, SaveWrites
  <2>4. /\ at = "tell_stream" /\ at' = "outlet" /\ Aside /\ Clients /\ UNCHANGED <<given, failed>>
        /\ told' = IF plan.ui THEN told \cup {"done"} ELSE told
      BY <1>26, <2>1 DEF Save, tell_stream, Tell
  <2>5. Onward
      BY <2>3, <2>4 DEF TurnIInv, TurnTypes, TurnTypeOK, Onward, Answering, Following
  <2>6. ToldInv'
      BY <2>4 DEF TurnIInv, ToldInv, Heard, Following, Aside
  <2>7. SavedInv'
      BY <2>2, <2>3, <2>4 DEF TurnIInv, SavedInv, Untouched, Aside
  <2> QED BY <2>5, <2>6, <2>7, OnwardKeeps DEF TurnIInv
<1>27. ASSUME process_pipeline_outlet_filter PROVE TurnIInv'
  <2> DEFINE new == row
  <2>1. Save("pipeline_outlet", "outlet_filters", new)
      BY <1>27 DEF process_pipeline_outlet_filter
  <2>2. new \in RowType /\ new.here = row.here /\ (row.done => new.done) /\ (row.error => new.error)
      BY DEF TurnIInv, TurnTypes, RowType, RowText
  <2> HIDE DEF new
  <2>3. /\ row' \in RowType /\ (row'.here => plan.saved) /\ exists' = exists /\ snapshot' = snapshot
        /\ plan.saved /\ exists => row'.done = new.done /\ row'.error = new.error
      BY <2>1, <2>2, SaveWrites
  <2>4. /\ at = "pipeline_outlet" /\ at' = "outlet_filters" /\ Aside /\ Clients /\ UNCHANGED <<given, failed>>
        /\ told' = told
      BY <1>27, <2>1 DEF Save, process_pipeline_outlet_filter, Tell
  <2>5. Onward
      BY <2>3, <2>4 DEF TurnIInv, TurnTypes, TurnTypeOK, Onward, Answering, Following
  <2>6. ToldInv'
      BY <2>4 DEF TurnIInv, ToldInv, Heard, Following, Aside
  <2>7. SavedInv'
      BY <2>2, <2>3, <2>4 DEF TurnIInv, SavedInv, Untouched, Aside
  <2> QED BY <2>5, <2>6, <2>7, OnwardKeeps DEF TurnIInv
<1>28. ASSUME NEW changes \in BOOLEAN, outlet_filter_handler(changes) PROVE TurnIInv'
  <2> DEFINE new == IF changes THEN [row EXCEPT !.original = snapshot, !.text = "filtered"] ELSE row
  <2>1. Save("outlet_filters", "background", new)
      BY <1>28 DEF outlet_filter_handler
  <2>2. new \in RowType /\ new.here = row.here /\ (row.done => new.done) /\ (row.error => new.error)
      BY DEF TurnIInv, TurnTypes, RowType, RowText
  <2> HIDE DEF new
  <2>3. /\ row' \in RowType /\ (row'.here => plan.saved) /\ exists' = exists /\ snapshot' = snapshot
        /\ plan.saved /\ exists => row'.done = new.done /\ row'.error = new.error
      BY <2>1, <2>2, SaveWrites
  <2>4. /\ at = "outlet_filters" /\ at' = "background" /\ Aside /\ Clients /\ UNCHANGED <<given, failed>>
        /\ told' = IF plan.ui THEN told \cup {"outlet"} ELSE told
      BY <1>28, <2>1 DEF Save, outlet_filter_handler, Tell
  <2>5. Onward
      BY <2>3, <2>4 DEF TurnIInv, TurnTypes, TurnTypeOK, Onward, Answering, Following
  <2>6. ToldInv'
      BY <2>4 DEF TurnIInv, ToldInv, Heard, Following, Aside
  <2>7. SavedInv'
      BY <2>2, <2>3, <2>4 DEF TurnIInv, SavedInv, Untouched, Aside
  <2> QED BY <2>5, <2>6, <2>7, OnwardKeeps DEF TurnIInv
<1>29. ASSUME NEW made \in BOOLEAN, generate_follow_ups(made) PROVE TurnIInv'
  <2> DEFINE new == IF made THEN [row EXCEPT !.extras = @ \cup {"follow_ups"}] ELSE row
  <2>1. Save("background", "title", new)
      BY <1>29 DEF generate_follow_ups, Extra
  <2>2. new \in RowType /\ new.here = row.here /\ (row.done => new.done) /\ (row.error => new.error)
      BY DEF TurnIInv, TurnTypes, RowType, RowText
  <2> HIDE DEF new
  <2>3. /\ row' \in RowType /\ (row'.here => plan.saved) /\ exists' = exists /\ snapshot' = snapshot
        /\ plan.saved /\ exists => row'.done = new.done /\ row'.error = new.error
      BY <2>1, <2>2, SaveWrites
  <2>4. /\ at = "background" /\ at' = "title" /\ Aside /\ Clients /\ UNCHANGED <<given, failed>>
        /\ told' = told
      BY <1>29, <2>1 DEF Save, generate_follow_ups, Extra, Tell
  <2>5. Onward
      BY <2>3, <2>4 DEF TurnIInv, TurnTypes, TurnTypeOK, Onward, Answering, Following
  <2>6. ToldInv'
      BY <2>4 DEF TurnIInv, ToldInv, Heard, Following, Aside
  <2>7. SavedInv'
      BY <2>2, <2>3, <2>4 DEF TurnIInv, SavedInv, Untouched, Aside
  <2> QED BY <2>5, <2>6, <2>7, OnwardKeeps DEF TurnIInv
<1>30. ASSUME NEW made \in BOOLEAN, generate_title(made) PROVE TurnIInv'
  <2> DEFINE new == IF made THEN [row EXCEPT !.extras = @ \cup {"title"}] ELSE row
  <2>1. Save("title", "tags", new)
      BY <1>30 DEF generate_title, Extra
  <2>2. new \in RowType /\ new.here = row.here /\ (row.done => new.done) /\ (row.error => new.error)
      BY DEF TurnIInv, TurnTypes, RowType, RowText
  <2> HIDE DEF new
  <2>3. /\ row' \in RowType /\ (row'.here => plan.saved) /\ exists' = exists /\ snapshot' = snapshot
        /\ plan.saved /\ exists => row'.done = new.done /\ row'.error = new.error
      BY <2>1, <2>2, SaveWrites
  <2>4. /\ at = "title" /\ at' = "tags" /\ Aside /\ Clients /\ UNCHANGED <<given, failed>>
        /\ told' = told
      BY <1>30, <2>1 DEF Save, generate_title, Extra, Tell
  <2>5. Onward
      BY <2>3, <2>4 DEF TurnIInv, TurnTypes, TurnTypeOK, Onward, Answering, Following
  <2>6. ToldInv'
      BY <2>4 DEF TurnIInv, ToldInv, Heard, Following, Aside
  <2>7. SavedInv'
      BY <2>2, <2>3, <2>4 DEF TurnIInv, SavedInv, Untouched, Aside
  <2> QED BY <2>5, <2>6, <2>7, OnwardKeeps DEF TurnIInv
<1>31. ASSUME NEW made \in BOOLEAN, generate_chat_tags(made) PROVE TurnIInv'
  <2> DEFINE new == IF made THEN [row EXCEPT !.extras = @ \cup {"tags"}] ELSE row
  <2>1. Save("tags", "finally", new)
      BY <1>31 DEF generate_chat_tags, Extra
  <2>2. new \in RowType /\ new.here = row.here /\ (row.done => new.done) /\ (row.error => new.error)
      BY DEF TurnIInv, TurnTypes, RowType, RowText
  <2> HIDE DEF new
  <2>3. /\ row' \in RowType /\ (row'.here => plan.saved) /\ exists' = exists /\ snapshot' = snapshot
        /\ plan.saved /\ exists => row'.done = new.done /\ row'.error = new.error
      BY <2>1, <2>2, SaveWrites
  <2>4. /\ at = "tags" /\ at' = "finally" /\ Aside /\ Clients /\ UNCHANGED <<given, failed>>
        /\ told' = told
      BY <1>31, <2>1 DEF Save, generate_chat_tags, Extra, Tell
  <2>5. Onward
      BY <2>3, <2>4 DEF TurnIInv, TurnTypes, TurnTypeOK, Onward, Answering, Following
  <2>6. ToldInv'
      BY <2>4 DEF TurnIInv, ToldInv, Heard, Following, Aside
  <2>7. SavedInv'
      BY <2>2, <2>3, <2>4 DEF TurnIInv, SavedInv, Untouched, Aside
  <2> QED BY <2>5, <2>6, <2>7, OnwardKeeps DEF TurnIInv
<1>32. ASSUME process_chat_except PROVE TurnIInv'
  <2> DEFINE new == [row EXCEPT !.error = TRUE]
  <2>1. Save("except", "finally", new)
      BY <1>32 DEF process_chat_except
  <2>2. new \in RowType /\ new.here = row.here /\ (row.done => new.done) /\ (row.error => new.error)
      BY DEF TurnIInv, TurnTypes, RowType, RowText
  <2>3. new.error
      BY DEF TurnIInv, TurnTypes, RowType
  <2> HIDE DEF new
  <2>4. /\ row' \in RowType /\ (row'.here => plan.saved) /\ exists' = exists /\ snapshot' = snapshot
        /\ plan.saved /\ exists => row'.done = new.done /\ row'.error = new.error
      BY <2>1, <2>2, SaveWrites
  <2>5. /\ at = "except" /\ at' = "finally" /\ Aside /\ Clients /\ UNCHANGED <<given, failed>>
        /\ told' = IF plan.ui THEN told \cup {"error"} ELSE told
      BY <1>32, <2>1 DEF Save, process_chat_except, Tell
  <2>6. Onward
      BY <2>4, <2>5 DEF TurnIInv, TurnTypes, TurnTypeOK, Onward, Answering, Following
  <2>7. ToldInv'
      BY <2>5 DEF TurnIInv, ToldInv, Heard, Following, Aside
  <2>8. SavedInv'
      BY <2>2, <2>3, <2>4, <2>5 DEF TurnIInv, SavedInv, Untouched, Aside
  <2> QED BY <2>6, <2>7, <2>8, OnwardKeeps DEF TurnIInv
<1>33. ASSUME process_chat_cancelled PROVE TurnIInv'
  <2> DEFINE new == [row EXCEPT !.done = TRUE, !.text = "partial"]
  <2>1. new \in RowType /\ new.done /\ new.error = row.error
      BY DEF TurnIInv, TurnTypes, RowType, RowText
  <2>2. [new EXCEPT !.here = TRUE] \in RowType /\ [new EXCEPT !.here = TRUE].done /\ [new EXCEPT !.here = TRUE].error = row.error
      BY <2>1 DEF RowType
  <2>3. row' \in {row, [new EXCEPT !.here = TRUE]} /\ (row' # row => plan.saved)
      BY <1>33 DEF process_chat_cancelled, UpsertMessage
  <2> HIDE DEF new
  <2>4. row' \in RowType /\ (row'.here => plan.saved) /\ (row.done => row'.done) /\ (row.error => row'.error)
      BY <2>2, <2>3 DEF TurnIInv, TurnTypes
  <2> USE <1>33 DEF process_chat_cancelled, Aside, Clients, Tell
  <2>5. Onward
      BY <2>4 DEF TurnIInv, TurnTypes, TurnTypeOK, Onward
  <2>6. ToldInv'
      BY DEF TurnIInv, ToldInv, Heard, Following
  <2>7. SavedInv'
      BY <2>4 DEF TurnIInv, SavedInv, Untouched
  <2> QED BY <2>5, <2>6, <2>7, OnwardKeeps DEF TurnIInv
<1>34. ASSUME process_chat_finally PROVE TurnIInv'
  <2> USE <1>34 DEF process_chat_finally, Aside, RowStays, Tell
  <2>1. TurnTypes'
      BY DEF TurnIInv, TurnTypes, TurnTypeOK
  <2>2. RightsInv' /\ ConnectionsClosed'
      BY DEF TurnIInv, RightsInv, WithinRights, ConnectionsClosed
  <2>3. ToldInv' /\ SavedInv'
      BY DEF TurnIInv, ToldInv, SavedInv, Heard, Untouched, Following
  <2> QED BY <2>1, <2>2, <2>3 DEF TurnIInv
(* What others do. *)
<1>35. ASSUME user_edits PROVE TurnIInv'
  <2> USE <1>35 DEF user_edits, Others
  <2>1. row' \in RowType /\ row'.here = row.here /\ row'.done = row.done /\ row'.error = row.error
      BY DEF TurnIInv, TurnTypes, RowType, RowText, BlankRow
  <2>2. TurnTypes'
      BY <2>1 DEF TurnIInv, TurnTypes, TurnTypeOK
  <2>3. RightsInv' /\ ConnectionsClosed'
      BY DEF TurnIInv, RightsInv, WithinRights, ConnectionsClosed
  <2>4. ToldInv' /\ SavedInv'
      BY <2>1 DEF TurnIInv, ToldInv, SavedInv, Heard, Untouched
  <2> QED BY <2>2, <2>3, <2>4 DEF TurnIInv
<1>36. ASSUME user_deletes_message PROVE TurnIInv'
  <2> USE <1>36 DEF user_deletes_message, Others
  <2>1. row' \in RowType /\ ~row'.here
      BY DEF TurnIInv, TurnTypes, RowType, RowText, BlankRow
  <2>2. TurnTypes'
      BY <2>1 DEF TurnIInv, TurnTypes, TurnTypeOK
  <2>3. RightsInv' /\ ConnectionsClosed'
      BY DEF TurnIInv, RightsInv, WithinRights, ConnectionsClosed
  <2>4. ToldInv' /\ SavedInv'
      BY <2>1 DEF TurnIInv, ToldInv, SavedInv, Heard, Untouched
  <2> QED BY <2>2, <2>3, <2>4 DEF TurnIInv
<1>37. ASSUME user_deletes_chat PROVE TurnIInv'
  <2> USE <1>37 DEF user_deletes_chat, Others
  <2>1. row' \in RowType /\ ~row'.here
      BY DEF TurnIInv, TurnTypes, RowType, RowText, BlankRow
  <2>2. TurnTypes'
      BY <2>1 DEF TurnIInv, TurnTypes, TurnTypeOK
  <2>3. RightsInv' /\ ConnectionsClosed'
      BY DEF TurnIInv, RightsInv, WithinRights, ConnectionsClosed
  <2>4. ToldInv' /\ SavedInv'
      BY <2>1 DEF TurnIInv, ToldInv, SavedInv, Heard, Untouched
  <2> QED BY <2>2, <2>3, <2>4 DEF TurnIInv
<1>38. ASSUME NEW x \in Rights, rights_change(x) PROVE TurnIInv'
  <2> USE <1>38 DEF rights_change, Others
  <2>1. TurnTypes'
      BY DEF TurnIInv, TurnTypes, TurnTypeOK
  <2>2. RightsInv' /\ ConnectionsClosed'
      BY DEF TurnIInv, RightsInv, WithinRights, ConnectionsClosed
  <2>3. ToldInv' /\ SavedInv'
      BY DEF TurnIInv, ToldInv, SavedInv, Heard, Untouched
  <2> QED BY <2>1, <2>2, <2>3 DEF TurnIInv
<1>39. ASSUME UNCHANGED turnVars PROVE TurnIInv'
    BY <1>39 DEF turnVars, TurnIInv, TurnTypes, TurnTypeOK, RightsInv, WithinRights, ConnectionsClosed, ToldInv, SavedInv,
        Heard, Untouched
<1> QED BY <1>1, <1>2, <1>3, <1>4, <1>5, <1>6, <1>7, <1>8, <1>9, <1>10, <1>11, <1>12, <1>13, <1>14, <1>15, <1>16, <1>17, <1>18, <1>19, <1>20, <1>21, <1>22, <1>23, <1>24, <1>25, <1>26, <1>27, <1>28, <1>29, <1>30, <1>31, <1>32, <1>33, <1>34, <1>35, <1>36, <1>37, <1>38, <1>39 DEF TurnNext

(* The end of a turn is told and what was told is saved. *)
LEMMA TurnEnd == TurnIInv => TurnTypeOK /\ TurnSound
BY DEF TurnIInv, TurnTypes, RightsInv, ToldInv, SavedInv, Heard, Untouched, TurnSound, EndIsTold, ToldIsSaved

-----------------------------------------------------------------------------
(* BuiltinTools                                                             *)

\* What the user may read or change of a thing, wherever it is.
Owned == {"chat", "memory", "automation", "folder"}
ReadByRoute(x) == IF Sort[x] \in Owned THEN Owns(x) ELSE CanRead(x)
WrittenByRoute(x) == IF Sort[x] \in {"note", "calendar", "event"} THEN CanWrite(x) ELSE Owns(x)

\* What a tool may show, and what it may change.
MayShow(S) == \A x \in S : Within(x, since["read"]) \/ (Sort[x] = "file" /\ x \in attached)
MayChange(S) == \A x \in S : Within(x, since["write"])

\* What the user may read or change of what is there or was looked up, he could
\* during the call: a row is shared only while it is there.
BtRightsInv ==
    \A x \in there \cup held \cup attached :
        /\ ReadByRoute(x) => x \in since["read"]
        /\ WrittenByRoute(x) => x \in since["write"]
\* What lies in what, lay in it during the call.
BtWithinInv == within \subseteq lay /\ \A p \in lay : Holds(p[1], p[2])

\* What a call holds at each of its stages.
OpensFile == {"view_file", "view_knowledge_file"}
RowSort ==
    [view_note |-> {"note"}, replace_note_content |-> {"note"}, view_skill |-> {"skill"},
     create_calendar_event |-> {"calendar"}, update_calendar_event |-> {"event"}, grep_knowledge_files |-> {"file"},
     view_file |-> {"file"}, view_knowledge_file |-> {"file"}, list_chat_files |-> {"file"},
     grep_chat_files |-> {"file"}, query_chat_files |-> {"file"}]
HeldFits(s, S) ==
    /\ s = "row" => /\ tool \in DOMAIN RowSort => \A x \in S : Sort[x] \in RowSort[tool]
                    /\ tool \in OpensFile => S \subseteq {wanted}
                    /\ tool \in {"update_automation", "toggle_automation"} => S \subseteq since["write"]
    /\ s = "checked" => MayChange(S)
    /\ s \in {"channels", "ids", "calendars"} => S \subseteq since["read"]
    /\ s = "bases" /\ tool \in OpensFile => \A x \in S : x = wanted \/ (Sort[x] # "file" /\ <<wanted, x>> \in lay)
    /\ s = "bases" /\ tool \notin OpensFile => \A x \in S : x \in since["read"] \/ (Sort[x] = "file" /\ x \in attached)
    /\ s \in {"file", "files"} => MayShow(S)

BtIInv ==
    /\ BtTypeOK /\ BtRightsInv /\ BtWithinInv /\ HeldFits(stage, held) /\ ToolsWithinRights

LEMMA BtInitIInv == BtInit => BtIInv
<1> SUFFICES ASSUME BtInit PROVE BtIInv
    OBVIOUS
<1> USE BuiltinAssumption DEF BtInit
<1>1. keeper \in [Thing -> Reader]
  <2>1. \E u \in Reader : Heads # Reader => u \notin Heads
      OBVIOUS
  <2>2. (CHOOSE u \in Reader : Heads # Reader => u \notin Heads) \in Reader
      BY <2>1
  <2> QED BY <2>2
<1>2. there \subseteq Thing /\ attached \subseteq there
    OBVIOUS
<1>3. since \in [{"read", "write"} -> SUBSET Thing]
    BY <1>2 DEF Routes
<1>4. BtTypeOK
    BY <1>1, <1>2, <1>3 DEF BtTypeOK
<1>5. BtRightsInv
    BY <1>2 DEF BtRightsInv, Routes, ReadByRoute, WrittenByRoute, Owned
<1>6. BtWithinInv /\ HeldFits(stage, held) /\ ToolsWithinRights
    BY DEF BtWithinInv, HeldFits, ToolsWithinRights
<1> QED BY <1>4, <1>5, <1>6 DEF BtIInv

(* What the history adds in every step. *)
Noted == lay' = lay \cup within' /\ since' = [r \in {"read", "write"} |-> since[r] \cup Routes'[r]]

LEMMA NotedGrows ==
    ASSUME BtTypeOK, Noted, there' \subseteq Thing, within' \subseteq Thing \X Thing
    PROVE  /\ since' \in [{"read", "write"} -> SUBSET Thing] /\ lay' \subseteq Thing \X Thing
           /\ lay \subseteq lay' /\ since["read"] \subseteq since'["read"] /\ since["write"] \subseteq since'["write"]
           /\ \A x \in there' : ReadByRoute(x)' => x \in since'["read"]
           /\ \A x \in there' : WrittenByRoute(x)' => x \in since'["write"]
<1>1. since' = [r \in {"read", "write"} |-> since[r] \cup Routes'[r]]
    BY DEF Noted
<1>2. /\ Routes'["read"] = {x \in there' : ReadByRoute(x)'}
      /\ Routes'["write"] = {x \in there' : WrittenByRoute(x)'}
    BY DEF Routes, ReadByRoute, WrittenByRoute, Owned
<1>3. /\ since'["read"] = since["read"] \cup {x \in there' : ReadByRoute(x)'}
      /\ since'["write"] = since["write"] \cup {x \in there' : WrittenByRoute(x)'}
    BY <1>1, <1>2
<1>4. since' \in [{"read", "write"} -> SUBSET Thing]
    BY <1>1, <1>3 DEF BtTypeOK
<1>5. lay' \subseteq Thing \X Thing /\ lay \subseteq lay'
    BY DEF Noted, BtTypeOK
<1> QED BY <1>3, <1>4, <1>5

(* A step of a tool that holds, shows and changes what it may. *)
ToolFits ==
    /\ UNCHANGED <<tool, keeper, mayRead, mayWrite, attached, me, wanted, btChanges>>
    /\ there' \subseteq there /\ within' \subseteq within /\ held' \subseteq there \cup held \cup attached
    /\ HeldFits(stage', held') /\ MayShow(shown') /\ MayChange(done')

LEMMA ToolKeeps ==
    ASSUME BtIInv, Noted, ToolFits
    PROVE  BtIInv'
<1>1. BtTypeOK
    BY DEF BtIInv
<1>2. there' \subseteq Thing /\ within' \subseteq Thing \X Thing /\ held' \subseteq Thing
    BY <1>1 DEF BtTypeOK, ToolFits
<1>3. /\ since' \in [{"read", "write"} -> SUBSET Thing] /\ lay' \subseteq Thing \X Thing
      /\ lay \subseteq lay' /\ since["read"] \subseteq since'["read"] /\ since["write"] \subseteq since'["write"]
    BY <1>1, <1>2, NotedGrows
<1>4. MayShow(shown)' /\ MayChange(done)'
    BY <1>3 DEF MayShow, MayChange, Within, ToolFits
<1>5. shown' \cup done' \subseteq Thing
  <2>1. \A p \in lay : p[1] \in Thing
      BY <1>1 DEF BtTypeOK
  <2>2. \A x : Within(x, since["read"]) \/ Within(x, since["write"]) => x \in Thing
      BY <1>1, <2>1 DEF BtTypeOK, Within
  <2> QED BY <1>1, <2>2 DEF ToolFits, MayShow, MayChange, BtTypeOK
<1>6. BtTypeOK'
    BY <1>1, <1>2, <1>3, <1>5 DEF BtTypeOK, ToolFits
<1>7. BtRightsInv'
  <2>1. \A x : (ReadByRoute(x)' <=> ReadByRoute(x)) /\ (WrittenByRoute(x)' <=> WrittenByRoute(x))
      BY DEF ToolFits, ReadByRoute, WrittenByRoute, Owns, CanRead, CanWrite, IsAdmin
  <2>2. there' \cup held' \cup attached' \subseteq there \cup held \cup attached
      BY DEF ToolFits
  <2> QED BY <1>3, <2>1, <2>2 DEF BtIInv, BtRightsInv
<1>8. BtWithinInv'
    BY DEF BtIInv, BtWithinInv, Noted, ToolFits, Holds
<1>9. HeldFits(stage, held)'
  <2>1. MayShow(held') => MayShow(held)'
      BY <1>3 DEF MayShow, Within, ToolFits
  <2>2. MayChange(held') => MayChange(held)'
      BY <1>3 DEF MayChange, Within
  <2> QED BY <1>3, <2>1, <2>2 DEF HeldFits, ToolFits
<1>10. ToolsWithinRights'
    BY <1>4 DEF ToolsWithinRights, MayShow, MayChange
<1> QED BY <1>6, <1>7, <1>8, <1>9, <1>10 DEF BtIInv

LEMMA Looks ==
    ASSUME BtIInv, NEW t, NEW s, NEW next, NEW S, Call(t, s), Look(next, S),
           S \subseteq there \cup held \cup attached, HeldFits(next, S)
    PROVE  ToolFits
<1>1. MayShow(shown') /\ MayChange(done')
    BY DEF BtIInv, ToolsWithinRights, MayShow, MayChange, Look, Quiet
<1>2. HeldFits(stage', held')
    BY DEF Look, HeldFits
<1> QED BY <1>1, <1>2 DEF ToolFits, Call, Look, Quiet

LEMMA Shown ==
    ASSUME BtIInv, NEW t, NEW s, NEW S, Call(t, s), Show(S), MayShow(S)
    PROVE  ToolFits
<1>1. MayShow(shown') /\ MayChange(done')
    BY DEF BtIInv, ToolsWithinRights, MayShow, MayChange, Show
<1>2. HeldFits(stage', held')
    BY DEF Show, HeldFits
<1> QED BY <1>1, <1>2 DEF ToolFits, Call, Show

LEMMA Changed ==
    ASSUME BtIInv, NEW t, NEW s, NEW S, Call(t, s), Change(S), MayChange(S)
    PROVE  ToolFits
<1>1. MayShow(shown') /\ MayChange(done')
    BY DEF BtIInv, ToolsWithinRights, MayShow, MayChange, Change
<1>2. HeldFits(stage', held')
    BY DEF Change, HeldFits
<1> QED BY <1>1, <1>2 DEF ToolFits, Call, Change

(* What the invariant says of the rows a tool looks at. *)
LEMMA RowFacts ==
    ASSUME BtIInv
    PROVE  /\ \A x \in there \cup held \cup attached :
                /\ Owns(x) => x \in since["read"] /\ x \in since["write"]
                /\ CanRead(x) /\ Sort[x] \notin Owned => x \in since["read"]
                /\ CanWrite(x) /\ Sort[x] \in {"note", "calendar", "event"} => x \in since["write"]
           /\ \A x, y : y \in Inside(x) => y \in there /\ <<y, x>> \in lay
           /\ \A x, y : y \in Around(x) => y \in there /\ <<x, y>> \in lay /\ Holds(x, y)
           /\ \A x : Listed(x) => CanRead(x)
           /\ \A x : Owns(x) => CanRead(x) /\ CanWrite(x)
<1>1. \A x : Owns(x) => ReadByRoute(x) /\ WrittenByRoute(x) /\ CanRead(x) /\ CanWrite(x)
    BY DEF ReadByRoute, WrittenByRoute, CanRead, CanWrite
<1>2. \A x : CanRead(x) /\ Sort[x] \notin Owned => ReadByRoute(x)
    BY DEF ReadByRoute
<1>3. \A x : CanWrite(x) /\ Sort[x] \in {"note", "calendar", "event"} => WrittenByRoute(x)
    BY DEF WrittenByRoute
<1>4. \A x : Listed(x) => CanRead(x)
    BY DEF Listed, CanRead
<1>5. \A x, y : y \in Inside(x) => y \in there /\ <<y, x>> \in lay
    BY DEF BtIInv, BtWithinInv, Inside
<1>6. \A x, y : y \in Around(x) => y \in there /\ <<x, y>> \in lay /\ Holds(x, y)
  <2> SUFFICES ASSUME NEW x, NEW y, y \in Around(x) PROVE y \in there /\ <<x, y>> \in lay /\ Holds(x, y)
      OBVIOUS
  <2>1. y \in there /\ <<x, y>> \in lay
      BY DEF BtIInv, BtWithinInv, Around
  <2>2. Holds(<<x, y>>[1], <<x, y>>[2])
      BY <2>1 DEF BtIInv, BtWithinInv
  <2> QED BY <2>1, <2>2
<1> QED BY <1>1, <1>2, <1>3, <1>4, <1>5, <1>6 DEF BtIInv, BtRightsInv

(* What is inside something the user may read, may be shown. *)
LEMMA InsideShown ==
    ASSUME BtIInv, NEW S, \A x \in S : x \in since["read"] \/ (Sort[x] = "file" /\ x \in attached)
    PROVE  /\ MayShow(S)
           /\ MayShow(UNION {Inside(x) : x \in S \cap there})
<1>1. MayShow(S)
    BY DEF MayShow, Within
<1>2. \A x, y : y \in Inside(x) => y \in there /\ <<y, x>> \in lay
    BY RowFacts
<1>3. \A x, y : y \in Inside(x) => Sort[x] # "file"
  <2> SUFFICES ASSUME NEW x, NEW y, y \in Inside(x) PROVE Sort[x] # "file"
      OBVIOUS
  <2>1. Holds(<<y, x>>[1], <<y, x>>[2])
      BY <1>2 DEF BtIInv, BtWithinInv
  <2> QED BY <2>1 DEF Holds
<1>4. MayShow(UNION {Inside(x) : x \in S \cap there})
    BY <1>2, <1>3 DEF MayShow, Within
<1> QED BY <1>1, <1>4

(* What the tools over knowledge start from, and whom they let open a file.  *)
LEMMA Accessible ==
    ASSUME BtIInv
    PROVE  /\ Attachments \subseteq there \cap attached /\ \A x \in Attachments : Sort[x] = "file"
           /\ get_accessible_kb_ids \subseteq there /\ get_accessible_kb_ids \subseteq since["read"]
           /\ \A x \in Given("base") \cup Given("note") : x \in there /\ (CanRead(x) => x \in since["read"])
<1>1. \A x \in there : CanRead(x) /\ Sort[x] \notin Owned => x \in since["read"]
    BY RowFacts
<1>2. \A x : Listed(x) => CanRead(x)
    BY RowFacts
<1> QED BY <1>1, <1>2 DEF Attachments, Given, Of, get_accessible_kb_ids, Owned

LEMMA FileShown ==
    ASSUME BtIInv, NEW x \in there \cup held \cup attached, Sort[x] = "file", NEW bases,
           \A b \in bases : b \in there \cup held /\ <<x, b>> \in lay,
           has_read_access_to_file(x, bases)
    PROVE  MayShow({x})
<1>1. CASE x \in attached
    BY <1>1 DEF MayShow
<1>2. CASE CanRead(x)
    BY <1>2, RowFacts DEF MayShow, Within, Owned
<1>3. CASE \E b \in bases : Listed(b)
  <2>1. PICK b \in bases : Listed(b)
      BY <1>3
  <2>2. Holds(<<x, b>>[1], <<x, b>>[2])
      BY DEF BtIInv, BtWithinInv
  <2>3. Sort[b] \notin Owned
      BY <2>2 DEF Holds, Owned
  <2>4. b \in since["read"]
      BY <2>1, <2>3, RowFacts
  <2> QED BY <2>4 DEF MayShow, Within
<1> QED BY <1>1, <1>2, <1>3 DEF has_read_access_to_file, has_access_to_file, CanRead

(* Every step of a tool fits. *)
LEMMA ToolStepFits == BtIInv /\ BtTools => ToolFits
<1> SUFFICES ASSUME BtIInv, BtTools PROVE ToolFits
    OBVIOUS
<1>0. HeldFits(stage, held)
    BY DEF BtIInv
<1>1. ASSUME search_notes PROVE ToolFits
  <2>0. Call("search_notes", "called") /\ Show({x \in Of("note") : Listed(x)})
      BY <1>1 DEF search_notes
  <2>1. MayShow({x \in Of("note") : Listed(x)})
      BY <1>0, <2>0, RowFacts DEF MayShow, Within, HeldFits, RowSort, OpensFile, Owned, Call, Asked, Of
  <2> QED BY <2>0, <2>1, Shown
<1>2. ASSUME view_note PROVE ToolFits
  <2>1. CASE Call("view_note", "called") /\ Look("row", Asked("note"))
    <3>1. Asked("note") \subseteq there \cup held \cup attached /\ HeldFits("row", Asked("note"))
        BY <2>1, RowFacts DEF HeldFits, RowSort, OpensFile, Owned, Call, Asked, Of
    <3> QED BY <2>1, <3>1, Looks
  <2>2. CASE Call("view_note", "row") /\ Show({x \in held : CanRead(x)})
    <3>1. MayShow({x \in held : CanRead(x)})
        BY <1>0, <2>2, RowFacts DEF MayShow, Within, HeldFits, RowSort, OpensFile, Owned, Call, Asked, Of
    <3> QED BY <2>2, <3>1, Shown
  <2> QED BY <1>2, <2>1, <2>2 DEF view_note
<1>3. ASSUME replace_note_content PROVE ToolFits
  <2>1. CASE Call("replace_note_content", "called") /\ Look("row", Asked("note"))
    <3>1. Asked("note") \subseteq there \cup held \cup attached /\ HeldFits("row", Asked("note"))
        BY <2>1, RowFacts DEF HeldFits, RowSort, OpensFile, Owned, Call, Asked, Of
    <3> QED BY <2>1, <3>1, Looks
  <2>2. CASE Call("replace_note_content", "row") /\ Look("checked", {x \in held : CanWrite(x)})
    <3>1. {x \in held : CanWrite(x)} \subseteq there \cup held \cup attached /\ HeldFits("checked", {x \in held : CanWrite(x)})
        BY <1>0, <2>2, RowFacts DEF HeldFits, RowSort, OpensFile, Owned, Call, Asked, Of, MayChange, Within, CanWrite, Holds
    <3> QED BY <2>2, <3>1, Looks
  <2>3. CASE Call("replace_note_content", "checked") /\ Change(held \cap there)
    <3>1. MayChange(held \cap there)
        BY <1>0, <2>3, RowFacts DEF MayChange, Within, HeldFits, RowSort, OpensFile, Owned, Call, Asked, Of
    <3> QED BY <2>3, <3>1, Changed
  <2> QED BY <1>3, <2>1, <2>2, <2>3 DEF replace_note_content
<1>4. ASSUME search_chats PROVE ToolFits
  <2>0. Call("search_chats", "called") /\ Show({x \in Of("chat") : Owns(x)})
      BY <1>4 DEF search_chats
  <2>1. MayShow({x \in Of("chat") : Owns(x)})
      BY <1>0, <2>0, RowFacts DEF MayShow, Within, HeldFits, RowSort, OpensFile, Owned, Call, Asked, Of
  <2> QED BY <2>0, <2>1, Shown
<1>5. ASSUME view_chat PROVE ToolFits
  <2>0. Call("view_chat", "called") /\ Show({x \in Asked("chat") : Owns(x)})
      BY <1>5 DEF view_chat
  <2>1. MayShow({x \in Asked("chat") : Owns(x)})
      BY <1>0, <2>0, RowFacts DEF MayShow, Within, HeldFits, RowSort, OpensFile, Owned, Call, Asked, Of
  <2> QED BY <2>0, <2>1, Shown
<1>6. ASSUME list_memory_paths PROVE ToolFits
  <2>0. Call("list_memory_paths", "called") /\ Show({x \in Of("memory") : Owns(x)})
      BY <1>6 DEF list_memory_paths, OwnMemories
  <2>1. MayShow({x \in Of("memory") : Owns(x)})
      BY <1>0, <2>0, RowFacts DEF MayShow, Within, HeldFits, RowSort, OpensFile, Owned, Call, Asked, Of
  <2> QED BY <2>0, <2>1, Shown
<1>7. ASSUME read_memory_path PROVE ToolFits
  <2>0. Call("read_memory_path", "called") /\ Show({x \in Of("memory") : Owns(x)})
      BY <1>7 DEF read_memory_path, OwnMemories
  <2>1. MayShow({x \in Of("memory") : Owns(x)})
      BY <1>0, <2>0, RowFacts DEF MayShow, Within, HeldFits, RowSort, OpensFile, Owned, Call, Asked, Of
  <2> QED BY <2>0, <2>1, Shown
<1>8. ASSUME search_memories PROVE ToolFits
  <2>0. Call("search_memories", "called") /\ Show({x \in Of("memory") : Owns(x)})
      BY <1>8 DEF search_memories, OwnMemories
  <2>1. MayShow({x \in Of("memory") : Owns(x)})
      BY <1>0, <2>0, RowFacts DEF MayShow, Within, HeldFits, RowSort, OpensFile, Owned, Call, Asked, Of
  <2> QED BY <2>0, <2>1, Shown
<1>9. ASSUME list_memories PROVE ToolFits
  <2>0. Call("list_memories", "called") /\ Show({x \in Of("memory") : Owns(x)})
      BY <1>9 DEF list_memories, OwnMemories
  <2>1. MayShow({x \in Of("memory") : Owns(x)})
      BY <1>0, <2>0, RowFacts DEF MayShow, Within, HeldFits, RowSort, OpensFile, Owned, Call, Asked, Of
  <2> QED BY <2>0, <2>1, Shown
<1>10. ASSUME update_memory PROVE ToolFits
  <2>0. Call("update_memory", "called") /\ Change({x \in Asked("memory") : Owns(x)})
      BY <1>10 DEF update_memory, OwnMemory
  <2>1. MayChange({x \in Asked("memory") : Owns(x)})
      BY <1>0, <2>0, RowFacts DEF MayChange, Within, HeldFits, RowSort, OpensFile, Owned, Call, Asked, Of
  <2> QED BY <2>0, <2>1, Changed
<1>11. ASSUME replace_memory_content PROVE ToolFits
  <2>0. Call("replace_memory_content", "called") /\ Change({x \in Asked("memory") : Owns(x)})
      BY <1>11 DEF replace_memory_content, OwnMemory
  <2>1. MayChange({x \in Asked("memory") : Owns(x)})
      BY <1>0, <2>0, RowFacts DEF MayChange, Within, HeldFits, RowSort, OpensFile, Owned, Call, Asked, Of
  <2> QED BY <2>0, <2>1, Changed
<1>12. ASSUME search_channels PROVE ToolFits
  <2>0. Call("search_channels", "called") /\ Show(get_channels_by_user_id)
      BY <1>12 DEF search_channels
  <2>1. MayShow(get_channels_by_user_id)
      BY <1>0, <2>0, RowFacts DEF MayShow, Within, HeldFits, RowSort, OpensFile, Owned, Call, Asked, Of, get_channels_by_user_id
  <2> QED BY <2>0, <2>1, Shown
<1>13. ASSUME search_channel_messages PROVE ToolFits
  <2>1. CASE Call("search_channel_messages", "called") /\ Look("channels", {x \in get_channels_by_user_id : wanted \in {None, x}})
    <3>1. {x \in get_channels_by_user_id : wanted \in {None, x}} \subseteq there \cup held \cup attached /\ HeldFits("channels", {x \in get_channels_by_user_id : wanted \in {None, x}})
        BY <2>1, RowFacts DEF HeldFits, RowSort, OpensFile, Owned, Call, Asked, Of, get_channels_by_user_id
    <3> QED BY <2>1, <3>1, Looks
  <2>2. CASE Call("search_channel_messages", "channels") /\ Show(UNION {Inside(x) : x \in held})
    <3>0. stage = "channels" /\ HeldFits("channels", held)
        BY <1>0, <2>2 DEF Call
    <3>1. held \subseteq since["read"]
        BY <3>0 DEF HeldFits
    <3>2. MayShow(UNION {Inside(x) : x \in held})
        BY <3>1, RowFacts DEF MayShow, Within
    <3> QED BY <2>2, <3>2, Shown
  <2> QED BY <1>13, <2>1, <2>2 DEF search_channel_messages
<1>14. ASSUME view_channel_message PROVE ToolFits
  <2>1. CASE Call("view_channel_message", "called") /\ Look("row", {p \in Asked("post") : Around(p) # {}})
    <3>1. {p \in Asked("post") : Around(p) # {}} \subseteq there \cup held \cup attached /\ HeldFits("row", {p \in Asked("post") : Around(p) # {}})
        BY <2>1, RowFacts DEF HeldFits, RowSort, OpensFile, Owned, Call, Asked, Of
    <3> QED BY <2>1, <3>1, Looks
  <2>2. CASE Call("view_channel_message", "row") /\ Show({p \in held : \E x \in get_channels_by_user_id : TRUE /\ <<p, x>> \in lay})
    <3>1. MayShow({p \in held : \E x \in get_channels_by_user_id : TRUE /\ <<p, x>> \in lay})
        BY <1>0, <2>2, RowFacts DEF MayShow, Within, HeldFits, RowSort, OpensFile, Owned, Call, Asked, Of, get_channels_by_user_id
    <3> QED BY <2>2, <3>1, Shown
  <2> QED BY <1>14, <2>1, <2>2 DEF view_channel_message, Viewed
<1>15. ASSUME view_channel_thread PROVE ToolFits
  <2>1. CASE Call("view_channel_thread", "called") /\ Look("row", {p \in Asked("post") : Around(p) # {}})
    <3>1. {p \in Asked("post") : Around(p) # {}} \subseteq there \cup held \cup attached /\ HeldFits("row", {p \in Asked("post") : Around(p) # {}})
        BY <2>1, RowFacts DEF HeldFits, RowSort, OpensFile, Owned, Call, Asked, Of
    <3> QED BY <2>1, <3>1, Looks
  <2>2. CASE Call("view_channel_thread", "row") /\ Show({p \in held : \E x \in get_channels_by_user_id : x \in there /\ <<p, x>> \in lay})
    <3>1. MayShow({p \in held : \E x \in get_channels_by_user_id : x \in there /\ <<p, x>> \in lay})
        BY <1>0, <2>2, RowFacts DEF MayShow, Within, HeldFits, RowSort, OpensFile, Owned, Call, Asked, Of, get_channels_by_user_id
    <3> QED BY <2>2, <3>1, Shown
  <2> QED BY <1>15, <2>1, <2>2 DEF view_channel_thread, Viewed
<1>16. ASSUME list_knowledge_bases PROVE ToolFits
  <2>0. Call("list_knowledge_bases", "called") /\ Show({x \in Of("base") : Listed(x)})
      BY <1>16 DEF list_knowledge_bases
  <2>1. MayShow({x \in Of("base") : Listed(x)})
      BY <1>0, <2>0, RowFacts DEF MayShow, Within, HeldFits, RowSort, OpensFile, Owned, Call, Asked, Of
  <2> QED BY <2>0, <2>1, Shown
<1>17. ASSUME query_knowledge_bases PROVE ToolFits
  <2>1. CASE Call("query_knowledge_bases", "called") /\ Look("ids", {x \in Of("base") : Listed(x)})
    <3>1. {x \in Of("base") : Listed(x)} \subseteq there \cup held \cup attached /\ HeldFits("ids", {x \in Of("base") : Listed(x)})
        BY <2>1, RowFacts DEF HeldFits, RowSort, OpensFile, Owned, Call, Asked, Of
    <3> QED BY <2>1, <3>1, Looks
  <2>2. CASE Call("query_knowledge_bases", "ids") /\ Show(held \cap there)
    <3>1. MayShow(held \cap there)
        BY <1>0, <2>2, RowFacts DEF MayShow, Within, HeldFits, RowSort, OpensFile, Owned, Call, Asked, Of
    <3> QED BY <2>2, <3>1, Shown
  <2> QED BY <1>17, <2>1, <2>2 DEF query_knowledge_bases
<1>18. ASSUME search_knowledge_files PROVE ToolFits
  <2>1. CASE Call("search_knowledge_files", "called") /\ Look("bases", get_accessible_kb_ids \cup Attachments)
    <3>1. get_accessible_kb_ids \cup Attachments \subseteq there \cup held \cup attached /\ HeldFits("bases", get_accessible_kb_ids \cup Attachments)
        BY <2>1, Accessible DEF HeldFits, RowSort, OpensFile, Owned, Call, Asked, Of
    <3> QED BY <2>1, <3>1, Looks
  <2>2. CASE Call("search_knowledge_files", "bases") /\ Show(Shelved \cup (IF wanted = None THEN held \cap Attachments ELSE {}))
    <3>1. \A x \in held : x \in since["read"] \/ (Sort[x] = "file" /\ x \in attached)
        BY <1>0, <2>2 DEF HeldFits, Call, OpensFile
    <3>2. MayShow(held) /\ MayShow(Shelved)
        BY <3>1, InsideShown DEF Shelved
    <3>3. MayShow(Shelved \cup (IF wanted = None THEN held \cap Attachments ELSE {}))
        BY <3>2 DEF MayShow
    <3> QED BY <2>2, <3>3, Shown
  <2> QED BY <1>18, <2>1, <2>2 DEF search_knowledge_files
<1>19. ASSUME grep_knowledge_files PROVE ToolFits
  <2>1. CASE Call("grep_knowledge_files", "called") /\ Look("row", Asked("file"))
    <3>1. Asked("file") \subseteq there \cup held \cup attached /\ HeldFits("row", Asked("file"))
        BY <2>1, RowFacts DEF HeldFits, RowSort, OpensFile, Owned, Call, Asked, Of
    <3> QED BY <2>1, <3>1, Looks
  <2>2. CASE Call("grep_knowledge_files", "row") /\ Show({x \in held : has_read_access_to_file(x, Around(x))})
    <3>1. ASSUME NEW x \in {x \in held : has_read_access_to_file(x, Around(x))}
         PROVE  MayShow({x})
      <4>1. Sort[x] = "file"
          BY <1>0, <2>2 DEF HeldFits, Call, RowSort
      <4>2. \A b \in Around(x) : b \in there \cup held /\ <<x, b>> \in lay
          BY RowFacts
      <4> QED BY <4>1, <4>2, FileShown
    <3>2. MayShow({x \in held : has_read_access_to_file(x, Around(x))})
        BY <3>1 DEF MayShow
    <3> QED BY <2>2, <3>2, Shown
  <2>3. CASE Call("grep_knowledge_files", "called") /\ Look("bases", get_accessible_kb_ids \cup Attachments)
    <3>1. get_accessible_kb_ids \cup Attachments \subseteq there \cup held \cup attached /\ HeldFits("bases", get_accessible_kb_ids \cup Attachments)
        BY <2>3, Accessible DEF HeldFits, RowSort, OpensFile, Owned, Call, Asked, Of
    <3> QED BY <2>3, <3>1, Looks
  <2>4. CASE Call("grep_knowledge_files", "bases") /\ Show(Shelved \cup (held \cap Attachments))
    <3>1. \A x \in held : x \in since["read"] \/ (Sort[x] = "file" /\ x \in attached)
        BY <1>0, <2>4 DEF HeldFits, Call, OpensFile
    <3>2. MayShow(held) /\ MayShow(Shelved)
        BY <3>1, InsideShown DEF Shelved
    <3>3. MayShow(Shelved \cup (held \cap Attachments))
        BY <3>2 DEF MayShow
    <3> QED BY <2>4, <3>3, Shown
  <2> QED BY <1>19, <2>1, <2>2, <2>3, <2>4 DEF grep_knowledge_files
<1>20. ASSUME query_knowledge_files PROVE ToolFits
  <2>1. CASE Call("query_knowledge_files", "called") /\ Look("bases", get_accessible_kb_ids \cup Attachments)
    <3>1. get_accessible_kb_ids \cup Attachments \subseteq there \cup held \cup attached /\ HeldFits("bases", get_accessible_kb_ids \cup Attachments)
        BY <2>1, Accessible DEF HeldFits, RowSort, OpensFile, Owned, Call, Asked, Of
    <3> QED BY <2>1, <3>1, Looks
  <2>2. CASE Call("query_knowledge_files", "bases") /\ Show(Shelved \cup (held \cap Attachments))
    <3>1. \A x \in held : x \in since["read"] \/ (Sort[x] = "file" /\ x \in attached)
        BY <1>0, <2>2 DEF HeldFits, Call, OpensFile
    <3>2. MayShow(held) /\ MayShow(Shelved)
        BY <3>1, InsideShown DEF Shelved
    <3>3. MayShow(Shelved \cup (held \cap Attachments))
        BY <3>2 DEF MayShow
    <3> QED BY <2>2, <3>3, Shown
  <2> QED BY <1>20, <2>1, <2>2 DEF query_knowledge_files
<1>21. ASSUME list_knowledge PROVE ToolFits
  <2>1. CASE Call("list_knowledge", "called") /\ Look("bases", Attachments \cup {x \in Given("base") \cup Given("note") : CanRead(x)})
    <3>1. Attachments \cup {x \in Given("base") \cup Given("note") : CanRead(x)} \subseteq there \cup held \cup attached /\ HeldFits("bases", Attachments \cup {x \in Given("base") \cup Given("note") : CanRead(x)})
        BY <2>1, Accessible DEF HeldFits, RowSort, OpensFile, Owned, Call, Asked, Of
    <3> QED BY <2>1, <3>1, Looks
  <2>2. CASE Call("list_knowledge", "bases") /\ Show(held \cup Shelved)
    <3>1. \A x \in held : x \in since["read"] \/ (Sort[x] = "file" /\ x \in attached)
        BY <1>0, <2>2 DEF HeldFits, Call, OpensFile
    <3>2. MayShow(held) /\ MayShow(Shelved)
        BY <3>1, InsideShown DEF Shelved
    <3>3. MayShow(held \cup Shelved)
        BY <3>2 DEF MayShow
    <3> QED BY <2>2, <3>3, Shown
  <2> QED BY <1>21, <2>1, <2>2 DEF list_knowledge
<1>22. ASSUME view_file PROVE ToolFits
  <2>1. CASE Call("view_file", "called") /\ Look("row", Asked("file"))
    <3>1. Asked("file") \subseteq there \cup held \cup attached /\ HeldFits("row", Asked("file"))
        BY <2>1, RowFacts DEF HeldFits, RowSort, OpensFile, Owned, Call, Asked, Of
    <3> QED BY <2>1, <3>1, Looks
  <2>2. CASE Call("view_file", "row") /\ Look("bases", held \cup UNION {Around(x) : x \in held})
    <3>1. held \cup UNION {Around(x) : x \in held} \subseteq there \cup held \cup attached /\ HeldFits("bases", held \cup UNION {Around(x) : x \in held})
      <4>1. tool = "view_file" /\ stage = "row" /\ HeldFits("row", held)
          BY <1>0, <2>2 DEF Call
      <4>2. held \subseteq {wanted}
          BY <4>1 DEF HeldFits, OpensFile
      <4>3. \A x \in held : Sort[x] = "file"
          BY <4>1 DEF HeldFits, RowSort
      <4>4. \A x, b : b \in Around(x) => b \in there /\ <<x, b>> \in lay /\ Holds(x, b)
          BY RowFacts
      <4>5. \A x \in held : \A b \in Around(x) : b \in there /\ <<wanted, b>> \in lay /\ Sort[b] # "file"
          BY <4>2, <4>3, <4>4 DEF Holds
      <4>6. \A z \in held \cup UNION {Around(x) : x \in held} :
               /\ z \in there \cup held
               /\ z = wanted \/ (Sort[z] # "file" /\ <<wanted, z>> \in lay)
          BY <4>2, <4>5
      <4> QED BY <4>1, <4>6 DEF HeldFits, OpensFile
    <3> QED BY <2>2, <3>1, Looks
  <2>3. CASE Call("view_file", "bases") /\ Show({x \in held : Sort[x] = "file" /\ has_read_access_to_file(x, held \ {x})})
    <3>1. ASSUME NEW x \in {x \in held : Sort[x] = "file" /\ has_read_access_to_file(x, held \ {x})}
         PROVE  MayShow({x})
      <4>1. x = wanted /\ \A b \in held \ {x} : b \in there \cup held /\ <<x, b>> \in lay
          BY <1>0, <2>3 DEF HeldFits, Call, OpensFile
      <4>2. has_read_access_to_file(x, held \ {x})
          BY DEF has_read_access_to_file, has_access_to_file
      <4> QED BY <4>1, <4>2, FileShown
    <3>2. MayShow({x \in held : Sort[x] = "file" /\ has_read_access_to_file(x, held \ {x})})
        BY <3>1 DEF MayShow
    <3> QED BY <2>3, <3>2, Shown
  <2> QED BY <1>22, <2>1, <2>2, <2>3 DEF view_file
<1>23. ASSUME view_knowledge_file PROVE ToolFits
  <2>1. CASE Call("view_knowledge_file", "called") /\ Look("row", Asked("file"))
    <3>1. Asked("file") \subseteq there \cup held \cup attached /\ HeldFits("row", Asked("file"))
        BY <2>1, RowFacts DEF HeldFits, RowSort, OpensFile, Owned, Call, Asked, Of
    <3> QED BY <2>1, <3>1, Looks
  <2>2. CASE Call("view_knowledge_file", "row") /\ Look("bases", held \cup UNION {Around(x) : x \in held})
    <3>1. held \cup UNION {Around(x) : x \in held} \subseteq there \cup held \cup attached /\ HeldFits("bases", held \cup UNION {Around(x) : x \in held})
      <4>1. tool = "view_knowledge_file" /\ stage = "row" /\ HeldFits("row", held)
          BY <1>0, <2>2 DEF Call
      <4>2. held \subseteq {wanted}
          BY <4>1 DEF HeldFits, OpensFile
      <4>3. \A x \in held : Sort[x] = "file"
          BY <4>1 DEF HeldFits, RowSort
      <4>4. \A x, b : b \in Around(x) => b \in there /\ <<x, b>> \in lay /\ Holds(x, b)
          BY RowFacts
      <4>5. \A x \in held : \A b \in Around(x) : b \in there /\ <<wanted, b>> \in lay /\ Sort[b] # "file"
          BY <4>2, <4>3, <4>4 DEF Holds
      <4>6. \A z \in held \cup UNION {Around(x) : x \in held} :
               /\ z \in there \cup held
               /\ z = wanted \/ (Sort[z] # "file" /\ <<wanted, z>> \in lay)
          BY <4>2, <4>5
      <4> QED BY <4>1, <4>6 DEF HeldFits, OpensFile
    <3> QED BY <2>2, <3>1, Looks
  <2>3. CASE Call("view_knowledge_file", "bases") /\ Show({x \in held : Sort[x] = "file" /\ (Owns(x) \/ IsAdmin \/ \E b \in held \ {x} : Listed(b))})
    <3>1. ASSUME NEW x \in {x \in held : Sort[x] = "file" /\ (Owns(x) \/ IsAdmin \/ \E b \in held \ {x} : Listed(b))}
         PROVE  MayShow({x})
      <4>1. x = wanted /\ \A b \in held \ {x} : b \in there \cup held /\ <<x, b>> \in lay
          BY <1>0, <2>3 DEF HeldFits, Call, OpensFile
      <4>2. has_read_access_to_file(x, held \ {x})
          BY DEF has_read_access_to_file, has_access_to_file
      <4> QED BY <4>1, <4>2, FileShown
    <3>2. MayShow({x \in held : Sort[x] = "file" /\ (Owns(x) \/ IsAdmin \/ \E b \in held \ {x} : Listed(b))})
        BY <3>1 DEF MayShow
    <3> QED BY <2>3, <3>2, Shown
  <2> QED BY <1>23, <2>1, <2>2, <2>3 DEF view_knowledge_file
<1>24. ASSUME list_chat_files PROVE ToolFits
  <2>1. CASE Call("list_chat_files", "called") /\ Look("row", {x \in Of("file") : wanted \in {None, x}})
    <3>1. {x \in Of("file") : wanted \in {None, x}} \subseteq there \cup held \cup attached /\ HeldFits("row", {x \in Of("file") : wanted \in {None, x}})
        BY <2>1, RowFacts DEF HeldFits, RowSort, OpensFile, Owned, Call, Asked, Of
    <3> QED BY <2>1, <3>1, Looks
  <2>2. CASE Call("list_chat_files", "row") /\ Show({x \in held : x \notin attached /\ has_read_access_to_file(x, Around(x))})
    <3>1. ASSUME NEW x \in {x \in held : x \notin attached /\ has_read_access_to_file(x, Around(x))}
         PROVE  MayShow({x})
      <4>1. Sort[x] = "file"
          BY <1>0, <2>2 DEF HeldFits, Call, RowSort
      <4>2. \A b \in Around(x) : b \in there \cup held /\ <<x, b>> \in lay
          BY RowFacts
      <4> QED BY <4>1, <4>2, FileShown
    <3>2. MayShow({x \in held : x \notin attached /\ has_read_access_to_file(x, Around(x))})
        BY <3>1 DEF MayShow
    <3> QED BY <2>2, <3>2, Shown
  <2> QED BY <1>24, <2>1, <2>2 DEF list_chat_files, get_accessible_chat_files
<1>25. ASSUME grep_chat_files PROVE ToolFits
  <2>1. CASE Call("grep_chat_files", "called") /\ Look("row", {x \in Of("file") : wanted \in {None, x}})
    <3>1. {x \in Of("file") : wanted \in {None, x}} \subseteq there \cup held \cup attached /\ HeldFits("row", {x \in Of("file") : wanted \in {None, x}})
        BY <2>1, RowFacts DEF HeldFits, RowSort, OpensFile, Owned, Call, Asked, Of
    <3> QED BY <2>1, <3>1, Looks
  <2>2. CASE Call("grep_chat_files", "row") /\ Show({x \in held : x \notin attached /\ has_read_access_to_file(x, Around(x))})
    <3>1. ASSUME NEW x \in {x \in held : x \notin attached /\ has_read_access_to_file(x, Around(x))}
         PROVE  MayShow({x})
      <4>1. Sort[x] = "file"
          BY <1>0, <2>2 DEF HeldFits, Call, RowSort
      <4>2. \A b \in Around(x) : b \in there \cup held /\ <<x, b>> \in lay
          BY RowFacts
      <4> QED BY <4>1, <4>2, FileShown
    <3>2. MayShow({x \in held : x \notin attached /\ has_read_access_to_file(x, Around(x))})
        BY <3>1 DEF MayShow
    <3> QED BY <2>2, <3>2, Shown
  <2> QED BY <1>25, <2>1, <2>2 DEF grep_chat_files, get_accessible_chat_files
<1>26. ASSUME query_chat_files PROVE ToolFits
  <2>1. CASE Call("query_chat_files", "called") /\ Look("row", {x \in Of("file") : wanted \in {None, x}})
    <3>1. {x \in Of("file") : wanted \in {None, x}} \subseteq there \cup held \cup attached /\ HeldFits("row", {x \in Of("file") : wanted \in {None, x}})
        BY <2>1, RowFacts DEF HeldFits, RowSort, OpensFile, Owned, Call, Asked, Of
    <3> QED BY <2>1, <3>1, Looks
  <2>2. CASE Call("query_chat_files", "row") /\ Show({x \in held : x \notin attached /\ has_read_access_to_file(x, Around(x))})
    <3>1. ASSUME NEW x \in {x \in held : x \notin attached /\ has_read_access_to_file(x, Around(x))}
         PROVE  MayShow({x})
      <4>1. Sort[x] = "file"
          BY <1>0, <2>2 DEF HeldFits, Call, RowSort
      <4>2. \A b \in Around(x) : b \in there \cup held /\ <<x, b>> \in lay
          BY RowFacts
      <4> QED BY <4>1, <4>2, FileShown
    <3>2. MayShow({x \in held : x \notin attached /\ has_read_access_to_file(x, Around(x))})
        BY <3>1 DEF MayShow
    <3> QED BY <2>2, <3>2, Shown
  <2> QED BY <1>26, <2>1, <2>2 DEF query_chat_files, get_accessible_chat_files
<1>27. ASSUME kb_cat PROVE ToolFits
  <2>1. CASE Call("kb_cat", "called") /\ Look("bases", get_accessible_kb_ids \cup Attachments)
    <3>1. get_accessible_kb_ids \cup Attachments \subseteq there \cup held \cup attached /\ HeldFits("bases", get_accessible_kb_ids \cup Attachments)
        BY <2>1, Accessible DEF HeldFits, RowSort, OpensFile, Owned, Call, Asked, Of
    <3> QED BY <2>1, <3>1, Looks
  <2>2. CASE Call("kb_cat", "bases") /\ Look("file", (Shelved \cup (held \cap Attachments)) \cap {wanted})
    <3>1. \A x \in held : x \in since["read"] \/ (Sort[x] = "file" /\ x \in attached)
        BY <1>0, <2>2 DEF HeldFits, Call, OpensFile
    <3>2. MayShow(held) /\ MayShow(Shelved) /\ Shelved \subseteq there
        BY <3>1, InsideShown, RowFacts DEF Shelved
    <3>3. MayShow((Shelved \cup (held \cap Attachments)) \cap {wanted})
        BY <3>2 DEF MayShow
    <3>4. (Shelved \cup (held \cap Attachments)) \cap {wanted} \subseteq there \cup held \cup attached /\ HeldFits("file", (Shelved \cup (held \cap Attachments)) \cap {wanted})
        BY <3>2, <3>3 DEF HeldFits
    <3> QED BY <2>2, <3>4, Looks
  <2>3. CASE Call("kb_cat", "file") /\ Show(held \cap there)
    <3>1. MayShow(held \cap there)
        BY <1>0, <2>3, RowFacts DEF MayShow, Within, HeldFits, RowSort, OpensFile, Owned, Call, Asked, Of
    <3> QED BY <2>3, <3>1, Shown
  <2> QED BY <1>27, <2>1, <2>2, <2>3 DEF kb_cat, resolve_file
<1>28. ASSUME kb_head PROVE ToolFits
  <2>1. CASE Call("kb_head", "called") /\ Look("bases", get_accessible_kb_ids \cup Attachments)
    <3>1. get_accessible_kb_ids \cup Attachments \subseteq there \cup held \cup attached /\ HeldFits("bases", get_accessible_kb_ids \cup Attachments)
        BY <2>1, Accessible DEF HeldFits, RowSort, OpensFile, Owned, Call, Asked, Of
    <3> QED BY <2>1, <3>1, Looks
  <2>2. CASE Call("kb_head", "bases") /\ Look("file", (Shelved \cup (held \cap Attachments)) \cap {wanted})
    <3>1. \A x \in held : x \in since["read"] \/ (Sort[x] = "file" /\ x \in attached)
        BY <1>0, <2>2 DEF HeldFits, Call, OpensFile
    <3>2. MayShow(held) /\ MayShow(Shelved) /\ Shelved \subseteq there
        BY <3>1, InsideShown, RowFacts DEF Shelved
    <3>3. MayShow((Shelved \cup (held \cap Attachments)) \cap {wanted})
        BY <3>2 DEF MayShow
    <3>4. (Shelved \cup (held \cap Attachments)) \cap {wanted} \subseteq there \cup held \cup attached /\ HeldFits("file", (Shelved \cup (held \cap Attachments)) \cap {wanted})
        BY <3>2, <3>3 DEF HeldFits
    <3> QED BY <2>2, <3>4, Looks
  <2>3. CASE Call("kb_head", "file") /\ Show(held \cap there)
    <3>1. MayShow(held \cap there)
        BY <1>0, <2>3, RowFacts DEF MayShow, Within, HeldFits, RowSort, OpensFile, Owned, Call, Asked, Of
    <3> QED BY <2>3, <3>1, Shown
  <2> QED BY <1>28, <2>1, <2>2, <2>3 DEF kb_head, resolve_file
<1>29. ASSUME kb_tail PROVE ToolFits
  <2>1. CASE Call("kb_tail", "called") /\ Look("bases", get_accessible_kb_ids \cup Attachments)
    <3>1. get_accessible_kb_ids \cup Attachments \subseteq there \cup held \cup attached /\ HeldFits("bases", get_accessible_kb_ids \cup Attachments)
        BY <2>1, Accessible DEF HeldFits, RowSort, OpensFile, Owned, Call, Asked, Of
    <3> QED BY <2>1, <3>1, Looks
  <2>2. CASE Call("kb_tail", "bases") /\ Look("file", (Shelved \cup (held \cap Attachments)) \cap {wanted})
    <3>1. \A x \in held : x \in since["read"] \/ (Sort[x] = "file" /\ x \in attached)
        BY <1>0, <2>2 DEF HeldFits, Call, OpensFile
    <3>2. MayShow(held) /\ MayShow(Shelved) /\ Shelved \subseteq there
        BY <3>1, InsideShown, RowFacts DEF Shelved
    <3>3. MayShow((Shelved \cup (held \cap Attachments)) \cap {wanted})
        BY <3>2 DEF MayShow
    <3>4. (Shelved \cup (held \cap Attachments)) \cap {wanted} \subseteq there \cup held \cup attached /\ HeldFits("file", (Shelved \cup (held \cap Attachments)) \cap {wanted})
        BY <3>2, <3>3 DEF HeldFits
    <3> QED BY <2>2, <3>4, Looks
  <2>3. CASE Call("kb_tail", "file") /\ Show(held \cap there)
    <3>1. MayShow(held \cap there)
        BY <1>0, <2>3, RowFacts DEF MayShow, Within, HeldFits, RowSort, OpensFile, Owned, Call, Asked, Of
    <3> QED BY <2>3, <3>1, Shown
  <2> QED BY <1>29, <2>1, <2>2, <2>3 DEF kb_tail, resolve_file
<1>30. ASSUME kb_sed PROVE ToolFits
  <2>1. CASE Call("kb_sed", "called") /\ Look("bases", get_accessible_kb_ids \cup Attachments)
    <3>1. get_accessible_kb_ids \cup Attachments \subseteq there \cup held \cup attached /\ HeldFits("bases", get_accessible_kb_ids \cup Attachments)
        BY <2>1, Accessible DEF HeldFits, RowSort, OpensFile, Owned, Call, Asked, Of
    <3> QED BY <2>1, <3>1, Looks
  <2>2. CASE Call("kb_sed", "bases") /\ Look("file", (Shelved \cup (held \cap Attachments)) \cap {wanted})
    <3>1. \A x \in held : x \in since["read"] \/ (Sort[x] = "file" /\ x \in attached)
        BY <1>0, <2>2 DEF HeldFits, Call, OpensFile
    <3>2. MayShow(held) /\ MayShow(Shelved) /\ Shelved \subseteq there
        BY <3>1, InsideShown, RowFacts DEF Shelved
    <3>3. MayShow((Shelved \cup (held \cap Attachments)) \cap {wanted})
        BY <3>2 DEF MayShow
    <3>4. (Shelved \cup (held \cap Attachments)) \cap {wanted} \subseteq there \cup held \cup attached /\ HeldFits("file", (Shelved \cup (held \cap Attachments)) \cap {wanted})
        BY <3>2, <3>3 DEF HeldFits
    <3> QED BY <2>2, <3>4, Looks
  <2>3. CASE Call("kb_sed", "file") /\ Show(held \cap there)
    <3>1. MayShow(held \cap there)
        BY <1>0, <2>3, RowFacts DEF MayShow, Within, HeldFits, RowSort, OpensFile, Owned, Call, Asked, Of
    <3> QED BY <2>3, <3>1, Shown
  <2> QED BY <1>30, <2>1, <2>2, <2>3 DEF kb_sed, resolve_file
<1>31. ASSUME kb_wc PROVE ToolFits
  <2>1. CASE Call("kb_wc", "called") /\ Look("bases", get_accessible_kb_ids \cup Attachments)
    <3>1. get_accessible_kb_ids \cup Attachments \subseteq there \cup held \cup attached /\ HeldFits("bases", get_accessible_kb_ids \cup Attachments)
        BY <2>1, Accessible DEF HeldFits, RowSort, OpensFile, Owned, Call, Asked, Of
    <3> QED BY <2>1, <3>1, Looks
  <2>2. CASE Call("kb_wc", "bases") /\ Look("file", (Shelved \cup (held \cap Attachments)) \cap {wanted})
    <3>1. \A x \in held : x \in since["read"] \/ (Sort[x] = "file" /\ x \in attached)
        BY <1>0, <2>2 DEF HeldFits, Call, OpensFile
    <3>2. MayShow(held) /\ MayShow(Shelved) /\ Shelved \subseteq there
        BY <3>1, InsideShown, RowFacts DEF Shelved
    <3>3. MayShow((Shelved \cup (held \cap Attachments)) \cap {wanted})
        BY <3>2 DEF MayShow
    <3>4. (Shelved \cup (held \cap Attachments)) \cap {wanted} \subseteq there \cup held \cup attached /\ HeldFits("file", (Shelved \cup (held \cap Attachments)) \cap {wanted})
        BY <3>2, <3>3 DEF HeldFits
    <3> QED BY <2>2, <3>4, Looks
  <2>3. CASE Call("kb_wc", "file") /\ Show(held \cap there)
    <3>1. MayShow(held \cap there)
        BY <1>0, <2>3, RowFacts DEF MayShow, Within, HeldFits, RowSort, OpensFile, Owned, Call, Asked, Of
    <3> QED BY <2>3, <3>1, Shown
  <2> QED BY <1>31, <2>1, <2>2, <2>3 DEF kb_wc, resolve_file
<1>32. ASSUME kb_stat PROVE ToolFits
  <2>1. CASE Call("kb_stat", "called") /\ Look("bases", get_accessible_kb_ids \cup Attachments)
    <3>1. get_accessible_kb_ids \cup Attachments \subseteq there \cup held \cup attached /\ HeldFits("bases", get_accessible_kb_ids \cup Attachments)
        BY <2>1, Accessible DEF HeldFits, RowSort, OpensFile, Owned, Call, Asked, Of
    <3> QED BY <2>1, <3>1, Looks
  <2>2. CASE Call("kb_stat", "bases") /\ Look("file", (Shelved \cup (held \cap Attachments)) \cap {wanted})
    <3>1. \A x \in held : x \in since["read"] \/ (Sort[x] = "file" /\ x \in attached)
        BY <1>0, <2>2 DEF HeldFits, Call, OpensFile
    <3>2. MayShow(held) /\ MayShow(Shelved) /\ Shelved \subseteq there
        BY <3>1, InsideShown, RowFacts DEF Shelved
    <3>3. MayShow((Shelved \cup (held \cap Attachments)) \cap {wanted})
        BY <3>2 DEF MayShow
    <3>4. (Shelved \cup (held \cap Attachments)) \cap {wanted} \subseteq there \cup held \cup attached /\ HeldFits("file", (Shelved \cup (held \cap Attachments)) \cap {wanted})
        BY <3>2, <3>3 DEF HeldFits
    <3> QED BY <2>2, <3>4, Looks
  <2>3. CASE Call("kb_stat", "file") /\ Show(held \cap there)
    <3>1. MayShow(held \cap there)
        BY <1>0, <2>3, RowFacts DEF MayShow, Within, HeldFits, RowSort, OpensFile, Owned, Call, Asked, Of
    <3> QED BY <2>3, <3>1, Shown
  <2> QED BY <1>32, <2>1, <2>2, <2>3 DEF kb_stat, resolve_file
<1>33. ASSUME kb_grep PROVE ToolFits
  <2>1. CASE Call("kb_grep", "called") /\ Look("bases", get_accessible_kb_ids \cup Attachments)
    <3>1. get_accessible_kb_ids \cup Attachments \subseteq there \cup held \cup attached /\ HeldFits("bases", get_accessible_kb_ids \cup Attachments)
        BY <2>1, Accessible DEF HeldFits, RowSort, OpensFile, Owned, Call, Asked, Of
    <3> QED BY <2>1, <3>1, Looks
  <2>2. CASE Call("kb_grep", "bases") /\ Look("files", Shelved \cup (held \cap Attachments))
    <3>1. \A x \in held : x \in since["read"] \/ (Sort[x] = "file" /\ x \in attached)
        BY <1>0, <2>2 DEF HeldFits, Call, OpensFile
    <3>2. MayShow(held) /\ MayShow(Shelved) /\ Shelved \subseteq there
        BY <3>1, InsideShown, RowFacts DEF Shelved
    <3>3. MayShow(Shelved \cup (held \cap Attachments))
        BY <3>2 DEF MayShow
    <3>4. Shelved \cup (held \cap Attachments) \subseteq there \cup held \cup attached /\ HeldFits("files", Shelved \cup (held \cap Attachments))
        BY <3>2, <3>3 DEF HeldFits
    <3> QED BY <2>2, <3>4, Looks
  <2>3. CASE Call("kb_grep", "files") /\ Show(held \cap there)
    <3>1. MayShow(held \cap there)
        BY <1>0, <2>3, RowFacts DEF MayShow, Within, HeldFits, RowSort, OpensFile, Owned, Call, Asked, Of
    <3> QED BY <2>3, <3>1, Shown
  <2> QED BY <1>33, <2>1, <2>2, <2>3 DEF kb_grep
<1>34. ASSUME kb_ls PROVE ToolFits
  <2>1. CASE Call("kb_ls", "called") /\ Look("bases", get_accessible_kb_ids)
    <3>1. get_accessible_kb_ids \subseteq there \cup held \cup attached /\ HeldFits("bases", get_accessible_kb_ids)
        BY <2>1, Accessible DEF HeldFits, RowSort, OpensFile, Owned, Call, Asked, Of
    <3> QED BY <2>1, <3>1, Looks
  <2>2. CASE Call("kb_ls", "bases") /\ Show(held \cup Shelved)
    <3>1. \A x \in held : x \in since["read"] \/ (Sort[x] = "file" /\ x \in attached)
        BY <1>0, <2>2 DEF HeldFits, Call, OpensFile
    <3>2. MayShow(held) /\ MayShow(Shelved)
        BY <3>1, InsideShown DEF Shelved
    <3>3. MayShow(held \cup Shelved)
        BY <3>2 DEF MayShow
    <3> QED BY <2>2, <3>3, Shown
  <2> QED BY <1>34, <2>1, <2>2 DEF kb_ls, build_directory_tree
<1>35. ASSUME kb_find PROVE ToolFits
  <2>1. CASE Call("kb_find", "called") /\ Look("bases", get_accessible_kb_ids)
    <3>1. get_accessible_kb_ids \subseteq there \cup held \cup attached /\ HeldFits("bases", get_accessible_kb_ids)
        BY <2>1, Accessible DEF HeldFits, RowSort, OpensFile, Owned, Call, Asked, Of
    <3> QED BY <2>1, <3>1, Looks
  <2>2. CASE Call("kb_find", "bases") /\ Show(held \cup Shelved)
    <3>1. \A x \in held : x \in since["read"] \/ (Sort[x] = "file" /\ x \in attached)
        BY <1>0, <2>2 DEF HeldFits, Call, OpensFile
    <3>2. MayShow(held) /\ MayShow(Shelved)
        BY <3>1, InsideShown DEF Shelved
    <3>3. MayShow(held \cup Shelved)
        BY <3>2 DEF MayShow
    <3> QED BY <2>2, <3>3, Shown
  <2> QED BY <1>35, <2>1, <2>2 DEF kb_find, build_directory_tree
<1>36. ASSUME kb_tree PROVE ToolFits
  <2>1. CASE Call("kb_tree", "called") /\ Look("bases", get_accessible_kb_ids)
    <3>1. get_accessible_kb_ids \subseteq there \cup held \cup attached /\ HeldFits("bases", get_accessible_kb_ids)
        BY <2>1, Accessible DEF HeldFits, RowSort, OpensFile, Owned, Call, Asked, Of
    <3> QED BY <2>1, <3>1, Looks
  <2>2. CASE Call("kb_tree", "bases") /\ Show(held \cup Shelved)
    <3>1. \A x \in held : x \in since["read"] \/ (Sort[x] = "file" /\ x \in attached)
        BY <1>0, <2>2 DEF HeldFits, Call, OpensFile
    <3>2. MayShow(held) /\ MayShow(Shelved)
        BY <3>1, InsideShown DEF Shelved
    <3>3. MayShow(held \cup Shelved)
        BY <3>2 DEF MayShow
    <3> QED BY <2>2, <3>3, Shown
  <2> QED BY <1>36, <2>1, <2>2 DEF kb_tree, build_directory_tree
<1>37. ASSUME view_skill PROVE ToolFits
  <2>1. CASE Call("view_skill", "called") /\ Look("row", Asked("skill"))
    <3>1. Asked("skill") \subseteq there \cup held \cup attached /\ HeldFits("row", Asked("skill"))
        BY <2>1, RowFacts DEF HeldFits, RowSort, OpensFile, Owned, Call, Asked, Of
    <3> QED BY <2>1, <3>1, Looks
  <2>2. CASE Call("view_skill", "row") /\ Show({x \in held : CanRead(x)})
    <3>1. MayShow({x \in held : CanRead(x)})
        BY <1>0, <2>2, RowFacts DEF MayShow, Within, HeldFits, RowSort, OpensFile, Owned, Call, Asked, Of
    <3> QED BY <2>2, <3>1, Shown
  <2> QED BY <1>37, <2>1, <2>2 DEF view_skill
<1>38. ASSUME create_automation PROVE ToolFits
  <2>0. Call("create_automation", "called") /\ Change(validate_owned_automation_folder)
      BY <1>38 DEF create_automation
  <2>1. MayChange(validate_owned_automation_folder)
      BY <1>0, <2>0, RowFacts DEF MayChange, Within, HeldFits, RowSort, OpensFile, Owned, Call, Asked, Of, validate_owned_automation_folder
  <2> QED BY <2>0, <2>1, Changed
<1>39. ASSUME update_automation PROVE ToolFits
  <2>1. CASE Call("update_automation", "called") /\ Look("row", {x \in Asked("automation") : Owns(x)})
    <3>1. {x \in Asked("automation") : Owns(x)} \subseteq there \cup held \cup attached /\ HeldFits("row", {x \in Asked("automation") : Owns(x)})
        BY <2>1, RowFacts DEF HeldFits, RowSort, OpensFile, Owned, Call, Asked, Of
    <3> QED BY <2>1, <3>1, Looks
  <2>2. CASE Call("update_automation", "row") /\ Change((held \cap there) \cup validate_owned_automation_folder)
    <3>1. MayChange((held \cap there) \cup validate_owned_automation_folder)
        BY <1>0, <2>2, RowFacts DEF MayChange, Within, HeldFits, RowSort, OpensFile, Owned, Call, Asked, Of, validate_owned_automation_folder
    <3> QED BY <2>2, <3>1, Changed
  <2> QED BY <1>39, <2>1, <2>2 DEF update_automation
<1>40. ASSUME toggle_automation PROVE ToolFits
  <2>1. CASE Call("toggle_automation", "called") /\ Look("row", {x \in Asked("automation") : Owns(x)})
    <3>1. {x \in Asked("automation") : Owns(x)} \subseteq there \cup held \cup attached /\ HeldFits("row", {x \in Asked("automation") : Owns(x)})
        BY <2>1, RowFacts DEF HeldFits, RowSort, OpensFile, Owned, Call, Asked, Of
    <3> QED BY <2>1, <3>1, Looks
  <2>2. CASE Call("toggle_automation", "row") /\ Change(held \cap there)
    <3>1. MayChange(held \cap there)
        BY <1>0, <2>2, RowFacts DEF MayChange, Within, HeldFits, RowSort, OpensFile, Owned, Call, Asked, Of
    <3> QED BY <2>2, <3>1, Changed
  <2>3. CASE Call("toggle_automation", "row") /\ there' = there \ held /\ done' = held /\ stage' = "over" /\ UNCHANGED <<held, shown>> /\ within' \subseteq within
    <3>1. MayChange(held)
        BY <1>0, <2>3 DEF HeldFits, Call, MayChange, Within, RowSort, OpensFile
    <3>2. HeldFits(stage', held') /\ MayShow(shown') /\ MayChange(done')
        BY <3>1, <2>3 DEF HeldFits, BtIInv, ToolsWithinRights, MayShow
    <3> QED BY <3>2, <2>3 DEF ToolFits, Call
  <2> QED BY <1>40, <2>1, <2>2, <2>3 DEF toggle_automation
<1>41. ASSUME list_automations PROVE ToolFits
  <2>0. Call("list_automations", "called") /\ Show({x \in Of("automation") : Owns(x)})
      BY <1>41 DEF list_automations
  <2>1. MayShow({x \in Of("automation") : Owns(x)})
      BY <1>0, <2>0, RowFacts DEF MayShow, Within, HeldFits, RowSort, OpensFile, Owned, Call, Asked, Of
  <2> QED BY <2>0, <2>1, Shown
<1>42. ASSUME search_calendar_events PROVE ToolFits
  <2>1. CASE Call("search_calendar_events", "called") /\ Look("calendars", {x \in Of("calendar") : Listed(x)})
    <3>1. {x \in Of("calendar") : Listed(x)} \subseteq there \cup held \cup attached /\ HeldFits("calendars", {x \in Of("calendar") : Listed(x)})
        BY <2>1, RowFacts DEF HeldFits, RowSort, OpensFile, Owned, Call, Asked, Of
    <3> QED BY <2>1, <3>1, Looks
  <2>2. CASE Call("search_calendar_events", "calendars") /\ Show({x \in Of("event") : Owns(x)} \cup Shelved)
    <3>1. \A x \in held : x \in since["read"] \/ (Sort[x] = "file" /\ x \in attached)
        BY <1>0, <2>2 DEF HeldFits, Call, OpensFile
    <3>2. MayShow(held) /\ MayShow(Shelved)
        BY <3>1, InsideShown DEF Shelved
    <3>3. MayShow({x \in Of("event") : Owns(x)} \cup Shelved)
        BY <3>2, RowFacts DEF MayShow, Within, Of
    <3> QED BY <2>2, <3>3, Shown
  <2> QED BY <1>42, <2>1, <2>2 DEF search_calendar_events
<1>43. ASSUME create_calendar_event PROVE ToolFits
  <2>1. CASE Call("create_calendar_event", "called") /\ Look("row", Asked("calendar"))
    <3>1. Asked("calendar") \subseteq there \cup held \cup attached /\ HeldFits("row", Asked("calendar"))
        BY <2>1, RowFacts DEF HeldFits, RowSort, OpensFile, Owned, Call, Asked, Of
    <3> QED BY <2>1, <3>1, Looks
  <2>2. CASE Call("create_calendar_event", "row") /\ Change({x \in held : CanWrite(x)} \cap there)
    <3>1. MayChange({x \in held : CanWrite(x)} \cap there)
        BY <1>0, <2>2, RowFacts DEF MayChange, Within, HeldFits, RowSort, OpensFile, Owned, Call, Asked, Of
    <3> QED BY <2>2, <3>1, Changed
  <2> QED BY <1>43, <2>1, <2>2 DEF create_calendar_event
<1>44. ASSUME update_calendar_event PROVE ToolFits
  <2>1. CASE Call("update_calendar_event", "called") /\ Look("row", Asked("event"))
    <3>1. Asked("event") \subseteq there \cup held \cup attached /\ HeldFits("row", Asked("event"))
        BY <2>1, RowFacts DEF HeldFits, RowSort, OpensFile, Owned, Call, Asked, Of
    <3> QED BY <2>1, <3>1, Looks
  <2>2. CASE Call("update_calendar_event", "row") /\ Look("checked", {x \in held : Owns(x) \/ IsAdmin \/ \E c \in Around(x) : me \in mayWrite[c]})
    <3>1. {x \in held : Owns(x) \/ IsAdmin \/ \E c \in Around(x) : me \in mayWrite[c]} \subseteq there \cup held \cup attached /\ HeldFits("checked", {x \in held : Owns(x) \/ IsAdmin \/ \E c \in Around(x) : me \in mayWrite[c]})
        BY <1>0, <2>2, RowFacts DEF HeldFits, RowSort, OpensFile, Owned, Call, Asked, Of, MayChange, Within, CanWrite, Holds
    <3> QED BY <2>2, <3>1, Looks
  <2>3. CASE Call("update_calendar_event", "checked") /\ Change(held \cap there)
    <3>1. MayChange(held \cap there)
        BY <1>0, <2>3, RowFacts DEF MayChange, Within, HeldFits, RowSort, OpensFile, Owned, Call, Asked, Of
    <3> QED BY <2>3, <3>1, Changed
  <2>4. CASE Call("update_calendar_event", "checked") /\ there' = there \ held /\ done' = held /\ stage' = "over" /\ UNCHANGED <<held, shown>> /\ within' \subseteq within
    <3>1. MayChange(held)
        BY <1>0, <2>4 DEF HeldFits, Call, MayChange, Within, RowSort, OpensFile
    <3>2. HeldFits(stage', held') /\ MayShow(shown') /\ MayChange(done')
        BY <3>1, <2>4 DEF HeldFits, BtIInv, ToolsWithinRights, MayShow
    <3> QED BY <3>2, <2>4 DEF ToolFits, Call
  <2> QED BY <1>44, <2>1, <2>2, <2>3, <2>4 DEF update_calendar_event
<1>45. ASSUME delete_memory PROVE ToolFits
  <2>1. MayChange(done') /\ MayShow(shown')
      BY <1>45, RowFacts DEF delete_memory, MayChange, MayShow, Within, Asked, Of, BtIInv, ToolsWithinRights
  <2>2. HeldFits(stage', held')
      BY <1>45 DEF delete_memory, HeldFits
  <2> QED BY <1>45, <2>1, <2>2 DEF delete_memory, ToolFits, Call
<1> QED BY <1>1, <1>2, <1>3, <1>4, <1>5, <1>6, <1>7, <1>8, <1>9, <1>10, <1>11, <1>12, <1>13, <1>14, <1>15, <1>16, <1>17, <1>18, <1>19, <1>20, <1>21, <1>22, <1>23, <1>24, <1>25, <1>26, <1>27, <1>28, <1>29, <1>30, <1>31, <1>32, <1>33, <1>34, <1>35, <1>36, <1>37, <1>38, <1>39, <1>40, <1>41, <1>42, <1>43, <1>44, <1>45 DEF BtTools

LEMMA BtNextIInv == BtIInv /\ [BtNext]_btVars => BtIInv'
<1> SUFFICES ASSUME BtIInv, [BtNext]_btVars PROVE BtIInv'
    OBVIOUS
<1>1. ASSUME BtTools, Noted PROVE BtIInv'
    BY <1>1, ToolStepFits, ToolKeeps
<1>2. ASSUME Owners, Noted, there' \subseteq there, within' \subseteq there \X there \cup within,
             \A p \in within' : p \in within \/ Holds(p[1], p[2]),
             mayRead' \in [Thing -> SUBSET Reader], mayWrite' \in [Thing -> SUBSET Reader],
             \A x \in there \cup held \cup attached :
                x \in there' \/ (mayRead'[x] = mayRead[x] /\ mayWrite'[x] = mayWrite[x])
      PROVE  BtIInv'
  <2>1. /\ since' \in [{"read", "write"} -> SUBSET Thing] /\ lay' \subseteq Thing \X Thing
        /\ lay \subseteq lay' /\ since["read"] \subseteq since'["read"] /\ since["write"] \subseteq since'["write"]
        /\ \A x \in there' : ReadByRoute(x)' => x \in since'["read"]
        /\ \A x \in there' : WrittenByRoute(x)' => x \in since'["write"]
    <3>1. BtTypeOK /\ there' \subseteq Thing /\ within' \subseteq Thing \X Thing
        BY <1>2 DEF BtIInv, BtTypeOK
    <3> QED BY <1>2, <3>1, NotedGrows
  <2>2. BtTypeOK'
      BY <1>2, <2>1, BuiltinAssumption DEF BtIInv, BtTypeOK, Owners
  <2>3. BtRightsInv'
    <3>1. \A x \in there \cup held \cup attached : x \notin there' =>
             (ReadByRoute(x)' <=> ReadByRoute(x)) /\ (WrittenByRoute(x)' <=> WrittenByRoute(x))
        BY <1>2 DEF Owners, ReadByRoute, WrittenByRoute, Owns, CanRead, CanWrite, IsAdmin
    <3>2. there' \cup held' \cup attached' \subseteq there \cup held \cup attached
        BY <1>2 DEF Owners
    <3> QED BY <2>1, <3>1, <3>2 DEF BtIInv, BtRightsInv
  <2>4. BtWithinInv'
      BY <1>2 DEF BtIInv, BtWithinInv, Noted, Holds
  <2>5. HeldFits(stage, held)'
    <3>1. MayShow(held) => MayShow(held)'
        BY <1>2, <2>1 DEF MayShow, Within, Owners
    <3>2. MayChange(held) => MayChange(held)'
        BY <1>2, <2>1 DEF MayChange, Within, Owners
    <3> QED BY <1>2, <2>1, <3>1, <3>2 DEF BtIInv, HeldFits, Owners
  <2>6. ToolsWithinRights'
      BY <1>2, <2>1 DEF BtIInv, ToolsWithinRights, Within, Owners
  <2> QED BY <2>2, <2>3, <2>4, <2>5, <2>6 DEF BtIInv
<1>3. ASSUME NEW x \in Thing, share_row(x), Noted PROVE BtIInv'
  <2>1. /\ mayRead' \in [Thing -> SUBSET Reader] /\ mayWrite' \in [Thing -> SUBSET Reader]
        /\ \A y \in Thing \ {x} : mayRead'[y] = mayRead[y] /\ mayWrite'[y] = mayWrite[y]
      BY <1>3 DEF share_row, BtIInv, BtTypeOK
  <2>2. Owners /\ x \in there /\ UNCHANGED <<there, within>>
      BY <1>3 DEF share_row
  <2> QED BY <1>2, <1>3, <2>1, <2>2 DEF BtIInv, BtTypeOK
<1>4. ASSUME NEW x \in Thing, delete_row(x), Noted PROVE BtIInv'
    BY <1>2, <1>4 DEF delete_row, BtIInv, BtTypeOK
<1>5. ASSUME NEW x \in Thing, NEW y \in Thing, add_file_to_knowledge(x, y), Noted PROVE BtIInv'
    BY <1>2, <1>5 DEF add_file_to_knowledge, BtIInv, BtTypeOK
<1>6. ASSUME NEW x \in Thing, NEW y \in Thing, remove_file_from_knowledge(x, y), Noted PROVE BtIInv'
    BY <1>2, <1>6 DEF remove_file_from_knowledge, BtIInv, BtTypeOK
<1>7. ASSUME UNCHANGED btVars PROVE BtIInv'
  <2>1. UNCHANGED <<tool, there, keeper, mayRead, mayWrite, within, attached, me, wanted, stage, held, shown, done, since, lay, btChanges>>
      BY <1>7 DEF btVars, rows
  <2> QED BY <2>1 DEF BtIInv, BtTypeOK, BtRightsInv, ReadByRoute, WrittenByRoute, Owns, CanRead, CanWrite, IsAdmin,
          BtWithinInv, Holds, HeldFits, MayShow, MayChange, ToolsWithinRights, Within
<1> QED BY <1>1, <1>3, <1>4, <1>5, <1>6, <1>7 DEF BtNext, Noted

LEMMA BtEnd == BtIInv => BtTypeOK /\ ToolsWithinRights
BY DEF BtIInv

-----------------------------------------------------------------------------
(* Retrieval                                                                *)

(* Merging                                                                 *)

LEMMA LeastNumber == ASSUME NEW S \in SUBSET Nat, S # {} PROVE \E m \in S : \A n \in S : m <= n
<1>1. IsWellFoundedOn({p \in Nat \X Nat : p[1] < p[2]}, Nat)
    BY NatLessThanWellFounded DEF OpToRel
<1>2. \E x \in S : \A y \in S : <<y, x>> \notin {p \in Nat \X Nat : p[1] < p[2]}
    BY <1>1, WFMin, Zenon
<1>3. PICK m \in S : \A n \in S : ~(n < m)
    BY <1>2
<1> QED BY <1>3

\* The nearer ones.
Nearer(S, x) == {y \in S : ScoreOf[y] > ScoreOf[x]}

LEMMA ChunkSets ==
    ASSUME NEW T \in SUBSET Chunk, NEW S \in SUBSET T
    PROVE  /\ IsFiniteSet(T) /\ Cardinality(S) \in Nat /\ Cardinality(T) \in Nat
           /\ Cardinality(S) <= Cardinality(T) /\ (S # T => Cardinality(S) < Cardinality(T))
<1>1. IsFiniteSet(T)
    BY RetrievalAssumption, FS_Subset
<1>2. IsFiniteSet(S) /\ Cardinality(S) <= Cardinality(T) /\ (Cardinality(T) = Cardinality(S) => T = S)
    BY <1>1, FS_Subset
<1>3. Cardinality(S) \in Nat /\ Cardinality(T) \in Nat
    BY <1>1, <1>2, FS_CardinalityType
<1> QED BY <1>1, <1>2, <1>3

(* Of the chunks with k or more above them the nearest has just the k best   *)
(* above it.                                                                 *)
LEMMA FirstNotTaken ==
    ASSUME NEW S \in SUBSET Chunk, NEW k \in Nat, NEW y \in S, Cardinality(Nearer(S, y)) >= k
    PROVE  \E v \in S : /\ ScoreOf[v] >= ScoreOf[y] /\ Nearer(S, v) \subseteq BestOf(S, k)
                        /\ Cardinality(Nearer(S, v)) >= k
<1> DEFINE Out == {w \in S : Cardinality(Nearer(S, w)) >= k}
           ranks == {Cardinality(Nearer(S, w)) : w \in Out}
<1>1. \A w \in S : ScoreOf[w] \in Nat /\ Nearer(S, w) \in SUBSET S /\ Cardinality(Nearer(S, w)) \in Nat
    BY RetrievalAssumption, ChunkSets DEF Nearer
<1>2. \A v, w \in S : ScoreOf[w] > ScoreOf[v] => Cardinality(Nearer(S, w)) < Cardinality(Nearer(S, v))
  <2> SUFFICES ASSUME NEW v \in S, NEW w \in S, ScoreOf[w] > ScoreOf[v]
               PROVE  Cardinality(Nearer(S, w)) < Cardinality(Nearer(S, v))
      OBVIOUS
  <2>1. Nearer(S, w) \subseteq Nearer(S, v) /\ w \in Nearer(S, v) /\ w \notin Nearer(S, w)
    <3>1. \A x \in S : ScoreOf[x] \in Nat
        BY <1>1
    <3> QED BY <3>1 DEF Nearer
  <2>2. Nearer(S, v) \in SUBSET Chunk
      BY <1>1
  <2> QED BY <2>1, <2>2, ChunkSets
<1>3. ranks \in SUBSET Nat /\ ranks # {}
    BY <1>1
<1>4. PICK m \in ranks : \A n \in ranks : m <= n
    BY <1>3, LeastNumber
<1>5. PICK v \in Out : Cardinality(Nearer(S, v)) = m
    BY <1>4
<1>6. \A w \in S : ScoreOf[w] > ScoreOf[v] => w \notin Out
    BY <1>1, <1>2, <1>4, <1>5
<1>7. ScoreOf[v] >= ScoreOf[y]
    BY <1>1, <1>6
<1>8. Nearer(S, v) \subseteq BestOf(S, k)
    BY <1>1, <1>6 DEF Nearer, BestOf
<1> QED BY <1>5, <1>7, <1>8

(* Every text has a chunk that is the nearest to say it.                     *)
LEMMA NearestThere ==
    ASSUME NEW S \in SUBSET Chunk, NEW x \in S
    PROVE  \E y \in Nearest(S) : TextOf[y] = TextOf[x] /\ ScoreOf[y] >= ScoreOf[x]
<1> DEFINE Same == {w \in S : TextOf[w] = TextOf[x]}
<1>1. Same \in SUBSET Chunk /\ x \in Same /\ Cardinality(Nearer(Same, x)) >= 0
  <2>1. Same \in SUBSET Chunk /\ x \in Same /\ Nearer(Same, x) \in SUBSET Same
      BY DEF Nearer
  <2> QED BY <2>1, ChunkSets
<1>2. PICK v \in Same : ScoreOf[v] >= ScoreOf[x] /\ Nearer(Same, v) \subseteq BestOf(Same, 0)
    BY <1>1, FirstNotTaken
<1>3. BestOf(Same, 0) = {}
  <2>1. \A w \in Same : Nearer(Same, w) \in SUBSET Same
      BY DEF Nearer
  <2>2. \A w \in Same : Cardinality(Nearer(Same, w)) \in Nat
      BY <1>1, <2>1, ChunkSets
  <2> QED BY <2>2 DEF BestOf, Nearer
<1>4. \A w \in Same : ScoreOf[w] <= ScoreOf[v]
  <2>1. \A w \in Same : w \notin Nearer(Same, v)
      BY <1>2, <1>3
  <2>2. \A w \in Same : ScoreOf[w] \in Nat
      BY <1>1, RetrievalAssumption
  <2> QED BY <2>1, <2>2 DEF Nearer
<1>5. v \in Nearest(S)
    BY <1>4 DEF Nearest
<1> QED BY <1>2, <1>5

(* Chunks that all say something else have no more above them than there are *)
(* in what is left of a larger set when each text is kept once.              *)
LEMMA FewerAbove ==
    ASSUME NEW T \in SUBSET Chunk, NEW S \in SUBSET T, NEW x \in Chunk,
           \A a, b \in S : TextOf[a] = TextOf[b] => a = b
    PROVE  Cardinality(Nearer(S, x)) <= Cardinality(Nearer(Nearest(T), x))
<1> DEFINE A == Nearer(S, x)
           B == Nearer(Nearest(T), x)
           f == [a \in A |-> CHOOSE y \in Nearest(T) : TextOf[y] = TextOf[a] /\ ScoreOf[y] >= ScoreOf[a]]
<1>1. \A a \in A : f[a] \in Nearest(T) /\ TextOf[f[a]] = TextOf[a] /\ ScoreOf[f[a]] >= ScoreOf[a]
    BY NearestThere DEF Nearer
<1>2. A \in SUBSET Chunk /\ B \in SUBSET Chunk /\ Nearest(T) \in SUBSET Chunk
    BY DEF Nearer, Nearest
<1>3. \A a \in A : f[a] \in B
    BY <1>1, <1>2, RetrievalAssumption DEF Nearer
<1>4. \A a, b \in A : f[a] = f[b] => a = b
    BY <1>1 DEF Nearer
<1>5. f \in Injection(A, B)
  <2>1. f \in [A -> B] /\ DOMAIN f = A
      BY <1>3
  <2> HIDE DEF f
  <2> QED BY <1>4, <2>1 DEF Injection, IsInjective
<1>6. IsFiniteSet(B)
    BY <1>2, ChunkSets
<1> HIDE DEF A, B, f
<1>7. Cardinality(A) <= Cardinality(B)
    BY <1>5, <1>6, FS_Injection
<1> QED BY <1>7 DEF A, B

(* The best of the best of each are the best of them all.                    *)
LEMMA MergeKeepsBest ==
    ASSUME NEW I, NEW F \in [I -> SUBSET Chunk], NEW k \in Nat,
           \A n \in I : \A x, y \in F[n] : TextOf[x] = TextOf[y] => x = y
    PROVE  BestOf(Nearest(UNION {BestOf(F[n], k) : n \in I}), k) = BestOf(Nearest(UNION {F[n] : n \in I}), k)
<1> DEFINE T == UNION {F[n] : n \in I}
           U == UNION {BestOf(F[n], k) : n \in I}
           N == Nearest(T)
           M == Nearest(U)
<1>1. T \in SUBSET Chunk /\ U \in SUBSET T
  <2>1. \A n \in I : F[n] \in SUBSET Chunk /\ BestOf(F[n], k) \in SUBSET F[n]
      BY DEF BestOf
  <2> QED BY <2>1
<1>2. N \in SUBSET T /\ M \in SUBSET U
    BY DEF Nearest
<1>3. \A S : \A x : x \in BestOf(S, k) <=> x \in S /\ Cardinality(Nearer(S, x)) < k
    BY DEF BestOf, Nearer
<1>4. \A n \in I : F[n] \in SUBSET T
    OBVIOUS
<1>5. \A x \in T : Cardinality(Nearer(N, x)) \in Nat /\ Cardinality(Nearer(M, x)) \in Nat
  <2>1. \A x : Nearer(N, x) \in SUBSET N /\ Nearer(M, x) \in SUBSET M
      BY DEF Nearer
  <2>2. N \in SUBSET Chunk /\ M \in SUBSET Chunk
      BY <1>1, <1>2
  <2> QED BY <2>1, <2>2, ChunkSets
<1>6. \A n \in I : \A x : x \in F[n] /\ Cardinality(Nearer(F[n], x)) < k => x \in U
    BY <1>3
<1>7. \A n \in I, x \in T : Cardinality(Nearer(F[n], x)) <= Cardinality(Nearer(N, x)) /\ Cardinality(Nearer(F[n], x)) \in Nat
  <2> SUFFICES ASSUME NEW n \in I, NEW x \in T
               PROVE  Cardinality(Nearer(F[n], x)) <= Cardinality(Nearer(N, x)) /\ Cardinality(Nearer(F[n], x)) \in Nat
      OBVIOUS
  <2>1. F[n] \in SUBSET T /\ x \in Chunk /\ \A a, b \in F[n] : TextOf[a] = TextOf[b] => a = b
      BY <1>1, <1>4
  <2>2. F[n] \in SUBSET Chunk /\ Nearer(F[n], x) \in SUBSET F[n]
      BY <1>1, <2>1 DEF Nearer
  <2>3. Cardinality(Nearer(F[n], x)) \in Nat
      BY <2>2, ChunkSets
  <2> HIDE DEF T
  <2>4. Cardinality(Nearer(F[n], x)) <= Cardinality(Nearer(Nearest(T), x))
      BY <1>1, <2>1, FewerAbove
  <2> QED BY <2>3, <2>4
<1>8. BestOf(N, k) \subseteq M
  <2> SUFFICES ASSUME NEW x \in BestOf(N, k) PROVE x \in M
      OBVIOUS
  <2>1. x \in N /\ Cardinality(Nearer(N, x)) < k
      BY <1>3
  <2>2. PICK n \in I : x \in F[n]
      BY <1>2, <2>1
  <2>3. Cardinality(Nearer(F[n], x)) < k
    <3>1. x \in T
        BY <1>2, <2>1
    <3>2. /\ Cardinality(Nearer(N, x)) \in Nat /\ Cardinality(Nearer(F[n], x)) \in Nat
          /\ Cardinality(Nearer(F[n], x)) <= Cardinality(Nearer(N, x))
        BY <1>5, <1>7, <3>1
    <3> QED BY <2>1, <3>2
  <2>4. x \in U
      BY <1>6, <2>2, <2>3
  <2> HIDE DEF T, U
  <2> QED BY <1>1, <2>1, <2>4 DEF Nearest
<1> HIDE DEF T, U
<1>9. \A x \in T : Cardinality(Nearer(M, x)) <= Cardinality(Nearer(N, x))
  <2>1. M \in SUBSET T
      BY <1>1, <1>2
  <2>2. \A a, b \in M : TextOf[a] = TextOf[b] => a = b
      BY <1>1, RetrievalAssumption DEF Nearest
  <2> QED BY <1>1, <2>1, <2>2, FewerAbove
(* What has k or more of N above it, or the same text farther away, has k of  *)
(* the best above it, and they are in M.                                      *)
<1>10. ASSUME NEW y \in N, NEW z \in T, ScoreOf[y] >= ScoreOf[z], Cardinality(Nearer(N, y)) >= k
       PROVE  Cardinality(Nearer(M, z)) >= k
  <2>1. N \in SUBSET Chunk /\ M \in SUBSET Chunk /\ y \in Chunk /\ z \in Chunk
      BY <1>1, <1>2
  <2>2. PICK v \in N : /\ ScoreOf[v] >= ScoreOf[y] /\ Nearer(N, v) \subseteq BestOf(N, k)
                       /\ Cardinality(Nearer(N, v)) >= k
      BY <1>10, <2>1, FirstNotTaken
  <2>3. Nearer(N, v) \subseteq Nearer(M, z)
    <3>1. v \in Chunk /\ \A w \in Nearer(N, v) : w \in M /\ w \in Chunk /\ ScoreOf[w] > ScoreOf[v]
        BY <1>8, <2>1, <2>2 DEF Nearer
    <3> QED BY <1>10, <2>1, <2>2, <3>1, RetrievalAssumption DEF Nearer
  <2>4. Nearer(M, z) \in SUBSET Chunk
      BY <2>1 DEF Nearer
  <2>5. Cardinality(Nearer(N, v)) <= Cardinality(Nearer(M, z)) /\ Cardinality(Nearer(M, z)) \in Nat /\ Cardinality(Nearer(N, v)) \in Nat
      BY <2>3, <2>4, ChunkSets
  <2> QED BY <2>2, <2>5
<1>11. ASSUME NEW z \in BestOf(M, k) PROVE z \in BestOf(N, k)
  <2>1. z \in M /\ z \in T /\ Cardinality(Nearer(M, z)) < k /\ Cardinality(Nearer(M, z)) \in Nat
      BY <1>1, <1>2, <1>3, <1>5, <1>11
  <2>2. PICK y \in N : TextOf[y] = TextOf[z] /\ ScoreOf[y] >= ScoreOf[z]
      BY <1>1, <2>1, NearestThere
  <2>3. y \in T /\ Cardinality(Nearer(N, y)) \in Nat
      BY <1>2, <1>5
  <2>4. Cardinality(Nearer(N, y)) < k
      BY <1>10, <2>1, <2>2, <2>3
  <2>5. y \in M
      BY <1>3, <1>8, <2>4
  <2>6. y = z
    <3>1. y \in Chunk /\ z \in Chunk /\ y \in U /\ z \in U
        BY <1>1, <1>2, <2>1, <2>5
    <3>2. ScoreOf[y] <= ScoreOf[z]
        BY <2>1, <2>2, <3>1 DEF Nearest
    <3> QED BY <2>2, <3>1, <3>2, RetrievalAssumption
  <2> QED BY <1>3, <2>4, <2>6
<1>12. ASSUME NEW x \in BestOf(N, k) PROVE x \in BestOf(M, k)
  <2>1. x \in M /\ x \in N /\ x \in T /\ Cardinality(Nearer(N, x)) < k
      BY <1>2, <1>3, <1>8, <1>12
  <2>2. Cardinality(Nearer(M, x)) < k
      BY <1>5, <1>9, <2>1
  <2> QED BY <1>3, <2>1, <2>2
<1> QED BY <1>11, <1>12 DEF T, U

-----------------------------------------------------------------------------
(* Look-ups                                                                *)

SubjectTypes == {"note", "chat", "file", "base"}
Settled == {"checked", "fetched", "plain"}
ItemRow == [type : SubjectTypes \cup Settled \cup {"folder", "name"}, of : Subjects \cup Collections \cup {Named("folder", None)}, full : BOOLEAN]
ItemFits(i) ==
    /\ i.type \in SubjectTypes => i.of \in Subjects /\ i.of.kind = i.type
    /\ i.type = "name" => i.of \in Collections
Fit == {i \in ItemRow : ItemFits(i)}
LookupRow ==
    [user : Seeker \cup {None}, access : {"read", "write"}, items : Seq(Fit), filed : SUBSET Subjects, names : SUBSET Collections,
     extracted : SUBSET Collections, got : SUBSET (Subjects \cup Collections), fetched : SUBSET Collections,
     licence : SUBSET (Subjects \cup Collections)]

\* What a look-up has found and what it has cleared was allowed; what is allowed now counts.
LookupFits(r, rights, filed) ==
    /\ r.got \subseteq r.licence /\ r.filed \subseteq r.licence /\ r.fetched \subseteq r.licence
    /\ r.names # {} => r.items # <<>>
    /\ r.items # <<>> => r.user \in Seeker /\ Licence(rights, filed, r.user, r.access) \subseteq r.licence
    \* The names are those of the item at hand, before their check; after it they are allowed.
    /\ r.names # {} => IF Head(r.items).type \in Settled THEN r.names \subseteq r.licence
                       ELSE Head(r.items).type \in {"file", "base", "name"} /\ r.names \subseteq {Head(r.items).of}
    \* Whoever writes has nothing else to do.
    /\ r.access = "write" /\ r.items # <<>> => Len(r.items) = 1 /\ r.names # {} /\ Head(r.items).type \in Settled

RetTypes ==
    /\ may \subseteq Seeker \X Subjects \X {"read", "write"}
    /\ shelf \in [open : SUBSET Seeker, files : SUBSET Subjects]
    /\ texts \in [Collections -> SUBSET Chunk]
    /\ lookup \in [RetrievalClient -> LookupRow]
RetIInv == RetTypes /\ \A c \in RetrievalClient : LookupFits(lookup[c], may, shelf)

LEMMA SubjectsFinite == IsFiniteSet(Subjects)
<1> DEFINE f == [s \in Subject |-> Named(KindOfSubject[s], s)]
<1>1. f \in Surjection(Subject, Subjects)
    BY DEF Surjection, Subjects
<1> QED BY <1>1, RetrievalAssumption, FS_Surjection, Zenon

LEMMA SequenceOfSet == ASSUME NEW S, IsFiniteSet(S) PROVE SetToSeq(S) \in Seq(S)
<1>1. Cardinality(S) \in Nat /\ ExistsBijection(1..Cardinality(S), S)
    BY FS_CardinalityType, Zenon
<1>2. PICK f : f \in Bijection(1..Cardinality(S), S)
    BY <1>1 DEF ExistsBijection
<1>3. f \in [1..Cardinality(S) -> S] /\ IsInjective(f)
    BY <1>2 DEF Bijection, Injection
<1>4. SetToSeq(S) \in [1..Cardinality(S) -> S]
    BY <1>3 DEF SetToSeq
<1> QED BY <1>1, <1>4

(* A subject is named after its own kind; files and bases have collections.  *)
LEMMA SubjectNames == \A n \in Subjects : n.kind \in SubjectTypes /\ (n.kind \in {"file", "base"} => n \in Collections)
<1>1. \A n \in Subjects : n.kind \in SubjectTypes
    BY RetrievalAssumption DEF Subjects, Named, SubjectTypes
<1> QED BY <1>1 DEF Collections

(* What passes a filter is allowed; fewer rights allow no more.              *)
LEMMA FilterAllows ==
    ASSUME NEW u, NEW S \in SUBSET Collections, NEW a
    PROVE  filter_accessible_collections(u, S, a) \subseteq Licence(may, shelf, u, a) \cap S
BY DEF filter_accessible_collections, Licence

LEMMA LicenceTyped ==
    ASSUME NEW rights, NEW filed, NEW u, NEW a PROVE Licence(rights, filed, u, a) \in SUBSET (Subjects \cup Collections)
BY DEF Licence

LEMMA FewerRights ==
    ASSUME NEW more, NEW less \in SUBSET more, NEW filed, NEW kept, kept.open = filed.open, kept.files \subseteq filed.files, NEW u, NEW a
    PROVE  Licence(less, kept, u, a) \subseteq Licence(more, filed, u, a)
BY DEF Licence

(* One look-up changes, and fits.                                            *)
LEMMA OneLookup ==
    ASSUME RetIInv, NEW c \in RetrievalClient, NEW r \in LookupRow, LookupFits(r, may, shelf),
           lookup' = [lookup EXCEPT ![c] = r], UNCHANGED <<may, shelf>>, texts' \in [Collections -> SUBSET Chunk]
    PROVE  RetIInv'
<1>1. \A d \in RetrievalClient : lookup'[d] = IF d = c THEN r ELSE lookup[d]
    BY DEF RetIInv, RetTypes
<1>2. RetTypes'
    BY DEF RetIInv, RetTypes
<1>3. \A d \in RetrievalClient : LookupFits(lookup'[d], may, shelf)
    BY <1>1 DEF RetIInv
<1> QED BY <1>2, <1>3 DEF RetIInv

(* It goes on to its next item.                                              *)
LEMMA NextItem ==
    ASSUME NEW r \in LookupRow, LookupFits(r, may, shelf), r.items # <<>>,
           NEW n \in LookupRow, n.items = Tail(r.items), n.names = {},
           n.user = r.user, n.access = r.access, n.filed = r.filed, n.licence = r.licence,
           n.got \subseteq r.licence, n.fetched \subseteq r.licence
    PROVE  LookupFits(n, may, shelf)
<1>1. r.items \in Seq(Fit) /\ (Len(r.items) = 1 => Tail(r.items) = <<>>)
    BY DEF LookupRow
<1> QED BY <1>1 DEF LookupFits

LEMMA ItemFacts ==
    ASSUME NEW r \in LookupRow, r.items # <<>>
    PROVE  Head(r.items) \in ItemRow /\ ItemFits(Head(r.items)) /\ Tail(r.items) \in Seq(Fit)
<1>1. Head(r.items) \in Fit /\ Tail(r.items) \in Seq(Fit)
    BY DEF LookupRow
<1> QED BY <1>1 DEF Fit

(* A new look-up.                                                            *)
LEMMA LookupStarts ==
    ASSUME RetIInv, NEW c \in RetrievalClient, NEW u \in Seeker, NEW a \in {"read", "write"}, NEW s \in Seq(Fit), NEW S \in SUBSET Collections,
           Lookup(c, u, a, s, S), s # <<>>,
           S = {} \/ (S \subseteq Licence(may, shelf, u, a) /\ Head(s).type \in Settled),
           a = "write" => Len(s) = 1 /\ S # {}
    PROVE  RetIInv'
<1> DEFINE r == [NoLookup EXCEPT !.user = u, !.access = a, !.items = s, !.names = S, !.licence = Licence(may, shelf, u, a)]
<1>1. /\ r.user = u /\ r.access = a /\ r.items = s /\ r.names = S /\ r.licence = Licence(may, shelf, u, a)
      /\ r.got = {} /\ r.filed = {} /\ r.fetched = {}
    BY DEF NoLookup
<1>2. r \in LookupRow
    BY LicenceTyped DEF NoLookup, LookupRow
<1>3. lookup' = [lookup EXCEPT ![c] = r] /\ UNCHANGED <<may, shelf, texts>>
    BY DEF Lookup
<1> HIDE DEF r
<1>4. LookupFits(r, may, shelf)
    BY <1>1, RetrievalAssumption DEF LookupFits
<1>5. texts' \in [Collections -> SUBSET Chunk]
    BY <1>3 DEF RetIInv, RetTypes
<1> QED BY <1>2, <1>3, <1>4, <1>5, OneLookup

LEMMA RetInitIInv == RetrievalInit => RetIInv
<1> SUFFICES ASSUME RetrievalInit PROVE RetIInv
    OBVIOUS
<1>1. NoLookup \in LookupRow /\ LookupFits(NoLookup, may, shelf)
    BY DEF NoLookup, LookupRow, LookupFits
<1>2. RetTypes
  <2>1. texts \in [Collections -> SUBSET Chunk]
      BY RetrievalAssumption DEF RetrievalInit
  <2>2. may \subseteq Seeker \X Subjects \X {"read", "write"}
      BY DEF RetrievalInit
  <2>3. shelf \in [open : SUBSET Seeker, files : SUBSET Subjects]
      BY DEF RetrievalInit
  <2>4. lookup \in [RetrievalClient -> LookupRow]
      BY <1>1 DEF RetrievalInit
  <2> QED BY <2>1, <2>2, <2>3, <2>4 DEF RetTypes
<1>3. \A c \in RetrievalClient : lookup[c] = NoLookup
    BY DEF RetrievalInit
<1> QED BY <1>1, <1>2, <1>3 DEF RetIInv

Asks(c) ==
    \/ get_sources_from_items(c) \/ query_doc_handler(c) \/ query_collection_handler(c)
    \/ process_text(c) \/ process_web(c) \/ process_web_search(c)
LEMMA AsksKeep == ASSUME RetIInv, NEW c \in RetrievalClient, Asks(c) PROVE RetIInv'
<1> DEFINE one == <<[Folder EXCEPT !.type = "checked"]>>
<1>a. \A i \in Items : i \in Fit
  <2>1. Folder \in Fit
      BY DEF Fit, ItemRow, ItemFits, Folder, SubjectTypes, Settled
  <2>2. ASSUME NEW n \in Subjects, NEW f \in BOOLEAN PROVE Item(n, f) \in Fit
      BY SubjectNames DEF Fit, ItemRow, ItemFits, Item, SubjectTypes, Settled
  <2>3. ASSUME NEW n \in Collections PROVE ByName(n) \in Fit
      BY DEF Fit, ItemRow, ItemFits, ByName, SubjectTypes, Settled
  <2> QED BY <2>1, <2>2, <2>3 DEF Items
<1>b. one \in Seq(Fit) /\ Len(one) = 1 /\ one # <<>> /\ Head(one).type \in Settled
  <2> DEFINE i == [Folder EXCEPT !.type = "checked"]
  <2>1. i \in Fit /\ i.type \in Settled
      BY DEF Fit, ItemRow, ItemFits, Folder, SubjectTypes, Settled
  <2>2. one = <<i>>
      OBVIOUS
  <2> HIDE DEF i, one
  <2> QED BY <2>1, <2>2
<1> HIDE DEF one
<1>c. Querist \subseteq Seeker
    BY RetrievalAssumption
<1>1. CASE get_sources_from_items(c)
  <2>1. PICK u \in Querist, x \in Items, y \in Items : Lookup(c, u, "read", IF x = y THEN <<x>> ELSE <<x, y>>, {})
      BY <1>1 DEF get_sources_from_items
  <2> DEFINE s == IF x = y THEN <<x>> ELSE <<x, y>>
  <2>2. s \in Seq(Fit) /\ s # <<>>
      BY <1>a
  <2> HIDE DEF s
  <2>3. Lookup(c, u, "read", s, {})
      BY <2>1 DEF s
  <2> QED BY <1>c, <2>2, <2>3, LookupStarts
<1>2. ASSUME NEW a \in {"read", "write"}, NEW S \in SUBSET Collections, S # {}, Validated(c, a, S) PROVE RetIInv'
  <2>1. PICK u \in Querist : S = filter_accessible_collections(u, S, a) /\ Lookup(c, u, a, one, S)
      BY <1>2 DEF Validated, one
  <2>2. S \subseteq Licence(may, shelf, u, a)
      BY <2>1, FilterAllows
  <2> QED BY <1>b, <1>c, <1>2, <2>1, <2>2, LookupStarts
<1>3. CASE query_doc_handler(c)
    BY <1>2, <1>3 DEF query_doc_handler
<1>4. CASE query_collection_handler(c)
  <2>1. PICK n \in Collections, o \in Collections : Validated(c, "read", {n, o})
      BY <1>4 DEF query_collection_handler
  <2> QED BY <1>2, <2>1
<1>5. CASE process_text(c)
    BY <1>2, <1>5 DEF process_text
<1>6. ASSUME NEW u \in Querist, NEW n \in Collections, n.kind = "other" \/ (n.kind = "web" /\ n.x = u),
             Lookup(c, u, "write", one, {n})
      PROVE  RetIInv'
  <2>1. {n} \subseteq Licence(may, shelf, u, "write")
      BY <1>6 DEF Licence
  <2> QED BY <1>b, <1>c, <1>6, <2>1, LookupStarts
<1>7. CASE process_web(c)
  <2>1. PICK u \in Querist, x \in Unscoped : Lookup(c, u, "write", one, {Named("other", x)})
      BY <1>7 DEF process_web, one
  <2>2. Named("other", x) \in Collections /\ Named("other", x).kind = "other"
      BY DEF Collections, Named
  <2> QED BY <1>6, <2>1, <2>2
<1>8. CASE process_web_search(c)
  <2>1. PICK u \in Querist : Lookup(c, u, "write", one, {Named("web", u)})
      BY <1>8 DEF process_web_search, one
  <2>2. Named("web", u) \in Collections /\ Named("web", u).kind = "web" /\ Named("web", u).x = u
      BY <1>c DEF Collections, Named
  <2> QED BY <1>6, <2>1, <2>2
<1> QED BY <1>1, <1>3, <1>4, <1>5, <1>7, <1>8 DEF Asks

(* What one step of a look-up gives it, by the item it is at.                *)
ItemStep(c) == expand_folder(c) \/ from_note_or_chat(c) \/ from_file_or_base(c) \/ from_collection(c) \/ check_names(c)

LEMMA MovesKeep ==
    ASSUME RetIInv, NEW c \in RetrievalClient, NEW r \in LookupRow, LookupFits(r, may, shelf), Moves(c, r)
    PROVE  RetIInv'
BY OneLookup DEF Moves, RetIInv, RetTypes

(* Who takes an item reads: whoever writes has names.                        *)
LEMMA ItemStepKeeps == ASSUME RetIInv, NEW c \in RetrievalClient, ItemStep(c) PROVE RetIInv'
<1> DEFINE r == lookup[c]
<1>1. /\ r \in LookupRow /\ LookupFits(r, may, shelf) /\ shelf \in [open : SUBSET Seeker, files : SUBSET Subjects]
      /\ r.items \in Seq(Fit)
    BY DEF RetIInv, RetTypes, LookupRow
<1>2. \A type : Takes(c, type) => r.items # <<>> /\ r.names = {} /\ Current(c) = Head(r.items) /\ Current(c).type = type /\ r.access = "read"
    BY <1>1 DEF Takes, Current, LookupFits, LookupRow
<1>3. r.items # <<>> => /\ Current(c) \in ItemRow /\ ItemFits(Current(c)) /\ Tail(r.items) \in Seq(Fit) /\ Current(c) = Head(r.items)
                        /\ r.user \in Seeker /\ Licence(may, shelf, r.user, r.access) \subseteq r.licence
    BY <1>1, ItemFacts DEF Current, LookupFits
<1>4. /\ r.got \subseteq r.licence /\ r.filed \subseteq r.licence /\ r.fetched \subseteq r.licence
      /\ r.licence \in SUBSET (Subjects \cup Collections) /\ r.filed \in SUBSET Subjects /\ r.names \in SUBSET Collections
      /\ r.got \in SUBSET (Subjects \cup Collections) /\ r.extracted \in SUBSET Collections
    BY <1>1 DEF LookupFits, LookupRow
(* An item that gives nothing, or something that is allowed.                 *)
<1>5. ASSUME r.items # <<>>, NEW g \in SUBSET r.licence, r.names = {},
             NEW n, n = [Passed(r) EXCEPT !.got = @ \cup g]
      PROVE  n \in LookupRow /\ LookupFits(n, may, shelf)
  <2>1. n \in LookupRow
      BY <1>1, <1>3, <1>4, <1>5 DEF Passed, LookupRow
  <2>2. /\ n.items = Tail(r.items) /\ n.names = {} /\ n.user = r.user /\ n.access = r.access /\ n.filed = r.filed
        /\ n.licence = r.licence /\ n.got = r.got \cup g /\ n.fetched = r.fetched
      BY <1>1, <1>5 DEF Passed, LookupRow
  <2> HIDE DEF r
  <2> QED BY <1>1, <1>4, <1>5, <2>1, <2>2, NextItem
<1>6. ASSUME r.items # <<>>, r.names = {} PROVE Passed(r) \in LookupRow /\ LookupFits(Passed(r), may, shelf)
  <2> DEFINE n == [Passed(r) EXCEPT !.got = @ \cup {}]
  <2>1. n \in LookupRow /\ LookupFits(n, may, shelf)
      BY <1>5, <1>6
  <2>2. n = Passed(r)
      BY <1>1 DEF Passed, LookupRow
  <2> QED BY <2>1, <2>2
<1>7. ASSUME NEW n \in Subjects, r.items # <<>>, r.names = {}, n \in r.licence PROVE Gives(c, n) \in LookupRow /\ LookupFits(Gives(c, n), may, shelf)
    BY <1>5, <1>7 DEF Gives
<1>8. \A n \in Subjects : r.items # <<>> /\ r.access = "read" /\ Readable(r.user, n) => n \in r.licence
    BY <1>3 DEF Readable, Licence
<1> HIDE DEF r
<1>9. CASE expand_folder(c)
  <2> DEFINE more == IF r.user \in Chiefs \/ r.user \in shelf.open THEN shelf.files ELSE {}
             s == {Item(n, FALSE) : n \in more} \ Range(Tail(r.items))
             items == Tail(r.items) \o SetToSeq(s)
             n == [Passed(r) EXCEPT !.filed = more, !.licence = @ \cup more, !.items = items]
  <2>1. r.items # <<>> /\ r.names = {} /\ r.access = "read"
      BY <1>2, <1>9 DEF expand_folder
  <2>2. more \in SUBSET Subjects
      BY <1>1
  <2>3. s \in SUBSET Fit /\ IsFiniteSet(s)
    <3>1. \A x \in more : Item(x, FALSE) \in Fit
        BY <2>2, SubjectNames DEF Fit, ItemRow, ItemFits, Item, SubjectTypes, Settled
    <3>2. IsFiniteSet(more)
        BY <2>2, SubjectsFinite, FS_Subset
    <3> DEFINE A == {Item(x, FALSE) : x \in more}
               f == [x \in more |-> Item(x, FALSE)]
    <3>3. f \in Surjection(more, A)
        BY DEF Surjection
    <3> HIDE DEF more, f
    <3>4. IsFiniteSet(A)
        BY <3>2, <3>3, FS_Surjection
    <3>5. A \in SUBSET Fit
        BY <3>1
    <3> HIDE DEF A
    <3>6. (A \ Range(Tail(r.items))) \in SUBSET A
        OBVIOUS
    <3>7. IsFiniteSet(A \ Range(Tail(r.items)))
        BY <3>4, <3>6, FS_Subset
    <3> QED BY <3>5, <3>7 DEF A
  <2> HIDE DEF s
  <2>4. items \in Seq(Fit)
    <3>1. SetToSeq(s) \in Seq(s)
        BY <2>3, SequenceOfSet
    <3>2. SetToSeq(s) \in Seq(Fit)
        BY <2>3, <3>1
    <3> HIDE DEF Fit
    <3> QED BY <1>3, <2>1, <3>2
  <2> HIDE DEF items
  <2>5. lookup' = [lookup EXCEPT ![c] = n] /\ Moves(c, n)
      BY <1>9 DEF expand_folder, Moves, r, items, s, Passed
  <2> HIDE DEF more
  <2>6. n \in LookupRow
      BY <1>1, <1>3, <1>4, <2>1, <2>2, <2>4 DEF Passed, LookupRow
  <2>7. /\ n.items = items /\ n.names = {} /\ n.user = r.user /\ n.access = "read" /\ n.filed = more
        /\ n.licence = r.licence \cup more /\ n.got = r.got /\ n.fetched = r.fetched
      BY <1>1, <2>1 DEF Passed, LookupRow
  <2> HIDE DEF n
  <2>8. LookupFits(n, may, shelf)
      BY <1>3, <1>4, <2>1, <2>7 DEF LookupFits
  <2> QED BY <2>5, <2>6, <2>8, MovesKeep
<1>10. CASE from_note_or_chat(c)
  <2>1. PICK t \in {"note", "chat"} :
            /\ Takes(c, t)
            /\ Moves(c, IF Readable(r.user, Current(c).of) THEN Gives(c, Current(c).of) ELSE Passed(r))
      BY <1>10 DEF from_note_or_chat, r
  <2>2. r.items # <<>> /\ r.names = {} /\ r.access = "read" /\ Current(c).of \in Subjects
      BY <1>2, <1>3, <2>1 DEF ItemFits, SubjectTypes
  <2>3. CASE Readable(r.user, Current(c).of)
      BY <1>7, <1>8, <2>1, <2>2, <2>3, MovesKeep
  <2>4. CASE ~Readable(r.user, Current(c).of)
      BY <1>6, <2>1, <2>2, <2>4, MovesKeep
  <2> QED BY <2>3, <2>4
(* The names of the item at hand are looked up, after a check.               *)
<1>11. ASSUME r.items # <<>>, r.access = "read", r.names = {}, Current(c).type \in {"file", "base", "name"}, NEW S \in SUBSET Collections, S \subseteq {Current(c).of},
              NEW n, n = [r EXCEPT !.names = S]
       PROVE  n \in LookupRow /\ LookupFits(n, may, shelf)
  <2>1. n \in LookupRow
      BY <1>1, <1>11 DEF LookupRow
  <2>2. /\ n.items = r.items /\ n.names = S /\ n.user = r.user /\ n.access = r.access /\ n.filed = r.filed
        /\ n.licence = r.licence /\ n.got = r.got /\ n.fetched = r.fetched
      BY <1>1, <1>11 DEF LookupRow
  <2> QED BY <1>1, <1>3, <1>11, <2>1, <2>2 DEF LookupFits, Settled
<1>12. CASE from_file_or_base(c)
  <2> DEFINE m == Current(c).of
  <2>1. PICK t \in {"file", "base"} :
            /\ Takes(c, t)
            /\ Moves(c, IF ~(Readable(r.user, m) \/ InFolder(c, m)) THEN Passed(r)
                        ELSE IF Current(c).full THEN Gives(c, m)
                        ELSE [r EXCEPT !.names = {m} \ r.extracted, !.items = IF m \in r.extracted THEN Tail(@) ELSE @])
      BY <1>12 DEF from_file_or_base, r
  <2>2. r.items # <<>> /\ r.names = {} /\ r.access = "read" /\ m \in Subjects /\ m.kind = t /\ m \in Collections /\ Current(c).type = t
      BY <1>2, <1>3, <2>1, SubjectNames DEF ItemFits, SubjectTypes
  <2>3. CASE ~(Readable(r.user, m) \/ InFolder(c, m))
      BY <1>6, <2>1, <2>2, <2>3, MovesKeep
  <2>4. CASE (Readable(r.user, m) \/ InFolder(c, m)) /\ Current(c).full
    <3>1. m \in r.licence
        BY <1>4, <1>8, <2>2, <2>4 DEF InFolder, r
    <3> QED BY <1>7, <2>1, <2>2, <2>4, <3>1, MovesKeep
  <2>5. CASE (Readable(r.user, m) \/ InFolder(c, m)) /\ ~Current(c).full /\ m \in r.extracted
    <3>1. Moves(c, [r EXCEPT !.names = {m} \ r.extracted, !.items = IF m \in r.extracted THEN Tail(@) ELSE @])
        BY <2>1, <2>5
    <3> DEFINE n == [r EXCEPT !.names = {m} \ r.extracted, !.items = IF m \in r.extracted THEN Tail(@) ELSE @]
    <3>2. n \in LookupRow
        BY <1>1, <1>3, <2>2, <2>5 DEF LookupRow
    <3>3. /\ n.items = Tail(r.items) /\ n.names = {} /\ n.user = r.user /\ n.access = r.access /\ n.filed = r.filed
          /\ n.licence = r.licence /\ n.got = r.got /\ n.fetched = r.fetched
        BY <1>1, <2>5 DEF LookupRow
    <3> HIDE DEF n
    <3>4. LookupFits(n, may, shelf)
        BY <1>1, <1>4, <2>2, <3>2, <3>3, NextItem
    <3> QED BY <3>1, <3>2, <3>4, MovesKeep DEF n
  <2>6. CASE (Readable(r.user, m) \/ InFolder(c, m)) /\ ~Current(c).full /\ m \notin r.extracted
    <3> DEFINE n == [r EXCEPT !.names = {m}]
    <3>1. Moves(c, [r EXCEPT !.names = {m} \ r.extracted, !.items = IF m \in r.extracted THEN Tail(@) ELSE @])
        BY <2>1, <2>6
    <3>2. [r EXCEPT !.names = {m} \ r.extracted, !.items = IF m \in r.extracted THEN Tail(@) ELSE @] = n
        BY <1>1, <2>6 DEF LookupRow
    <3>3. n \in LookupRow /\ LookupFits(n, may, shelf)
        BY <1>11, <2>1, <2>2
    <3> QED BY <3>1, <3>2, <3>3, MovesKeep
  <2> QED BY <2>3, <2>4, <2>5, <2>6
<1>13. CASE from_collection(c)
  <2> DEFINE m == Current(c).of
             n == [r EXCEPT !.names = {m}]
  <2>1. Takes(c, "name") /\ Moves(c, IF m \in r.extracted THEN Passed(r) ELSE n)
      BY <1>13 DEF from_collection, r
  <2>2. r.items # <<>> /\ r.names = {} /\ r.access = "read" /\ m \in Collections /\ Current(c).type = "name"
      BY <1>2, <1>3, <2>1 DEF ItemFits
  <2>3. n \in LookupRow /\ LookupFits(n, may, shelf)
      BY <1>11, <2>2
  <2> HIDE DEF n
  <2> QED BY <1>6, <2>1, <2>2, <2>3, MovesKeep
<1>14. CASE check_names(c)
  <2> DEFINE S == IF InFolder(c, Current(c).of) THEN r.names ELSE filter_accessible_collections(r.user, r.names, "read")
             none == [Passed(r) EXCEPT !.names = {}]
             items == <<[Current(c) EXCEPT !.type = "checked"]>> \o Tail(r.items)
             n == [r EXCEPT !.names = S, !.items = items]
  <2>1. r.names # {} /\ Current(c).type \notin Settled /\ Moves(c, IF S = {} THEN none ELSE [r EXCEPT !.names = S, !.items = <<[Current(c) EXCEPT !.type = "checked"]>> \o Tail(@)])
      BY <1>14 DEF check_names, r, Settled
  <2>2. /\ r.items # <<>> /\ r.access = "read" /\ r.names \subseteq {Current(c).of}
      BY <1>1, <1>3, <2>1 DEF LookupFits, LookupRow
  <2>3. S \in SUBSET r.names /\ S \subseteq r.licence
    <3>1. InFolder(c, Current(c).of) => r.names \subseteq r.licence
        BY <1>4, <2>2 DEF InFolder, r
    <3>2. filter_accessible_collections(r.user, r.names, "read") \subseteq r.licence \cap r.names
        BY <1>3, <1>4, <2>2, FilterAllows
    <3> QED BY <3>1, <3>2
  <2> HIDE DEF S
  <2>4. CASE S = {}
    <3>1. none \in LookupRow
        BY <1>1, <1>3, <2>2 DEF Passed, LookupRow
    <3>2. /\ none.items = Tail(r.items) /\ none.names = {} /\ none.user = r.user /\ none.access = r.access /\ none.filed = r.filed
          /\ none.licence = r.licence /\ none.got = r.got /\ none.fetched = r.fetched
        BY <1>1 DEF Passed, LookupRow
    <3>3. Moves(c, none)
        BY <2>1, <2>4
    <3> HIDE DEF none
    <3>4. LookupFits(none, may, shelf)
        BY <1>1, <1>4, <2>2, <3>1, <3>2, NextItem
    <3> QED BY <3>1, <3>3, <3>4, MovesKeep
  <2>5. CASE S # {}
    <3> DEFINE i == [Current(c) EXCEPT !.type = "checked"]
    <3>1. i \in Fit /\ i.type \in Settled
        BY <1>3, <2>2 DEF Fit, ItemRow, ItemFits, SubjectTypes, Settled
    <3>2. items \in Seq(Fit) /\ items # <<>> /\ Head(items) = i
      <4> HIDE DEF i, Fit
      <4>1. items = <<i>> \o Tail(r.items)
          BY DEF i
      <4> HIDE DEF items
      <4> QED BY <1>3, <2>2, <3>1, <4>1
    <3>3. Moves(c, n)
        BY <1>1, <2>1, <2>5 DEF LookupRow
    <3> HIDE DEF items, i
    <3>4. n \in LookupRow
        BY <1>1, <1>4, <2>3, <3>2 DEF LookupRow
    <3>5. /\ n.items = items /\ n.names = S /\ n.user = r.user /\ n.access = r.access /\ n.filed = r.filed
          /\ n.licence = r.licence /\ n.got = r.got /\ n.fetched = r.fetched
        BY <1>1 DEF LookupRow
    <3> HIDE DEF n
    <3>6. LookupFits(n, may, shelf)
        BY <1>3, <1>4, <2>2, <2>3, <3>1, <3>2, <3>5 DEF LookupFits
    <3> QED BY <3>3, <3>4, <3>6, MovesKeep
  <2> QED BY <2>4, <2>5
<1> QED BY <1>9, <1>10, <1>12, <1>13, <1>14 DEF ItemStep

(* The stores answer: what was asked for is allowed by now.                  *)
StoreStep(c) == query(c) \/ query_collection_with_hybrid_search(c) \/ query_doc_with_hybrid_search(c) \/ save_docs_to_vector_db(c)

LEMMA FoundKeeps ==
    ASSUME RetIInv, NEW c \in RetrievalClient, lookup[c].names # {}, NEW S \in SUBSET Collections, S \subseteq lookup[c].licence, Found(c, S)
    PROVE  RetIInv'
<1> DEFINE r == lookup[c]
           n == [Passed(r) EXCEPT !.names = {}, !.fetched = {}, !.extracted = @ \cup r.names, !.got = @ \cup S]
<1>1. /\ r \in LookupRow /\ LookupFits(r, may, shelf) /\ r.items \in Seq(Fit) /\ r.items # <<>> /\ texts \in [Collections -> SUBSET Chunk]
    BY DEF RetIInv, RetTypes, LookupRow, LookupFits
<1>2. Tail(r.items) \in Seq(Fit)
    BY <1>1, ItemFacts
<1>3. lookup' = [lookup EXCEPT ![c] = n] /\ UNCHANGED <<may, shelf, texts>>
    BY DEF Found
<1> HIDE DEF r
<1>4. n \in LookupRow
    BY <1>1, <1>2 DEF Passed, LookupRow
<1>5. /\ n.items = Tail(r.items) /\ n.names = {} /\ n.user = r.user /\ n.access = r.access /\ n.filed = r.filed
      /\ n.licence = r.licence /\ n.got = r.got \cup S /\ n.fetched = {}
    BY <1>1 DEF Passed, LookupRow
<1>6. r.got \cup S \subseteq r.licence
    BY <1>1 DEF LookupFits, r
<1> HIDE DEF n
<1>7. LookupFits(n, may, shelf)
    BY <1>1, <1>4, <1>5, <1>6, NextItem
<1> QED BY <1>1, <1>3, <1>4, <1>7, OneLookup

Retyped(s, type) == [s EXCEPT ![1] = [s[1] EXCEPT !.type = type]]

LEMMA StoreStepKeeps == ASSUME RetIInv, NEW c \in RetrievalClient, StoreStep(c) PROVE RetIInv'
<1> DEFINE r == lookup[c]
<1>1. /\ r \in LookupRow /\ LookupFits(r, may, shelf) /\ r.items \in Seq(Fit) /\ texts \in [Collections -> SUBSET Chunk]
    BY DEF RetIInv, RetTypes, LookupRow
<1>2. \A type \in Settled : Awaits(c, type) => r.names # {} /\ r.names \subseteq r.licence /\ r.items # <<>> /\ r.access = "read"
    BY <1>1 DEF Awaits, Current, LookupFits, r
<1>3. r.names \in SUBSET Collections /\ r.fetched \in SUBSET Collections /\ r.fetched \subseteq r.licence
    BY <1>1 DEF LookupRow, LookupFits
(* The item at hand goes from one settled state to another.                  *)
<1>4. ASSUME NEW type \in Settled, r.items # <<>>, r.names # {}, r.access = "read", r.names \subseteq r.licence, NEW F \in SUBSET Collections, F \subseteq r.licence,
             NEW n, n = [r EXCEPT !.items = Retyped(r.items, type), !.fetched = F]
      PROVE  n \in LookupRow /\ LookupFits(n, may, shelf)
  <2> DEFINE i == [r.items[1] EXCEPT !.type = type]
             items == Retyped(r.items, type)
  <2>1. r.items[1] \in ItemRow /\ Len(r.items) \in Nat /\ 1 <= Len(r.items)
      BY <1>1, <1>4, ItemFacts
  <2>2. i \in Fit /\ i.type \in Settled
      BY <2>1 DEF Fit, ItemRow, ItemFits, SubjectTypes, Settled
  <2>3. items \in Seq(Fit) /\ Head(items) = i /\ items # <<>>
    <3>1. items = [r.items EXCEPT ![1] = i]
        BY DEF Retyped
    <3> HIDE DEF i, items, Fit
    <3> QED BY <1>1, <2>1, <2>2, <3>1
  <2>4. n = [r EXCEPT !.items = items, !.fetched = F]
      BY <1>4
  <2> HIDE DEF items, i
  <2>5. n \in LookupRow
      BY <1>1, <2>3, <2>4 DEF LookupRow
  <2>6. /\ n.items = items /\ n.names = r.names /\ n.user = r.user /\ n.access = r.access /\ n.filed = r.filed
        /\ n.licence = r.licence /\ n.got = r.got /\ n.fetched = F
      BY <1>1, <2>4 DEF LookupRow
  <2> QED BY <1>1, <1>4, <2>2, <2>3, <2>5, <2>6 DEF LookupFits
<1>5. CASE query(c)
  <2>1. PICK type \in {"checked", "plain"}, up \in SUBSET lookup[c].names : Awaits(c, type) /\ Found(c, {n \in up : texts[n] # {}})
      BY <1>5 DEF query
  <2>2. r.names # {} /\ r.names \subseteq r.licence
      BY <1>2, <2>1 DEF Settled
  <2> DEFINE S == {n \in up : texts[n] # {}}
  <2>3. S \in SUBSET Collections /\ S \subseteq lookup[c].licence /\ lookup[c].names # {}
      BY <1>3, <2>2
  <2> HIDE DEF S
  <2> QED BY <2>1, <2>3, FoundKeeps DEF S
<1>6. CASE query_collection_with_hybrid_search(c)
  <2>1. PICK up \in SUBSET r.names : 
            lookup' = [lookup EXCEPT ![c].fetched = {n \in up : texts[n] # {}}, ![c].items[1].type = "fetched"]
      BY <1>6 DEF query_collection_with_hybrid_search
  <2>2. UNCHANGED <<may, shelf, texts>> /\ Awaits(c, "checked")
      BY <1>6 DEF query_collection_with_hybrid_search
  <2> DEFINE F == {n \in up : texts[n] # {}}
             n == [r EXCEPT !.items = Retyped(r.items, "fetched"), !.fetched = F]
  <2>3. lookup' = [lookup EXCEPT ![c] = n]
    <3>1. lookup \in [RetrievalClient -> LookupRow]
        BY DEF RetIInv, RetTypes
    <3>2. lookup' = [lookup EXCEPT ![c] = [[r EXCEPT !.fetched = F] EXCEPT !.items = Retyped(r.items, "fetched")]]
        BY <1>1, <2>1, <3>1 DEF LookupRow, Retyped
    <3>3. [[r EXCEPT !.fetched = F] EXCEPT !.items = Retyped(r.items, "fetched")] = n
        BY <1>1 DEF LookupRow
    <3> QED BY <3>2, <3>3
  <2>4. F \in SUBSET Collections /\ F \subseteq r.licence /\ r.names # {} /\ r.names \subseteq r.licence /\ r.items # <<>> /\ r.access = "read"
      BY <1>2, <1>3, <2>2 DEF Settled
  <2> HIDE DEF F, r
  <2>5. n \in LookupRow /\ LookupFits(n, may, shelf)
      BY <1>4, <2>4 DEF Settled
  <2> HIDE DEF n
  <2> QED BY <1>1, <2>2, <2>3, <2>5, OneLookup
<1>7. CASE query_doc_with_hybrid_search(c)
  <2>1. PICK up \in SUBSET r.fetched :
            IF up = {} /\ r.fetched # {}
            THEN lookup' = [lookup EXCEPT ![c].items[1].type = "plain"] /\ UNCHANGED <<may, shelf, texts>>
            ELSE Found(c, up)
      BY <1>7 DEF query_doc_with_hybrid_search
  <2>2. r.names # {} /\ r.names \subseteq r.licence /\ r.items # <<>> /\ r.access = "read"
      BY <1>2, <1>7 DEF query_doc_with_hybrid_search, Settled
  <2>3. CASE Found(c, up)
    <3>1. up \in SUBSET Collections /\ up \subseteq lookup[c].licence /\ lookup[c].names # {}
        BY <1>3, <2>2
    <3> QED BY <2>3, <3>1, FoundKeeps
  <2>4. CASE lookup' = [lookup EXCEPT ![c].items[1].type = "plain"] /\ UNCHANGED <<may, shelf, texts>>
    <3> DEFINE n == [r EXCEPT !.items = Retyped(r.items, "plain"), !.fetched = r.fetched]
    <3>1. lookup' = [lookup EXCEPT ![c] = n]
      <4>1. lookup \in [RetrievalClient -> LookupRow]
          BY DEF RetIInv, RetTypes
      <4>2. n = [r EXCEPT !.items = Retyped(r.items, "plain")]
          BY <1>1 DEF LookupRow
      <4>3. lookup' = [lookup EXCEPT ![c] = [r EXCEPT !.items = Retyped(r.items, "plain")]]
          BY <1>1, <2>4, <4>1 DEF LookupRow, Retyped
      <4> QED BY <4>2, <4>3
    <3> HIDE DEF r
    <3>2. n \in LookupRow /\ LookupFits(n, may, shelf)
        BY <1>3, <1>4, <2>2 DEF Settled
    <3> HIDE DEF n
    <3> QED BY <1>1, <2>4, <3>1, <3>2, OneLookup
  <2> QED BY <2>1, <2>3, <2>4
<1>8. CASE save_docs_to_vector_db(c)
  <2> DEFINE n == [Passed(r) EXCEPT !.names = {}, !.got = r.names]
  <2>1. /\ r.names # {} /\ r.access = "write" /\ UNCHANGED <<may, shelf>> /\ lookup' = [lookup EXCEPT ![c] = n]
      BY <1>8 DEF save_docs_to_vector_db
  <2>2. PICK S \in {FileText, OtherText} : texts' = [m \in Collections |-> IF m \in r.names THEN S ELSE texts[m]]
      BY <1>8 DEF save_docs_to_vector_db
  <2>3. texts' \in [Collections -> SUBSET Chunk]
      BY <1>1, <2>2, RetrievalAssumption
  <2>4. r.items # <<>> /\ r.names \subseteq r.licence
      BY <1>1, <2>1 DEF LookupFits
  <2>5. Tail(r.items) \in Seq(Fit)
      BY <1>1, <2>4, ItemFacts
  <2> HIDE DEF r
  <2>6. n \in LookupRow
      BY <1>1, <1>3, <2>5 DEF Passed, LookupRow
  <2>7. /\ n.items = Tail(r.items) /\ n.names = {} /\ n.user = r.user /\ n.access = r.access /\ n.filed = r.filed
        /\ n.licence = r.licence /\ n.got = r.names /\ n.fetched = r.fetched
      BY <1>1 DEF Passed, LookupRow
  <2> HIDE DEF n
  <2>8. LookupFits(n, may, shelf)
      BY <1>1, <1>3, <2>4, <2>6, <2>7, NextItem
  <2> QED BY <2>1, <2>3, <2>6, <2>8, OneLookup
<1> QED BY <1>5, <1>6, <1>7, <1>8 DEF StoreStep

(* Rights that are taken away leave what was allowed; those that are given   *)
(* count for every look-up under way.                                        *)
LEMMA ResetKeeps == ASSUME RetIInv, reset_vector_db PROVE RetIInv'
<1>1. /\ may' \in SUBSET may /\ lookup' = lookup /\ texts' = [n \in Collections |-> {}]
      /\ shelf' \in [open : SUBSET Seeker, files : SUBSET Subjects] /\ shelf'.open = shelf.open /\ shelf'.files \subseteq shelf.files
    BY DEF reset_vector_db, RetIInv, RetTypes
<1>2. RetTypes'
    BY <1>1 DEF RetIInv, RetTypes
<1>3. \A u, a : Licence(may', shelf', u, a) \subseteq Licence(may, shelf, u, a)
    BY <1>1, FewerRights
<1>4. \A c \in RetrievalClient : LookupFits(lookup[c], may, shelf)
    BY DEF RetIInv
<1>5. \A c \in RetrievalClient : LookupFits(lookup[c], may', shelf')
    BY <1>3, <1>4 DEF LookupFits
<1> QED BY <1>1, <1>2, <1>5 DEF RetIInv

LEMMA ChangeKeeps == ASSUME RetIInv, change_rights PROVE RetIInv'
<1>1. /\ may' \subseteq Seeker \X Subjects \X {"read", "write"} /\ shelf' \in [open : SUBSET Seeker, files : SUBSET Subjects]
  <2>1. CASE \E u \in Seeker, n \in Subjects, a \in {"read", "write"} :
                may' = (IF <<u, n, a>> \in may THEN may \ {<<u, n, a>>} ELSE may \cup {<<u, n, a>>}) /\ UNCHANGED shelf
    <3>1. PICK u \in Seeker, n \in Subjects, a \in {"read", "write"} :
                may' = (IF <<u, n, a>> \in may THEN may \ {<<u, n, a>>} ELSE may \cup {<<u, n, a>>}) /\ UNCHANGED shelf
        BY <2>1
    <3>2. <<u, n, a>> \in Seeker \X Subjects \X {"read", "write"}
        OBVIOUS
    <3> QED BY <3>1, <3>2 DEF RetIInv, RetTypes
  <2>2. CASE \E o \in {{}, Seeker}, F \in SUBSET {n \in Subjects : n.kind = "file"} : shelf' = [open |-> o, files |-> F] /\ UNCHANGED may
      BY <2>2 DEF RetIInv, RetTypes
  <2> QED BY <2>1, <2>2 DEF change_rights
<1>2. /\ texts' = texts
      /\ lookup' = [c \in RetrievalClient |->
                       IF Looking(c) THEN [lookup[c] EXCEPT !.licence = @ \cup Licence(may', shelf', lookup[c].user, lookup[c].access)] ELSE lookup[c]]
    BY DEF change_rights
<1>3. ASSUME NEW c \in RetrievalClient PROVE lookup'[c] \in LookupRow /\ LookupFits(lookup'[c], may', shelf')
  <2> DEFINE r == lookup[c]
  <2>1. r \in LookupRow /\ LookupFits(r, may, shelf)
      BY DEF RetIInv, RetTypes
  <2>2. CASE ~Looking(c)
    <3>1. r.items = <<>> /\ r.names = {} /\ lookup'[c] = r
        BY <1>2, <2>2 DEF Looking
    <3> QED BY <2>1, <3>1 DEF LookupFits
  <2>3. CASE Looking(c)
    <3> DEFINE L == Licence(may', shelf', r.user, r.access)
               n == [r EXCEPT !.licence = @ \cup L]
    <3>1. lookup'[c] = n
        BY <1>2, <2>3
    <3>2. L \in SUBSET (Subjects \cup Collections)
        BY LicenceTyped
    <3> HIDE DEF r
    <3>3. r.licence \cup L \in SUBSET (Subjects \cup Collections)
        BY <2>1, <3>2 DEF LookupRow
    <3>4. n \in LookupRow
        BY <2>1, <3>3 DEF LookupRow
    <3>5. /\ n.items = r.items /\ n.names = r.names /\ n.user = r.user /\ n.access = r.access /\ n.filed = r.filed
          /\ n.licence = r.licence \cup L /\ n.got = r.got /\ n.fetched = r.fetched
        BY <2>1 DEF LookupRow
    <3> HIDE DEF n
    <3>6. LookupFits(n, may', shelf')
        BY <2>1, <3>5 DEF LookupFits
    <3> QED BY <3>1, <3>4, <3>6
  <2> QED BY <2>2, <2>3
<1>4. RetTypes'
    BY <1>1, <1>2, <1>3 DEF RetIInv, RetTypes
<1> QED BY <1>3, <1>4 DEF RetIInv

LEMMA RetNextIInv == RetIInv /\ [RetrievalNext]_retrievalVars => RetIInv'
<1> SUFFICES ASSUME RetIInv, [RetrievalNext]_retrievalVars PROVE RetIInv'
    OBVIOUS
<1>1. ASSUME NEW c \in RetrievalClient, Asks(c) \/ ItemStep(c) \/ StoreStep(c) PROVE RetIInv'
    BY <1>1, AsksKeep, ItemStepKeeps, StoreStepKeeps
<1>2. CASE delete_entries_from_collection
  <2>1. UNCHANGED <<may, shelf, lookup>> /\ texts' \in [Collections -> SUBSET Chunk]
      BY <1>2 DEF delete_entries_from_collection, RetIInv, RetTypes
  <2> QED BY <2>1 DEF RetIInv, RetTypes
<1>3. CASE UNCHANGED retrievalVars
    BY <1>3 DEF RetIInv, RetTypes, retrievalVars
<1> QED BY <1>1, <1>2, <1>3, ResetKeeps, ChangeKeeps DEF RetrievalNext, Asks, ItemStep, StoreStep

LEMMA RetEnd == RetIInv => RetrievalTypeOK /\ RetrievalSound
<1> SUFFICES ASSUME RetIInv PROVE RetrievalTypeOK /\ RetrievalSound
    OBVIOUS
<1>1. RetrievalTypeOK
    BY DEF RetIInv, RetTypes, RetrievalTypeOK, LookupRow
<1>2. WithinLicence
    BY DEF RetIInv, LookupFits, WithinLicence
<1>3. ASSUME NEW c \in RetrievalClient, \A n \in lookup[c].names : \A x, y \in texts[n] : TextOf[x] = TextOf[y] => x = y
      PROVE  query_collection(lookup[c].names) = BestOf(Nearest(UNION {texts[n] : n \in lookup[c].names}), TopK)
  <2> DEFINE I == lookup[c].names
             F == [n \in I |-> texts[n]]
  <2>1. F \in [I -> SUBSET Chunk]
      BY DEF RetIInv, RetTypes, LookupRow
  <2>2. {F[n] : n \in I} = {texts[n] : n \in I} /\ {BestOf(F[n], TopK) : n \in I} = {query_doc(n) : n \in I}
      BY DEF query_doc
  <2>3. \A n \in I : \A x, y \in F[n] : TextOf[x] = TextOf[y] => x = y
      BY <1>3
  <2> HIDE DEF F
  <2>4. BestOf(Nearest(UNION {BestOf(F[n], TopK) : n \in I}), TopK) = BestOf(Nearest(UNION {F[n] : n \in I}), TopK)
      BY <2>1, <2>3, MergeKeepsBest, RetrievalAssumption
  <2> QED BY <2>2, <2>4 DEF query_collection, merge_and_sort_query_results
<1> QED BY <1>1, <1>2, <1>3 DEF RetrievalSound, BestKept

-----------------------------------------------------------------------------
(* Memory                                                                   *)

MemRow == {r \in [in : BOOLEAN, text : Texts \cup {None}, type : Types \cup {None}, path : MemoryPath] : ~r.in => r = NoMemory}
MemRows == [MemoryId -> MemRow]
VectorRow == [in : BOOLEAN, text : Texts \cup {None}, path : MemoryPath]
StepNames == {"embed", "upsert", "erase", "drop", "read", "fill", "review", "search"}
StepRow == [do : StepNames, arg : SUBSET MemoryId]
JobRow == [prog : Seq(StepRow), seen : SUBSET MemoryId, rows : MemRows, wrote : SUBSET MemoryId, clean : BOOLEAN]
MemTypes ==
    /\ remembered \in MemRows /\ vectors \in [MemoryId -> VectorRow] /\ job \in [MemoryClient -> JobRow]
    /\ loose \in SUBSET MemoryId /\ memoryCalls \in 0..MaxMemoryCalls /\ memoryFails \in 0..MaxMemoryFails

\* What is left of a job: its stage, the ids it puts in, and those it takes out at the end.
Stages == {"embed", "upsert", "drop", "read", "begin", "refill", "fill", "clear", "done"}
Lead(leg, ids) ==
    CASE leg = "embed" -> <<Embed, Upsert(ids)>>
      [] leg = "upsert" -> <<Upsert(ids)>>
      [] leg = "drop" -> <<Step("drop", {}), Step("read", {}), Embed, Step("fill", {})>>
      [] leg = "read" -> <<Step("read", {}), Embed, Step("fill", {})>>
      [] leg = "begin" -> <<Step("drop", {}), Embed, Step("fill", {})>>
      [] leg = "refill" -> <<Embed, Step("fill", {})>>
      [] leg = "fill" -> <<Step("fill", {})>>
      [] leg = "clear" -> <<Step("drop", {})>>
      [] leg = "done" -> <<>>
Erasing(out) == IF out = {} THEN <<>> ELSE <<Erase(out)>>
Filling == {"drop", "read", "begin", "refill", "fill"}
Left(j, leg, ids, out) == j.prog = Lead(leg, ids) \o Erasing(out)

VectorOf(r) == IF r.in THEN memory_vector_text(r) ELSE NoVector
\* The vector of e when the job has run to its end with nobody in between.
Outcome(leg, ids, out, table, e, v, r) ==
    IF e \in out THEN NoVector
    ELSE CASE leg \in {"embed", "upsert"} -> IF e \in ids THEN memory_vector_text(table[e]) ELSE v
           [] leg = "drop" -> VectorOf(r)
           [] leg = "read" -> IF r.in THEN memory_vector_text(r) ELSE v
           [] leg = "begin" -> VectorOf(table[e])
           [] leg \in {"refill", "fill"} -> IF table[e].in THEN memory_vector_text(table[e]) ELSE v
           [] leg = "clear" -> NoVector
           [] leg = "done" -> v

\* A job leaves what it writes as the rows are, unless it was crossed or failed.
JobFits(c, leg, ids, out) ==
    /\ Left(job[c], leg, ids, out) /\ ids \subseteq job[c].wrote /\ out \subseteq job[c].wrote
    /\ \A e \in out : ~remembered[e].in
    /\ leg \in Filling \cup {"clear"} => job[c].wrote = MemoryId
    /\ leg \in Filling /\ job[c].clean => \A o \in MemoryClient \ {c} : job[o].wrote = {}
    /\ \A e \in job[c].wrote : e \notin loose \/ (leg \in Filling /\ job[c].clean) =>
           Outcome(leg, ids, out, job[c].rows, e, vectors[e], remembered[e]) = VectorOf(remembered[e])
Reading(c) == job[c].wrote = {} /\ job[c].prog \in {<<>>, <<Step("review", {})>>, <<Step("search", {})>>}
MemJobs ==
    \A c \in MemoryClient : Reading(c) \/ (Busy(c) /\ \E leg \in Stages, ids, out \in SUBSET MemoryId : JobFits(c, leg, ids, out))
MemApart == \A c, d \in MemoryClient : c # d => job[c].wrote \cap job[d].wrote \subseteq loose
MemIInv == MemTypes /\ MemJobs /\ MemApart /\ VectorsFollow /\ ToldOnce

(* Programs                                                                 *)
LEMMA Leading ==
    ASSUME NEW S, NEW a \in S, NEW l \in Seq(S), NEW t \in Seq(S)
    PROVE  /\ (<<a>> \o l) \o t \in Seq(S) /\ (<<a>> \o l) \o t # <<>>
           /\ Head((<<a>> \o l) \o t) = a /\ Tail((<<a>> \o l) \o t) = l \o t
<1>1. (<<a>> \o l) \o t = <<a>> \o (l \o t) /\ l \o t \in Seq(S)
    OBVIOUS
<1> QED BY <1>1

LEMMA Short ==
    ASSUME NEW S, NEW a \in S, NEW b \in S, NEW c \in S, NEW d \in S
    PROVE  /\ <<>> \in Seq(S) /\ <<a>> \in Seq(S) /\ <<a, b>> \in Seq(S) /\ <<a, b, c>> \in Seq(S) /\ <<a, b, c, d>> \in Seq(S)
           /\ <<a>> \o <<>> = <<a>> /\ <<a>> \o <<b>> = <<a, b>> /\ <<a>> \o <<b, c>> = <<a, b, c>> /\ <<a>> \o <<b, c, d>> = <<a, b, c, d>>
           /\ <<a>> # <<>> /\ Head(<<a>>) = a /\ Tail(<<a>>) = <<>>
<1>1. /\ <<>> \in Seq(S) /\ <<a>> \in Seq(S) /\ <<a, b>> \in Seq(S) /\ <<a, b, c>> \in Seq(S) /\ <<a, b, c, d>> \in Seq(S)
    OBVIOUS
<1>2. <<a>> \o <<>> = <<a>>
    BY <1>1, ConcatEmptySeq
<1>3. <<a>> \o <<b>> = <<a, b>>
  <2>1. <<a>> \o <<b>> \in Seq(S) /\ Len(<<a>> \o <<b>>) = 2 /\ (<<a>> \o <<b>>)[1] = a /\ (<<a>> \o <<b>>)[2] = b
      BY <1>1, ConcatProperties
  <2>2. Len(<<a, b>>) = 2 /\ \A i \in 1..2 : (<<a>> \o <<b>>)[i] = <<a, b>>[i]
      BY <2>1
  <2> DEFINE u == <<a>> \o <<b>>
             v == <<a, b>>
  <2>3. u \in Seq(S) /\ v \in Seq(S) /\ Len(u) = Len(v) /\ \A i \in 1..Len(u) : u[i] = v[i]
      BY <1>1, <2>1, <2>2
  <2> HIDE DEF u, v
  <2>4. u = v
      BY <2>3, SeqEqual
  <2> QED BY <2>4 DEF u, v
<1>4. <<a>> \o <<b, c>> = <<a, b, c>>
  <2>1. <<a>> \o <<b, c>> \in Seq(S) /\ Len(<<a>> \o <<b, c>>) = 3 /\ (<<a>> \o <<b, c>>)[1] = a /\ (<<a>> \o <<b, c>>)[2] = b /\ (<<a>> \o <<b, c>>)[3] = c
      BY <1>1, ConcatProperties
  <2>2. Len(<<a, b, c>>) = 3 /\ \A i \in 1..3 : (<<a>> \o <<b, c>>)[i] = <<a, b, c>>[i]
      BY <2>1
  <2> DEFINE u == <<a>> \o <<b, c>>
             v == <<a, b, c>>
  <2>3. u \in Seq(S) /\ v \in Seq(S) /\ Len(u) = Len(v) /\ \A i \in 1..Len(u) : u[i] = v[i]
      BY <1>1, <2>1, <2>2
  <2> HIDE DEF u, v
  <2>4. u = v
      BY <2>3, SeqEqual
  <2> QED BY <2>4 DEF u, v
<1>5. <<a>> \o <<b, c, d>> = <<a, b, c, d>>
  <2>1. <<a>> \o <<b, c, d>> \in Seq(S) /\ Len(<<a>> \o <<b, c, d>>) = 4 /\ (<<a>> \o <<b, c, d>>)[1] = a /\ (<<a>> \o <<b, c, d>>)[2] = b /\ (<<a>> \o <<b, c, d>>)[3] = c /\ (<<a>> \o <<b, c, d>>)[4] = d
      BY <1>1, ConcatProperties
  <2>2. Len(<<a, b, c, d>>) = 4 /\ \A i \in 1..4 : (<<a>> \o <<b, c, d>>)[i] = <<a, b, c, d>>[i]
      BY <2>1
  <2> DEFINE u == <<a>> \o <<b, c, d>>
             v == <<a, b, c, d>>
  <2>3. u \in Seq(S) /\ v \in Seq(S) /\ Len(u) = Len(v) /\ \A i \in 1..Len(u) : u[i] = v[i]
      BY <1>1, <2>1, <2>2
  <2> HIDE DEF u, v
  <2>4. u = v
      BY <2>3, SeqEqual
  <2> QED BY <2>4 DEF u, v
<1>6. <<a>> # <<>> /\ Head(<<a>>) = a /\ Tail(<<a>>) = <<>>
    OBVIOUS
<1> QED BY <1>1, <1>2, <1>3, <1>4, <1>5, <1>6

LEMMA ThreeSteps == ASSUME NEW S, NEW a \in S, NEW b \in S, NEW c \in S PROVE <<a>> \o <<b, c>> = <<a, b, c>>
<1>1. <<a>> \in Seq(S) /\ <<b, c>> \in Seq(S) /\ <<a, b, c>> \in Seq(S)
    OBVIOUS
<1>2. <<a>> \o <<b, c>> = <<a, b, c>>
  <2>1. <<a>> \o <<b, c>> \in Seq(S) /\ Len(<<a>> \o <<b, c>>) = 3 /\ (<<a>> \o <<b, c>>)[1] = a /\ (<<a>> \o <<b, c>>)[2] = b /\ (<<a>> \o <<b, c>>)[3] = c
      BY <1>1, ConcatProperties
  <2>2. Len(<<a, b, c>>) = 3 /\ \A i \in 1..3 : (<<a>> \o <<b, c>>)[i] = <<a, b, c>>[i]
      BY <2>1
  <2> DEFINE u == <<a>> \o <<b, c>>
             v == <<a, b, c>>
  <2>3. u \in Seq(S) /\ v \in Seq(S) /\ Len(u) = Len(v) /\ \A i \in 1..Len(u) : u[i] = v[i]
      BY <1>1, <2>1, <2>2
  <2> HIDE DEF u, v
  <2>4. u = v
      BY <2>3, SeqEqual
  <2> QED BY <2>4 DEF u, v
<1> QED BY <1>2

LEMMA StepsTyped == \A name \in StepNames, arg \in SUBSET MemoryId : Step(name, arg) \in StepRow /\ Step(name, arg).do = name /\ Step(name, arg).arg = arg
BY DEF Step, StepRow, StepNames

LEMMA Erasings == \A out \in SUBSET MemoryId : Erasing(out) \in Seq(StepRow) /\ (out = {} => Erasing(out) = <<>>)
                      /\ (out # {} => Erasing(out) # <<>> /\ Head(Erasing(out)) = Erase(out) /\ Tail(Erasing(out)) = <<>>)
<1>1. \A out \in SUBSET MemoryId : Erase(out) \in StepRow
    BY StepsTyped DEF Erase, StepNames
<1> QED BY <1>1, Short DEF Erasing

\* The first step of a stage, and the stage after it.
FirstStep(leg, ids) ==
    CASE leg \in {"embed", "refill"} -> Embed [] leg = "upsert" -> Upsert(ids)
      [] leg \in {"drop", "begin", "clear"} -> Step("drop", {}) [] leg = "read" -> Step("read", {})
      [] leg = "fill" -> Step("fill", {})
NextStage(leg) ==
    CASE leg = "embed" -> "upsert" [] leg = "drop" -> "read" [] leg \in {"read", "begin"} -> "refill"
      [] leg = "refill" -> "fill" [] leg \in {"upsert", "fill", "clear"} -> "done"

LEMMA LeadTyped == \A s \in Stages, ids \in SUBSET MemoryId : Lead(s, ids) \in Seq(StepRow)
<1> SUFFICES ASSUME NEW s \in Stages, NEW ids \in SUBSET MemoryId PROVE Lead(s, ids) \in Seq(StepRow)
    OBVIOUS
<1>1. /\ Embed \in StepRow /\ Upsert(ids) \in StepRow /\ Step("drop", {}) \in StepRow /\ Step("read", {}) \in StepRow /\ Step("fill", {}) \in StepRow
    BY StepsTyped DEF Embed, Upsert, StepNames
<1> HIDE DEF StepRow
<1> QED BY <1>1, Short DEF Stages, Lead

LEMMA Programs ==
    ASSUME NEW leg \in Stages, NEW ids \in SUBSET MemoryId, NEW out \in SUBSET MemoryId
    PROVE  /\ Lead(leg, ids) \o Erasing(out) \in Seq(StepRow)
           /\ leg # "done" => /\ Lead(leg, ids) \o Erasing(out) # <<>> /\ Head(Lead(leg, ids) \o Erasing(out)) = FirstStep(leg, ids)
                                /\ Tail(Lead(leg, ids) \o Erasing(out)) = Lead(NextStage(leg), ids) \o Erasing(out)
           /\ leg = "done" => Lead(leg, ids) \o Erasing(out) = Erasing(out)
<1> DEFINE p == Lead(leg, ids) \o Erasing(out)
<1>1. /\ Embed \in StepRow /\ Upsert(ids) \in StepRow /\ Step("drop", {}) \in StepRow /\ Step("read", {}) \in StepRow /\ Step("fill", {}) \in StepRow
    BY StepsTyped DEF Embed, Upsert, StepNames
<1>2. Erasing(out) \in Seq(StepRow)
    BY Erasings
<1> HIDE DEF StepRow
<1>a. \A s \in Stages : Lead(s, ids) \in Seq(StepRow)
    BY LeadTyped
<1>3. ASSUME leg # "done"
      PROVE  /\ NextStage(leg) \in Stages /\ FirstStep(leg, ids) \in StepRow
             /\ Lead(leg, ids) = <<FirstStep(leg, ids)>> \o Lead(NextStage(leg), ids)
  <2> USE DEF Lead, NextStage, FirstStep, Stages
  <2>1. CASE leg = "embed"
      BY <1>1, <2>1, Short
  <2>2. CASE leg = "upsert"
      BY <1>1, <2>2, Short
  <2>3. CASE leg = "drop"
      BY <1>1, <2>3, Short
  <2>4. CASE leg = "read"
      BY <1>1, <2>4, Short
  <2>5. CASE leg = "begin"
    <3> DEFINE x == Step("drop", {})
               y == Step("fill", {})
    <3> HIDE DEF x, y
    <3>1. x \in StepRow /\ y \in StepRow
        BY <1>1 DEF x, y
    <3>2. <<x>> \o <<Embed, y>> = <<x, Embed, y>>
      <4>1. \A a, b, c \in StepRow : <<a>> \o <<b, c>> = <<a, b, c>>
          BY ThreeSteps, Zenon
      <4> QED BY <1>1, <3>1, <4>1, Zenon
    <3> QED BY <1>1, <2>5, <3>2 DEF x, y
  <2>6. CASE leg = "refill"
      BY <1>1, <2>6, Short
  <2>7. CASE leg = "fill"
      BY <1>1, <2>7, Short
  <2>8. CASE leg = "clear"
      BY <1>1, <2>8, Short
  <2> QED BY <1>3, <2>1, <2>2, <2>3, <2>4, <2>5, <2>6, <2>7, <2>8
<1>4. CASE leg # "done"
  <2> DEFINE f == FirstStep(leg, ids)
             l == Lead(NextStage(leg), ids)
             t == Erasing(out)
             q == p
  <2>1. l \in Seq(StepRow) /\ f \in StepRow /\ t \in Seq(StepRow) /\ q = (<<f>> \o l) \o t
      BY <1>a, <1>2, <1>3, <1>4
  <2> HIDE DEF f, l, t, q
  <2>2. q \in Seq(StepRow) /\ q # <<>> /\ Head(q) = f /\ Tail(q) = l \o t
      BY <2>1, Leading
  <2> QED BY <1>4, <2>2 DEF f, l, t, q
<1>5. CASE leg = "done"
    BY <1>2, <1>5, ConcatEmptySeq DEF Lead
<1> QED BY <1>4, <1>5

MemCore == MemJobs /\ MemApart /\ VectorsFollow

LEMMA WritersBusy == ASSUME MemJobs, NEW o \in MemoryClient, job[o].wrote # {} PROVE Busy(o)
BY DEF MemJobs, Reading

LEMMA FollowedThen == VectorsFollow <=> \A e \in MemoryId \ loose : (\A c \in MemoryClient : e \notin job[c].wrote) => vectors[e] = VectorOf(remembered[e])
BY DEF VectorsFollow, VectorOf

LEMMA WritesTyped ==
    ASSUME MemTypes, NEW c \in MemoryClient, NEW ids \in SUBSET MemoryId, NEW prog \in Seq(StepRow), NEW table \in MemRows, Writes(c, ids, prog, table)
    PROVE  job' \in [MemoryClient -> JobRow] /\ loose' \in SUBSET MemoryId
<1> DEFINE met == {o \in MemoryClient \ {c} : Busy(o) /\ job[o].wrote \cap ids # {}}
<1>1. \A o \in MemoryClient : job[o] \in JobRow
    BY DEF MemTypes
<1>2. NoJob \in JobRow
  <2>1. NoMemory \in MemRow
      BY MemoryAssumption DEF MemRow, NoMemory
  <2>2. <<>> \in Seq(StepRow)
      OBVIOUS
  <2> HIDE DEF MemRow, StepRow
  <2> QED BY <2>1, <2>2 DEF NoJob, JobRow, MemRows
<1>3. ASSUME NEW o \in MemoryClient PROVE job'[o] \in JobRow
  <2> HIDE DEF MemRows, StepRow
  <2>1. CASE o = c /\ prog = <<>>
      BY <1>2, <2>1 DEF Writes
  <2>2. CASE o = c /\ prog # <<>>
    <3>1. job'[c] = [job[c] EXCEPT !.prog = prog, !.rows = table, !.wrote = job[c].wrote \cup ids, !.clean = job[c].clean /\ met = {}]
        BY <2>2 DEF Writes
    <3>2. (job[c].clean /\ met = {}) \in BOOLEAN
        OBVIOUS
    <3> HIDE DEF met
    <3> QED BY <1>1, <2>2, <3>1, <3>2 DEF JobRow
  <2>3. CASE o # c
    <3>1. job'[o] = [job[o] EXCEPT !.clean = FALSE] \/ job'[o] = job[o]
        BY <2>3 DEF Writes
    <3> QED BY <1>1, <3>1 DEF JobRow
  <2> QED BY <2>1, <2>2, <2>3
<1>4. job' \in [MemoryClient -> JobRow]
  <2>1. DOMAIN job' = MemoryClient /\ job' = [o \in MemoryClient |-> job'[o]]
      BY DEF Writes
  <2> QED BY <1>3, <2>1
<1>5. loose' \in SUBSET MemoryId
    BY DEF Writes, MemTypes
<1> QED BY <1>4, <1>5

(* A request commits its rows and says what it will do to the vectors.       *)
LEMMA WritesKeep ==
    ASSUME MemTypes, MemCore, NEW c \in MemoryClient, NEW ids \in SUBSET MemoryId, NEW prog, NEW table, Writes(c, ids, prog, table),
           job[c].wrote \subseteq ids, vectors' = vectors,
           \A e \in MemoryId \ ids : remembered'[e] = remembered[e],
           \A e \in MemoryId : remembered'[e].in /\ ~remembered[e].in => \A o \in MemoryClient : e \notin job[o].wrote,
           prog = <<>> => job[c].wrote = {} /\ \A e \in ids : VectorOf(remembered'[e]) = VectorOf(remembered[e]),
           prog # <<>> =>
               \E leg \in Stages, put, out \in SUBSET ids :
                   /\ prog = Lead(leg, put) \o Erasing(out) /\ (leg \in Filling \cup {"clear"} => ids = MemoryId)
                   /\ \A e \in out : ~remembered'[e].in
                   /\ \A e \in ids : Outcome(leg, put, out, table, e, vectors[e], remembered'[e]) = VectorOf(remembered'[e])
    PROVE  MemCore'
<1> DEFINE met == {o \in MemoryClient \ {c} : Busy(o) /\ job[o].wrote \cap ids # {}}
<1>1. \A o \in MemoryClient \ {c} : job'[o] = IF o \in met THEN [job[o] EXCEPT !.clean = FALSE] ELSE job[o]
    BY DEF Writes
<1>2. loose' = loose \cup UNION {job[o].wrote \cap ids : o \in met}
    BY DEF Writes
<1>3. \A o \in MemoryClient : job[o] \in JobRow
    BY DEF MemTypes
<1>4. \A o \in MemoryClient \ {c} : /\ job'[o].wrote = job[o].wrote /\ job'[o].prog = job[o].prog /\ job'[o].rows = job[o].rows
                                    /\ (job'[o].clean => job[o].clean /\ o \notin met)
    BY <1>1, <1>3 DEF JobRow
<1>5. \A o \in MemoryClient \ {c} : job[o].wrote \cap ids # {} => o \in met /\ job[o].wrote \cap ids \subseteq loose'
    BY <1>2, WritersBusy DEF MemCore
<1>6. loose \subseteq loose'
    BY <1>2
<1>7. prog = <<>> => job'[c].wrote = {} /\ job'[c].prog = <<>>
    BY DEF Writes, NoJob
<1>8. prog # <<>> => /\ job'[c].wrote = ids /\ job'[c].prog = prog /\ job'[c].rows = table /\ (job'[c].clean => met = {})
  <2> SUFFICES ASSUME prog # <<>> PROVE /\ job'[c].wrote = ids /\ job'[c].prog = prog /\ job'[c].rows = table /\ (job'[c].clean => met = {})
      OBVIOUS
  <2>1. job'[c] = [job[c] EXCEPT !.prog = prog, !.rows = table, !.wrote = job[c].wrote \cup ids, !.clean = job[c].clean /\ met = {}]
      BY DEF Writes
  <2>2. job[c].wrote \cup ids = ids
      OBVIOUS
  <2> HIDE DEF met
  <2> QED BY <1>3, <2>1, <2>2 DEF JobRow
<1> HIDE DEF met
<1>9. MemApart'
  <2>1. job'[c].wrote \subseteq ids
      BY <1>7, <1>8
  <2> QED BY <1>4, <1>5, <1>6, <2>1 DEF MemCore, MemApart
<1>10. VectorsFollow'
  <2> SUFFICES ASSUME NEW e \in MemoryId, e \notin loose', \A o \in MemoryClient : e \notin job'[o].wrote
               PROVE  vectors'[e] = VectorOf(remembered'[e])
      BY DEF VectorsFollow, VectorOf
  <2>1. e \notin loose /\ \A o \in MemoryClient \ {c} : e \notin job[o].wrote
      BY <1>4, <1>6
  <2>2. CASE e \notin ids
    <3>1. \A o \in MemoryClient : e \notin job[o].wrote
        BY <2>1, <2>2
    <3> QED BY <2>1, <2>2, <3>1, FollowedThen DEF MemCore
  <2>3. CASE e \in ids
    <3>1. prog = <<>>
        BY <1>8, <2>3
    <3>2. \A o \in MemoryClient : e \notin job[o].wrote
        BY <2>1, <3>1
    <3> QED BY <2>1, <2>3, <3>1, <3>2, FollowedThen DEF MemCore
  <2> QED BY <2>2, <2>3
<1>11. ASSUME NEW o \in MemoryClient, o # c
       PROVE  Reading(o)' \/ (Busy(o)' /\ \E leg \in Stages, put, out \in SUBSET MemoryId : JobFits(o, leg, put, out)')
  <2>1. CASE Reading(o)
      BY <1>4, <1>11, <2>1 DEF Reading
  <2>2. CASE Busy(o) /\ \E leg \in Stages, put, out \in SUBSET MemoryId : JobFits(o, leg, put, out)
    <3>1. PICK leg \in Stages, put \in SUBSET MemoryId, out \in SUBSET MemoryId : JobFits(o, leg, put, out)
        BY <2>2
    <3>2. Busy(o)'
        BY <1>4, <1>11, <2>2 DEF Busy
    <3>3. /\ Left(job'[o], leg, put, out) /\ put \subseteq job'[o].wrote /\ out \subseteq job'[o].wrote
          /\ (leg \in Filling \cup {"clear"} => job'[o].wrote = MemoryId)
        BY <1>4, <1>11, <3>1 DEF JobFits, Left
    <3>4. \A e \in out : ~remembered'[e].in
        BY <1>11, <3>1 DEF JobFits
    <3>5. ASSUME leg \in Filling, job'[o].clean PROVE \A d \in MemoryClient \ {o} : job'[d].wrote = {}
      <4>1. job[o].clean /\ o \notin met /\ job[o].wrote = MemoryId
          BY <1>4, <1>11, <3>1, <3>5 DEF JobFits
      <4>2. \A d \in MemoryClient \ {o} : job[d].wrote = {}
          BY <3>1, <3>5, <4>1 DEF JobFits
      <4>3. ids = {}
          BY <1>5, <1>11, <4>1
      <4> QED BY <1>4, <1>7, <1>8, <4>2, <4>3
    <3>6. ASSUME NEW e \in job'[o].wrote, e \notin loose' \/ (leg \in Filling /\ job'[o].clean)
          PROVE  Outcome(leg, put, out, job'[o].rows, e, vectors'[e], remembered'[e]) = VectorOf(remembered'[e])
      <4>1. e \in job[o].wrote /\ e \notin ids /\ e \in MemoryId
          BY <1>3, <1>4, <1>5, <1>11, <3>6 DEF JobRow
      <4>2. e \notin loose \/ (leg \in Filling /\ job[o].clean)
          BY <1>4, <1>6, <1>11, <3>6
      <4>3. Outcome(leg, put, out, job[o].rows, e, vectors[e], remembered[e]) = VectorOf(remembered[e])
          BY <3>1, <4>1, <4>2 DEF JobFits
      <4> QED BY <1>4, <1>11, <4>1, <4>3
    <3> QED BY <3>2, <3>3, <3>4, <3>5, <3>6 DEF JobFits
  <2> QED BY <2>1, <2>2 DEF MemCore, MemJobs
<1>12. Reading(c)' \/ (Busy(c)' /\ \E leg \in Stages, put, out \in SUBSET MemoryId : JobFits(c, leg, put, out)')
  <2>1. CASE prog = <<>>
      BY <1>7, <2>1 DEF Reading
  <2>2. CASE prog # <<>>
    <3>1. PICK leg \in Stages, put \in SUBSET ids, out \in SUBSET ids :
                   /\ prog = Lead(leg, put) \o Erasing(out) /\ (leg \in Filling \cup {"clear"} => ids = MemoryId)
                   /\ \A e \in out : ~remembered'[e].in
                   /\ \A e \in ids : Outcome(leg, put, out, table, e, vectors[e], remembered'[e]) = VectorOf(remembered'[e])
        BY <2>2
    <3>2. Busy(c)' /\ Left(job'[c], leg, put, out)
        BY <1>8, <2>2, <3>1 DEF Busy, Left
    <3>3. ASSUME leg \in Filling, job'[c].clean PROVE \A d \in MemoryClient \ {c} : job'[d].wrote = {}
      <4>1. met = {} /\ ids = MemoryId
          BY <1>8, <2>2, <3>1, <3>3
      <4>2. \A d \in MemoryClient \ {c} : job[d].wrote \in SUBSET MemoryId
          BY <1>3 DEF JobRow
      <4> QED BY <1>4, <1>5, <4>1, <4>2
    <3>4. JobFits(c, leg, put, out)'
        BY <1>8, <2>2, <3>1, <3>2, <3>3 DEF JobFits
    <3> QED BY <3>2, <3>4
  <2> QED BY <2>1, <2>2
<1> QED BY <1>9, <1>10, <1>11, <1>12 DEF MemCore, MemJobs

(* A job takes a step of its own towards the same outcome, or ends in it; a  *)
(* collection built with nobody in between settles what was loose.           *)
LEMMA StoreKeeps ==
    ASSUME MemTypes, MemCore, NEW c \in MemoryClient, NEW leg \in Stages, NEW put \in SUBSET MemoryId, NEW out \in SUBSET MemoryId,
           JobFits(c, leg, put, out), remembered' = remembered,
           \A o \in MemoryClient \ {c} : job'[o] = job[o],
           \A e \in MemoryId \ job[c].wrote : vectors'[e] = vectors[e],
           loose' = loose \/ (leg \in Filling /\ job[c].clean /\ loose' = {}),
           \/ /\ job'[c].prog # <<>> /\ job'[c].wrote = job[c].wrote /\ job'[c].clean = job[c].clean
              /\ \E next \in Stages, rest \in SUBSET out :
                    /\ (next \in Filling => leg \in Filling) /\ next # "clear" /\ Left(job'[c], next, put, rest)
                    /\ \A e \in job[c].wrote : Outcome(next, put, rest, job'[c].rows, e, vectors'[e], remembered[e])
                                               = Outcome(leg, put, out, job[c].rows, e, vectors[e], remembered[e])
           \/ /\ job'[c].prog = <<>> /\ job'[c].wrote = {}
              /\ \A e \in job[c].wrote : vectors'[e] = Outcome(leg, put, out, job[c].rows, e, vectors[e], remembered[e])
    PROVE  MemCore'
<1>1. \A o \in MemoryClient : job[o].wrote \in SUBSET MemoryId
    BY DEF MemTypes, JobRow
<1>2. job'[c].wrote \subseteq job[c].wrote
    OBVIOUS
<1>3. loose' # loose => loose' = {} /\ leg \in Filling /\ job[c].clean /\ job[c].wrote = MemoryId /\ \A o \in MemoryClient \ {c} : job[o].wrote = {}
    BY DEF JobFits
<1>4. MemApart'
  <2>1. \A o, d \in MemoryClient : o # d => job'[o].wrote \cap job'[d].wrote \subseteq job[o].wrote \cap job[d].wrote
      BY <1>2
  <2>2. loose' # loose => \A o, d \in MemoryClient : o # d => job[o].wrote \cap job[d].wrote = {}
      BY <1>3
  <2> QED BY <2>1, <2>2 DEF MemCore, MemApart
<1>5. VectorsFollow'
  <2> SUFFICES ASSUME NEW e \in MemoryId, e \notin loose', \A o \in MemoryClient : e \notin job'[o].wrote
               PROVE  vectors'[e] = VectorOf(remembered[e])
      BY DEF VectorsFollow, VectorOf
  <2>1. CASE e \in job[c].wrote
    <3>1. vectors'[e] = Outcome(leg, put, out, job[c].rows, e, vectors[e], remembered[e])
        BY <2>1
    <3>2. e \notin loose \/ (leg \in Filling /\ job[c].clean)
        OBVIOUS
    <3> QED BY <2>1, <3>1, <3>2 DEF JobFits
  <2>2. CASE e \notin job[c].wrote
    <3>1. e \notin loose /\ \A o \in MemoryClient : e \notin job[o].wrote
        BY <1>3, <2>2
    <3> QED BY <2>2, <3>1, FollowedThen DEF MemCore
  <2> QED BY <2>1, <2>2
<1>6. ASSUME NEW o \in MemoryClient, o # c
      PROVE  Reading(o)' \/ (Busy(o)' /\ \E st \in Stages, pu, go \in SUBSET MemoryId : JobFits(o, st, pu, go)')
  <2>0. job'[o] = job[o]
      BY <1>6
  <2>1. CASE Reading(o)
      BY <2>0, <2>1 DEF Reading
  <2>2. CASE Busy(o) /\ \E st \in Stages, pu, go \in SUBSET MemoryId : JobFits(o, st, pu, go)
    <3>1. PICK st \in Stages, pu \in SUBSET MemoryId, go \in SUBSET MemoryId : JobFits(o, st, pu, go)
        BY <2>2
    <3>2. Busy(o)'
        BY <2>0, <2>2 DEF Busy
    <3>3. st \in Filling /\ job[o].clean => job[c].wrote = {}
        BY <1>6, <3>1 DEF JobFits
    <3>4. \A d \in MemoryClient : job'[d].wrote \subseteq job[d].wrote
        BY <1>2
    <3>5. ASSUME NEW e \in job[o].wrote, e \notin loose' \/ (st \in Filling /\ job[o].clean)
          PROVE  Outcome(st, pu, go, job[o].rows, e, vectors'[e], remembered[e]) = VectorOf(remembered[e])
      <4>1. loose' = loose
          BY <1>3, <1>6, <3>5
      <4>2. e \notin job[c].wrote
          BY <1>6, <3>3, <3>5, <4>1 DEF MemCore, MemApart
      <4>3. e \in MemoryId
          BY <1>1, <3>5
      <4> QED BY <3>1, <3>5, <4>1, <4>2, <4>3 DEF JobFits
    <3>6. st \in Filling /\ job[o].clean => \A d \in MemoryClient \ {o} : job'[d].wrote = {}
        BY <3>1, <3>4 DEF JobFits
    <3>7. JobFits(o, st, pu, go)'
        BY <2>0, <3>1, <3>5, <3>6 DEF JobFits, Left
    <3> QED BY <3>2, <3>7
  <2> QED BY <2>1, <2>2 DEF MemCore, MemJobs
<1>7. Reading(c)' \/ (Busy(c)' /\ \E st \in Stages, pu, go \in SUBSET MemoryId : JobFits(c, st, pu, go)')
  <2>1. CASE job'[c].prog = <<>>
    <3>1. job'[c].wrote = {}
        BY <2>1
    <3> QED BY <2>1, <3>1 DEF Reading
  <2>2. CASE job'[c].prog # <<>>
    <3>1. PICK next \in Stages, rest \in SUBSET out :
             /\ (next \in Filling => leg \in Filling) /\ next # "clear" /\ Left(job'[c], next, put, rest)
             /\ \A e \in job[c].wrote : Outcome(next, put, rest, job'[c].rows, e, vectors'[e], remembered[e])
                                        = Outcome(leg, put, out, job[c].rows, e, vectors[e], remembered[e])
        BY <2>2
    <3>a. job'[c].wrote = job[c].wrote /\ job'[c].clean = job[c].clean
        BY <2>2
    <3>2. Busy(c)'
        BY <2>2 DEF Busy
    <3>3. put \subseteq job[c].wrote /\ rest \subseteq job[c].wrote /\ \A e \in rest : ~remembered[e].in
        BY DEF JobFits
    <3>4. next \in Filling \cup {"clear"} => job[c].wrote = MemoryId
        BY <3>1 DEF JobFits
    <3>5. next \in Filling /\ job[c].clean => \A o \in MemoryClient \ {c} : job'[o].wrote = {}
        BY <3>1 DEF JobFits
    <3>6. ASSUME NEW e \in job[c].wrote, e \notin loose' \/ (next \in Filling /\ job[c].clean)
          PROVE  Outcome(leg, put, out, job[c].rows, e, vectors[e], remembered[e]) = VectorOf(remembered[e])
      <4>1. e \notin loose \/ (leg \in Filling /\ job[c].clean)
          BY <3>1, <3>6
      <4> QED BY <4>1 DEF JobFits
    <3>7. JobFits(c, next, put, rest)'
        BY <3>1, <3>a, <3>3, <3>4, <3>5, <3>6 DEF JobFits
    <3> QED BY <3>2, <3>7
  <2> QED BY <2>1, <2>2
<1> QED BY <1>4, <1>5, <1>6, <1>7 DEF MemCore, MemJobs

(* A request that only reads.                                                *)
LEMMA ReadersKeep ==
    ASSUME MemTypes, MemCore, NEW c \in MemoryClient, job[c].wrote = {}, remembered' = remembered, vectors' = vectors, loose' = loose,
           \A o \in MemoryClient \ {c} : job'[o] = job[o], Reading(c)'
    PROVE  MemCore'
<1>1. \A o \in MemoryClient : job'[o].wrote = job[o].wrote
    BY DEF Reading
<1>2. MemApart'
    BY <1>1 DEF MemCore, MemApart
<1>3. VectorsFollow'
    BY <1>1 DEF MemCore, VectorsFollow
<1>4. ASSUME NEW o \in MemoryClient, o # c
      PROVE  Reading(o)' \/ (Busy(o)' /\ \E st \in Stages, pu, go \in SUBSET MemoryId : JobFits(o, st, pu, go)')
  <2>0. job'[o] = job[o]
      BY <1>4
  <2>1. CASE Reading(o)
      BY <2>0, <2>1 DEF Reading
  <2>2. CASE Busy(o) /\ \E st \in Stages, pu, go \in SUBSET MemoryId : JobFits(o, st, pu, go)
    <3>1. PICK st \in Stages, pu \in SUBSET MemoryId, go \in SUBSET MemoryId : JobFits(o, st, pu, go)
        BY <2>2
    <3>2. Busy(o)' /\ JobFits(o, st, pu, go)'
        BY <1>1, <2>0, <2>2, <3>1 DEF Busy, JobFits, Left
    <3> QED BY <3>2
  <2> QED BY <2>1, <2>2 DEF MemCore, MemJobs
<1> QED BY <1>2, <1>3, <1>4 DEF MemCore, MemJobs

(* A failure: what the job wrote is loose, and it ends, or goes on with a    *)
(* collection that was not dropped.                                          *)
LEMMA FailKeeps ==
    ASSUME MemTypes, MemCore, NEW c \in MemoryClient, remembered' = remembered, vectors' = vectors, loose' = loose \cup job[c].wrote,
           \A o \in MemoryClient \ {c} : job'[o] = job[o],
           \/ job'[c].prog = <<>> /\ job'[c].wrote = {}
           \/ /\ job'[c].prog # <<>> /\ job'[c].wrote = job[c].wrote /\ ~job'[c].clean
              /\ \E leg, next \in Stages, put \in SUBSET MemoryId, out \in SUBSET MemoryId :
                     JobFits(c, leg, put, out) /\ Left(job'[c], next, put, out) /\ (next \in Filling \cup {"clear"} => leg \in Filling \cup {"clear"})
    PROVE  MemCore'
<1>1. \A o \in MemoryClient : job'[o].wrote \subseteq job[o].wrote
    OBVIOUS
<1>2. MemApart'
    BY <1>1 DEF MemCore, MemApart
<1>3. VectorsFollow'
  <2> SUFFICES ASSUME NEW e \in MemoryId, e \notin loose', \A o \in MemoryClient : e \notin job'[o].wrote
               PROVE  vectors[e] = VectorOf(remembered[e])
      BY DEF VectorsFollow, VectorOf
  <2>1. e \notin loose /\ \A o \in MemoryClient : e \notin job[o].wrote
      OBVIOUS
  <2> QED BY <2>1, FollowedThen DEF MemCore
<1>4. ASSUME NEW o \in MemoryClient, o # c
      PROVE  Reading(o)' \/ (Busy(o)' /\ \E st \in Stages, pu, go \in SUBSET MemoryId : JobFits(o, st, pu, go)')
  <2>0. job'[o] = job[o]
      BY <1>4
  <2>1. CASE Reading(o)
      BY <2>0, <2>1 DEF Reading
  <2>2. CASE Busy(o) /\ \E st \in Stages, pu, go \in SUBSET MemoryId : JobFits(o, st, pu, go)
    <3>1. PICK st \in Stages, pu \in SUBSET MemoryId, go \in SUBSET MemoryId : JobFits(o, st, pu, go)
        BY <2>2
    <3>2. st \in Filling /\ job[o].clean => \A d \in MemoryClient \ {o} : job'[d].wrote = {}
        BY <1>1, <3>1 DEF JobFits
    <3>3. Busy(o)' /\ JobFits(o, st, pu, go)'
        BY <2>0, <2>2, <3>1, <3>2 DEF Busy, JobFits, Left
    <3> QED BY <3>3
  <2> QED BY <2>1, <2>2 DEF MemCore, MemJobs
<1>5. Reading(c)' \/ (Busy(c)' /\ \E st \in Stages, pu, go \in SUBSET MemoryId : JobFits(c, st, pu, go)')
  <2>1. CASE job'[c].prog = <<>> /\ job'[c].wrote = {}
      BY <2>1 DEF Reading
  <2>2. CASE job'[c].prog # <<>>
    <3>1. PICK leg \in Stages, next \in Stages, put \in SUBSET MemoryId, out \in SUBSET MemoryId :
                   JobFits(c, leg, put, out) /\ Left(job'[c], next, put, out) /\ (next \in Filling \cup {"clear"} => leg \in Filling \cup {"clear"})
        BY <2>2
    <3>2. Busy(c)' /\ job'[c].wrote = job[c].wrote /\ ~job'[c].clean
        BY <2>2 DEF Busy
    <3>3. JobFits(c, next, put, out)'
        BY <3>1, <3>2 DEF JobFits
    <3> QED BY <3>2, <3>3
  <2> QED BY <2>1, <2>2
<1> QED BY <1>2, <1>3, <1>4, <1>5 DEF MemCore, MemJobs

(* The steps of the store.                                                   *)
LEMMA Starts ==
    ASSUME NEW ids \in SUBSET MemoryId, NEW out \in SUBSET MemoryId
    PROVE  /\ <<Embed, Upsert(ids)>> = Lead("embed", ids) \o Erasing({})
           /\ reindex_memory_vectors_for_user = Lead("drop", {}) \o Erasing({})
           /\ <<Step("drop", {})>> = Lead("clear", {}) \o Erasing({})
           /\ <<Step("drop", {}), Embed, Step("fill", {})>> = Lead("begin", {}) \o Erasing({})
           /\ <<>> = Lead("done", ids) \o Erasing({}) /\ Erasing(out) = Lead("done", ids) \o Erasing(out)
           /\ \A leg \in Stages : Lead(leg, ids) \in Seq(StepRow) /\ Erasing(out) \in Seq(StepRow) /\ Lead(leg, ids) \o Erasing(out) \in Seq(StepRow)
           /\ {} \in SUBSET MemoryId
<1>1. \A leg \in Stages, p \in SUBSET MemoryId : Lead(leg, p) \o Erasing({}) = Lead(leg, p)
  <2> SUFFICES ASSUME NEW leg \in Stages, NEW p \in SUBSET MemoryId PROVE Lead(leg, p) \o Erasing({}) = Lead(leg, p)
      OBVIOUS
  <2>1. Lead(leg, p) \in Seq(StepRow)
      BY LeadTyped
  <2> HIDE DEF StepRow
  <2> QED BY <2>1, ConcatEmptySeq DEF Erasing
<1>2. \A leg \in Stages, p \in SUBSET MemoryId, g \in SUBSET MemoryId : Lead(leg, p) \o Erasing(g) \in Seq(StepRow) /\ Erasing(g) \in Seq(StepRow)
    BY Programs, Erasings
<1>3. Erasing(out) = Lead("done", ids) \o Erasing(out)
  <2>1. "done" \in Stages
      BY DEF Stages
  <2> QED BY <2>1, Programs
<1>4. <<Embed, Upsert(ids)>> = Lead("embed", ids) \o Erasing({})
    BY <1>1 DEF Lead, Stages
<1>5. reindex_memory_vectors_for_user = Lead("drop", {}) \o Erasing({})
    BY <1>1 DEF Lead, Stages, reindex_memory_vectors_for_user
<1>6. <<Step("drop", {})>> = Lead("clear", {}) \o Erasing({})
    BY <1>1 DEF Lead, Stages
<1>7. <<Step("drop", {}), Embed, Step("fill", {})>> = Lead("begin", {}) \o Erasing({})
    BY <1>1 DEF Lead, Stages
<1>8. <<>> = Lead("done", ids) \o Erasing({})
    BY <1>1 DEF Lead, Stages
<1> QED BY <1>2, <1>3, <1>4, <1>5, <1>6, <1>7, <1>8, LeadTyped

\* Where a job is that has this step before it.
Before(c, name, leg, put, out) ==
    /\ JobFits(c, leg, put, out)
    /\ leg # "done" => FirstStep(leg, put) = Head(job[c].prog) /\ Rest(c) = Lead(NextStage(leg), put) \o Erasing(out)
    /\ leg = "done" => name = "erase" /\ Arg(c) = out /\ Rest(c) = <<>>
    /\ name = "embed" => leg \in {"embed", "refill"}
    /\ name = "upsert" => leg = "upsert" /\ Arg(c) = put
    /\ name = "drop" => leg \in {"drop", "begin", "clear"}
    /\ name = "read" => leg = "read"
    /\ name = "fill" => leg = "fill"
    /\ name = "erase" => leg = "done"

LEMMA JobAt ==
    ASSUME MemTypes, MemCore, NEW c \in MemoryClient, NEW name \in StepNames \ {"review", "search"}, Now(c, name)
    PROVE  \E leg \in Stages, put, out \in SUBSET MemoryId : Before(c, name, leg, put, out)
<1>1. ~Reading(c)
    BY DEF Reading, Now, Busy, Step
<1>2. PICK leg \in Stages, put \in SUBSET MemoryId, out \in SUBSET MemoryId : JobFits(c, leg, put, out)
    BY <1>1 DEF MemCore, MemJobs
<1>3. job[c].prog = Lead(leg, put) \o Erasing(out) /\ job[c].prog # <<>> /\ Head(job[c].prog).do = name
    BY <1>2 DEF JobFits, Left, Now, Busy
<1>4. CASE leg = "done"
  <2>1. job[c].prog = Erasing(out)
      BY <1>3, <1>4, Programs
  <2>2. Head(job[c].prog) = Erase(out) /\ Tail(job[c].prog) = <<>>
      BY <1>3, <2>1, Erasings
  <2>3. Erase(out).do = "erase" /\ Erase(out).arg = out
      BY StepsTyped DEF Erase, StepNames
  <2> QED BY <1>2, <1>3, <1>4, <2>2, <2>3 DEF Arg, Rest, Before
<1>5. CASE leg # "done"
  <2>1. Head(job[c].prog) = FirstStep(leg, put) /\ Rest(c) = Lead(NextStage(leg), put) \o Erasing(out)
      BY <1>3, <1>5, Programs DEF Rest
  <2>2. /\ Embed.do = "embed" /\ Upsert(put).do = "upsert" /\ Upsert(put).arg = put /\ Step("drop", {}).do = "drop"
        /\ Step("read", {}).do = "read" /\ Step("fill", {}).do = "fill"
      BY StepsTyped DEF Embed, Upsert, StepNames
  <2>3. /\ name = "embed" => leg \in {"embed", "refill"}
        /\ name = "upsert" => leg = "upsert" /\ Arg(c) = put
        /\ name = "drop" => leg \in {"drop", "begin", "clear"}
        /\ name = "read" => leg = "read"
        /\ name = "fill" => leg = "fill"
        /\ name # "erase"
      BY <1>3, <1>5, <2>1, <2>2 DEF FirstStep, Stages, Arg
  <2> QED BY <1>2, <1>5, <2>1, <2>3 DEF Before
<1> QED BY <1>4, <1>5

LEMMA BlankTyped == NoMemory \in MemRow /\ NoVector \in VectorRow /\ NoJob \in JobRow
<1>1. NoMemory \in MemRow /\ NoVector \in VectorRow
    BY MemoryAssumption DEF MemRow, NoMemory, VectorRow, NoVector
<1>2. <<>> \in Seq(StepRow)
    OBVIOUS
<1> HIDE DEF MemRow, StepRow
<1> QED BY <1>1, <1>2 DEF NoJob, JobRow, MemRows

LEMMA EndedFacts ==
    ASSUME MemTypes, NEW c \in MemoryClient, job' = Ended(c), Rest(c) \in Seq(StepRow)
    PROVE  /\ job' \in [MemoryClient -> JobRow]
           /\ \A o \in MemoryClient \ {c} : job'[o] = job[o]
           /\ Rest(c) = <<>> => job'[c].prog = <<>> /\ job'[c].wrote = {}
           /\ Rest(c) # <<>> => job'[c].prog = Rest(c) /\ job'[c].wrote = job[c].wrote /\ job'[c].clean = job[c].clean /\ job'[c].rows = job[c].rows
<1>1. job \in [MemoryClient -> JobRow] /\ job[c] \in JobRow
    BY DEF MemTypes
<1>2. job'[c] = IF Rest(c) = <<>> THEN NoJob ELSE [job[c] EXCEPT !.prog = Rest(c)]
    BY <1>1 DEF Ended
<1>3. \A o \in MemoryClient \ {c} : job'[o] = job[o]
    BY <1>1 DEF Ended
<1> HIDE DEF StepRow, MemRows
<1>4. job'[c] \in JobRow
    BY <1>1, <1>2, BlankTyped DEF JobRow
<1>5. job' = [job EXCEPT ![c] = job'[c]]
    BY <1>1, <1>2 DEF Ended
<1>6. job' \in [MemoryClient -> JobRow]
  <2> HIDE DEF JobRow
  <2> QED BY <1>1, <1>4, <1>5
<1>7. Rest(c) # <<>> => job'[c].prog = Rest(c) /\ job'[c].wrote = job[c].wrote /\ job'[c].clean = job[c].clean /\ job'[c].rows = job[c].rows
    BY <1>1, <1>2 DEF JobRow
<1>8. Rest(c) = <<>> => job'[c].prog = <<>> /\ job'[c].wrote = {}
    BY <1>2 DEF NoJob
<1> QED BY <1>3, <1>6, <1>7, <1>8

LEMMA VectorTyped == \A r \in MemRow : memory_vector_text(r) \in VectorRow
BY DEF MemRow, memory_vector_text, VectorRow

LEMMA StoredTyped == ASSUME MemTypes, NEW c \in MemoryClient, NEW ids PROVE Stored(c, ids) \in [MemoryId -> VectorRow]
<1>1. job[c].rows \in MemRows /\ vectors \in [MemoryId -> VectorRow]
    BY DEF MemTypes, JobRow
<1> QED BY <1>1, VectorTyped DEF Stored, MemRows

(* Outcomes *)
LEMMA AtEmbed ==
    ASSUME NEW put, NEW out, NEW table, NEW e, NEW v, NEW r
    PROVE  Outcome("embed", put, out, table, e, v, r) = IF e \in out THEN NoVector ELSE IF e \in put THEN memory_vector_text(table[e]) ELSE v
BY DEF Outcome

LEMMA AtUpsert ==
    ASSUME NEW put, NEW out, NEW table, NEW e, NEW v, NEW r
    PROVE  Outcome("upsert", put, out, table, e, v, r) = IF e \in out THEN NoVector ELSE IF e \in put THEN memory_vector_text(table[e]) ELSE v
BY DEF Outcome

LEMMA AtDrop ==
    ASSUME NEW put, NEW out, NEW table, NEW e, NEW v, NEW r
    PROVE  Outcome("drop", put, out, table, e, v, r) = IF e \in out THEN NoVector ELSE VectorOf(r)
BY DEF Outcome

LEMMA AtRead ==
    ASSUME NEW put, NEW out, NEW table, NEW e, NEW v, NEW r
    PROVE  Outcome("read", put, out, table, e, v, r) = IF e \in out THEN NoVector ELSE IF r.in THEN memory_vector_text(r) ELSE v
BY DEF Outcome

LEMMA AtDropAll ==
    ASSUME NEW put, NEW out, NEW table, NEW e, NEW v, NEW r
    PROVE  Outcome("begin", put, out, table, e, v, r)
           = IF e \in out THEN NoVector ELSE IF table[e].in THEN memory_vector_text(table[e]) ELSE NoVector
BY DEF Outcome, VectorOf

LEMMA AtRefill ==
    ASSUME NEW put, NEW out, NEW table, NEW e, NEW v, NEW r
    PROVE  Outcome("refill", put, out, table, e, v, r) = IF e \in out THEN NoVector ELSE IF table[e].in THEN memory_vector_text(table[e]) ELSE v
BY DEF Outcome

LEMMA AtFill ==
    ASSUME NEW put, NEW out, NEW table, NEW e, NEW v, NEW r
    PROVE  Outcome("fill", put, out, table, e, v, r) = IF e \in out THEN NoVector ELSE IF table[e].in THEN memory_vector_text(table[e]) ELSE v
BY DEF Outcome

LEMMA AtClear ==
    ASSUME NEW put, NEW out, NEW table, NEW e, NEW v, NEW r
    PROVE  Outcome("clear", put, out, table, e, v, r) = IF e \in out THEN NoVector ELSE NoVector
BY DEF Outcome

LEMMA AtDone ==
    ASSUME NEW put, NEW out, NEW table, NEW e, NEW v, NEW r
    PROVE  Outcome("done", put, out, table, e, v, r) = IF e \in out THEN NoVector ELSE v
BY DEF Outcome

LEMMA StageNames ==
    /\ \A s \in {"embed", "upsert", "drop", "read", "begin", "refill", "fill", "clear", "done"} : s \in Stages
    /\ \A s \in {"embed", "upsert", "clear", "done"} : s \notin Filling
    /\ \A s \in {"drop", "read", "begin", "refill", "fill"} : s \in Filling
    /\ NextStage("embed") = "upsert" /\ NextStage("upsert") = "done" /\ NextStage("drop") = "read" /\ NextStage("read") = "refill"
    /\ NextStage("begin") = "refill" /\ NextStage("refill") = "fill" /\ NextStage("fill") = "done" /\ NextStage("clear") = "done"
BY DEF Stages, Filling, NextStage

LEMMA EmptyFits == ASSUME NEW S, NEW T \in SUBSET S PROVE {} \in SUBSET T
OBVIOUS

(* Ending or going on.                                                       *)
LEMMA StepEnds ==
    ASSUME MemTypes, MemCore, NEW c \in MemoryClient, NEW leg \in Stages, NEW put \in SUBSET MemoryId, NEW out \in SUBSET MemoryId,
           JobFits(c, leg, put, out), remembered' = remembered,
           \A o \in MemoryClient \ {c} : job'[o] = job[o],
           \A e \in MemoryId \ job[c].wrote : vectors'[e] = vectors[e],
           loose' = loose \/ (leg \in Filling /\ job[c].clean /\ loose' = {}),
           job'[c].prog = <<>> /\ job'[c].wrote = {},
           \A e \in job[c].wrote : vectors'[e] = Outcome(leg, put, out, job[c].rows, e, vectors[e], remembered[e])
    PROVE  MemCore'
BY StoreKeeps

\* The step leads the job from one stage to another, towards the same outcome.
GoesOn(c, leg, put, out, next, rest) ==
    /\ leg \in Stages /\ put \in SUBSET MemoryId /\ out \in SUBSET MemoryId /\ JobFits(c, leg, put, out)
    /\ next \in Stages /\ rest \in SUBSET out /\ (next \in Filling => leg \in Filling) /\ next # "clear"
    /\ Rest(c) = Lead(next, put) \o Erasing(rest)
    /\ \A e \in job[c].wrote : Outcome(next, put, rest, job[c].rows, e, vectors'[e], remembered[e])
                               = Outcome(leg, put, out, job[c].rows, e, vectors[e], remembered[e])

LEMMA StepKeeps ==
    ASSUME MemTypes, MemCore, NEW c \in MemoryClient, NEW leg, NEW put, NEW out, NEW next, NEW rest,
           GoesOn(c, leg, put, out, next, rest), remembered' = remembered, job' = Ended(c),
           \A e \in MemoryId \ job[c].wrote : vectors'[e] = vectors[e],
           loose' = loose \/ (leg \in Filling /\ job[c].clean /\ loose' = {})
    PROVE  MemCore' /\ job' \in [MemoryClient -> JobRow]
<1>0. /\ leg \in Stages /\ put \in SUBSET MemoryId /\ out \in SUBSET MemoryId /\ JobFits(c, leg, put, out)
      /\ next \in Stages /\ rest \in SUBSET out /\ (next \in Filling => leg \in Filling) /\ next # "clear"
      /\ Rest(c) = Lead(next, put) \o Erasing(rest) /\ rest \in SUBSET MemoryId
      /\ \A e \in job[c].wrote : Outcome(next, put, rest, job[c].rows, e, vectors'[e], remembered[e])
                               = Outcome(leg, put, out, job[c].rows, e, vectors[e], remembered[e])
    BY DEF GoesOn
<1>1. Rest(c) \in Seq(StepRow)
    BY <1>0, Programs
<1>2. /\ job' \in [MemoryClient -> JobRow]
      /\ \A o \in MemoryClient \ {c} : job'[o] = job[o]
      /\ Rest(c) = <<>> => job'[c].prog = <<>> /\ job'[c].wrote = {}
      /\ Rest(c) # <<>> => job'[c].prog = Rest(c) /\ job'[c].wrote = job[c].wrote /\ job'[c].clean = job[c].clean /\ job'[c].rows = job[c].rows
    BY <1>1, EndedFacts
<1>3. CASE Rest(c) # <<>>
  <2>1. /\ job'[c].prog # <<>> /\ job'[c].wrote = job[c].wrote /\ job'[c].clean = job[c].clean /\ Left(job'[c], next, put, rest)
        /\ \A e \in job[c].wrote : Outcome(next, put, rest, job'[c].rows, e, vectors'[e], remembered[e])
                                         = Outcome(leg, put, out, job[c].rows, e, vectors[e], remembered[e])
      BY <1>0, <1>2, <1>3 DEF Left
  <2>2. MemCore'
    <3>1. \E nxt \in Stages, rst \in SUBSET out :
             /\ (nxt \in Filling => leg \in Filling) /\ nxt # "clear" /\ Left(job'[c], nxt, put, rst)
             /\ \A e \in job[c].wrote : Outcome(nxt, put, rst, job'[c].rows, e, vectors'[e], remembered[e])
                                        = Outcome(leg, put, out, job[c].rows, e, vectors[e], remembered[e])
        BY <1>0, <2>1
    <3> QED BY <1>0, <1>2, <2>1, <3>1, StoreKeeps
  <2> QED BY <1>2, <2>2
<1>4. CASE Rest(c) = <<>>
  <2>1. next = "done" /\ rest = {}
    <3>1. rest \in SUBSET MemoryId
        BY <1>0
    <3>2. next # "done" => Lead(next, put) \o Erasing(rest) # <<>>
        BY <1>0, <3>1, Programs
    <3>3. next = "done" => Lead(next, put) \o Erasing(rest) = Erasing(rest)
        BY <1>0, <3>1, Programs
    <3>4. rest # {} => Erasing(rest) # <<>>
        BY <3>1, Erasings
    <3> QED BY <1>0, <1>4, <3>2, <3>3, <3>4
  <2>2. job'[c].prog = <<>> /\ job'[c].wrote = {}
      BY <1>2, <1>4
  <2>3. ASSUME NEW e \in job[c].wrote PROVE vectors'[e] = Outcome(leg, put, out, job[c].rows, e, vectors[e], remembered[e])
    <3>1. e \notin rest
        BY <2>1
    <3>2. Outcome("done", put, rest, job[c].rows, e, vectors'[e], remembered[e]) = vectors'[e]
        BY <3>1, AtDone
    <3> QED BY <1>0, <2>1, <3>2
  <2>4. MemCore'
      BY <1>0, <1>2, <2>2, <2>3, StepEnds
  <2> QED BY <1>2, <2>4
<1> QED BY <1>3, <1>4

MemStoreStep(c) == embed(c) \/ upsert(c) \/ erase(c) \/ drop_collection(c) \/ read_rows(c) \/ fill_collection(c)

LEMMA EmbedKeeps ==
    ASSUME MemTypes, MemCore, NEW c \in MemoryClient, embed(c)
    PROVE  MemCore' /\ job' \in [MemoryClient -> JobRow]
<1>1. Now(c, "embed") /\ job' = Ended(c) /\ vectors' = vectors /\ loose' = loose /\ remembered' = remembered
    BY DEF embed
<1>2. "embed" \in StepNames \ {"review", "search"}
    BY DEF StepNames
<1>3. PICK leg \in Stages, put \in SUBSET MemoryId, out \in SUBSET MemoryId : Before(c, "embed", leg, put, out)
    BY <1>1, <1>2, JobAt
<1>4. leg \in {"embed", "refill"} /\ JobFits(c, leg, put, out) /\ Rest(c) = Lead(NextStage(leg), put) \o Erasing(out)
    BY <1>3 DEF Before
<1>5. out \in SUBSET out
    OBVIOUS
<1>6. CASE leg = "embed"
  <2>1. "embed" \in Stages /\ "upsert" \in Stages /\ "upsert" \notin Filling /\ "upsert" # "clear" /\ NextStage("embed") = "upsert"
      BY DEF Stages, Filling, NextStage
  <2>2. \A e \in job[c].wrote : Outcome("upsert", put, out, job[c].rows, e, vectors'[e], remembered[e])
                                = Outcome("embed", put, out, job[c].rows, e, vectors[e], remembered[e])
      BY <1>1, AtEmbed, AtUpsert
  <2>3. GoesOn(c, leg, put, out, "upsert", out)
      BY <1>4, <1>5, <1>6, <2>1, <2>2 DEF GoesOn
  <2> QED BY <1>1, <1>4, <1>5, <2>1, <2>3, StepKeeps
<1>7. CASE leg = "refill"
  <2>1. "refill" \in Stages /\ "fill" \in Stages /\ "refill" \in Filling /\ "fill" # "clear" /\ NextStage("refill") = "fill"
      BY DEF Stages, Filling, NextStage
  <2>2. \A e \in job[c].wrote : Outcome("fill", put, out, job[c].rows, e, vectors'[e], remembered[e])
                                = Outcome("refill", put, out, job[c].rows, e, vectors[e], remembered[e])
      BY <1>1, AtFill, AtRefill
  <2>3. GoesOn(c, leg, put, out, "fill", out)
      BY <1>4, <1>5, <1>7, <2>1, <2>2 DEF GoesOn
  <2> QED BY <1>1, <1>4, <1>5, <2>1, <2>3, StepKeeps
<1> QED BY <1>4, <1>6, <1>7

LEMMA UpsertKeeps ==
    ASSUME MemTypes, MemCore, NEW c \in MemoryClient, upsert(c)
    PROVE  MemCore' /\ job' \in [MemoryClient -> JobRow] /\ vectors' \in [MemoryId -> VectorRow]
<1>1. Now(c, "upsert") /\ job' = Ended(c) /\ vectors' = Stored(c, Arg(c)) /\ loose' = loose /\ remembered' = remembered
    BY DEF upsert
<1>2. "upsert" \in StepNames \ {"review", "search"}
    BY DEF StepNames
<1>3. PICK leg \in Stages, put \in SUBSET MemoryId, out \in SUBSET MemoryId : Before(c, "upsert", leg, put, out)
    BY <1>1, <1>2, JobAt
<1>4. leg = "upsert" /\ Arg(c) = put /\ JobFits(c, leg, put, out) /\ Rest(c) = Lead(NextStage(leg), put) \o Erasing(out)
    BY <1>3 DEF Before
<1>5. out \in SUBSET out /\ put \subseteq job[c].wrote /\ job[c].wrote \in SUBSET MemoryId
    BY <1>4 DEF JobFits, MemTypes, JobRow
<1>6. \A e \in MemoryId : vectors'[e] = IF e \in put THEN memory_vector_text(job[c].rows[e]) ELSE vectors[e]
    BY <1>1, <1>4 DEF Stored
<1>7. "upsert" \in Stages /\ "done" \in Stages /\ "done" \notin Filling /\ "done" # "clear" /\ NextStage("upsert") = "done"
    BY DEF Stages, Filling, NextStage
<1>8. \A e \in job[c].wrote : Outcome("done", put, out, job[c].rows, e, vectors'[e], remembered[e])
                              = Outcome("upsert", put, out, job[c].rows, e, vectors[e], remembered[e])
    BY <1>5, <1>6, AtDone, AtUpsert
<1>9. \A e \in MemoryId \ job[c].wrote : vectors'[e] = vectors[e]
    BY <1>5, <1>6
<1>10. GoesOn(c, leg, put, out, "done", out)
    BY <1>4, <1>5, <1>7, <1>8 DEF GoesOn
<1>11. vectors' \in [MemoryId -> VectorRow]
    BY <1>1, StoredTyped
<1> QED BY <1>1, <1>7, <1>9, <1>10, <1>11, StepKeeps

LEMMA EraseKeeps ==
    ASSUME MemTypes, MemCore, NEW c \in MemoryClient, erase(c)
    PROVE  MemCore' /\ job' \in [MemoryClient -> JobRow] /\ vectors' \in [MemoryId -> VectorRow]
<1>1. Now(c, "erase") /\ job' = Ended(c) /\ loose' = loose /\ remembered' = remembered
      /\ vectors' = [e \in MemoryId |-> IF e \in Arg(c) THEN NoVector ELSE vectors[e]]
    BY DEF erase
<1>2. "erase" \in StepNames \ {"review", "search"}
    BY DEF StepNames
<1>3. PICK leg \in Stages, put \in SUBSET MemoryId, out \in SUBSET MemoryId : Before(c, "erase", leg, put, out)
    BY <1>1, <1>2, JobAt
<1>4. leg = "done" /\ Arg(c) = out /\ JobFits(c, leg, put, out) /\ Rest(c) = <<>>
    BY <1>3 DEF Before
<1>5. out \subseteq job[c].wrote /\ job[c].wrote \in SUBSET MemoryId
    BY <1>4 DEF JobFits, MemTypes, JobRow
<1>6. \A e \in MemoryId : vectors'[e] = IF e \in out THEN NoVector ELSE vectors[e]
    BY <1>1, <1>4
<1>7. \A e \in job[c].wrote : vectors'[e] = Outcome("done", put, out, job[c].rows, e, vectors[e], remembered[e])
    BY <1>5, <1>6, AtDone
<1>8. \A e \in MemoryId \ job[c].wrote : vectors'[e] = vectors[e]
    BY <1>5, <1>6
<1>9. Rest(c) \in Seq(StepRow)
    BY <1>4
<1>10. job' \in [MemoryClient -> JobRow] /\ (\A o \in MemoryClient \ {c} : job'[o] = job[o]) /\ job'[c].prog = <<>> /\ job'[c].wrote = {}
    BY <1>1, <1>4, <1>9, EndedFacts
<1>11. vectors' \in [MemoryId -> VectorRow]
    BY <1>1, BlankTyped DEF MemTypes
<1> QED BY <1>1, <1>4, <1>7, <1>8, <1>10, <1>11, StepEnds

LEMMA DropKeeps ==
    ASSUME MemTypes, MemCore, NEW c \in MemoryClient, drop_collection(c)
    PROVE  MemCore' /\ job' \in [MemoryClient -> JobRow] /\ vectors' \in [MemoryId -> VectorRow]
<1>1. Now(c, "drop") /\ job' = Ended(c) /\ vectors' = [e \in MemoryId |-> NoVector] /\ loose' = loose /\ remembered' = remembered
    BY DEF drop_collection
<1>2. "drop" \in StepNames \ {"review", "search"}
    BY DEF StepNames
<1>3. PICK leg \in Stages, put \in SUBSET MemoryId, out \in SUBSET MemoryId : Before(c, "drop", leg, put, out)
    BY <1>1, <1>2, JobAt
<1>4. leg \in {"drop", "begin", "clear"} /\ JobFits(c, leg, put, out) /\ Rest(c) = Lead(NextStage(leg), put) \o Erasing(out)
    BY <1>3 DEF Before
<1>5. out \in SUBSET out /\ job[c].wrote = MemoryId
    BY <1>4 DEF JobFits, Filling
<1>6. \A e \in MemoryId : vectors'[e] = NoVector
    BY <1>1
<1>7. vectors' \in [MemoryId -> VectorRow]
    BY <1>1, BlankTyped
<1>8. \A e \in MemoryId \ job[c].wrote : vectors'[e] = vectors[e]
    BY <1>5
<1>9. CASE leg = "drop"
  <2>1. "drop" \in Stages /\ "read" \in Stages /\ "drop" \in Filling /\ "read" # "clear" /\ NextStage("drop") = "read"
      BY DEF Stages, Filling, NextStage
  <2>2. \A e \in job[c].wrote : Outcome("read", put, out, job[c].rows, e, vectors'[e], remembered[e])
                                = Outcome("drop", put, out, job[c].rows, e, vectors[e], remembered[e])
      BY <1>5, <1>6, AtRead, AtDrop DEF VectorOf
  <2>3. GoesOn(c, leg, put, out, "read", out)
      BY <1>4, <1>5, <1>9, <2>1, <2>2 DEF GoesOn
  <2> QED BY <1>1, <1>4, <1>5, <1>7, <1>8, <2>1, <2>3, StepKeeps
<1>10. CASE leg = "begin"
  <2>1. "begin" \in Stages /\ "refill" \in Stages /\ "begin" \in Filling /\ "refill" # "clear" /\ NextStage("begin") = "refill"
      BY DEF Stages, Filling, NextStage
  <2>2. \A e \in job[c].wrote : Outcome("refill", put, out, job[c].rows, e, vectors'[e], remembered[e])
                                = Outcome("begin", put, out, job[c].rows, e, vectors[e], remembered[e])
    <3> SUFFICES ASSUME NEW e \in job[c].wrote
                 PROVE  Outcome("refill", put, out, job[c].rows, e, vectors'[e], remembered[e])
                        = Outcome("begin", put, out, job[c].rows, e, vectors[e], remembered[e])
        OBVIOUS
    <3>1. Outcome("refill", put, out, job[c].rows, e, vectors'[e], remembered[e])
          = IF e \in out THEN NoVector ELSE IF job[c].rows[e].in THEN memory_vector_text(job[c].rows[e]) ELSE vectors'[e]
        BY AtRefill
    <3>2. Outcome("begin", put, out, job[c].rows, e, vectors[e], remembered[e])
          = IF e \in out THEN NoVector ELSE IF job[c].rows[e].in THEN memory_vector_text(job[c].rows[e]) ELSE NoVector
        BY AtDropAll
    <3>3. vectors'[e] = NoVector
        BY <1>5, <1>6
    <3> QED BY <3>1, <3>2, <3>3
  <2>3. GoesOn(c, leg, put, out, "refill", out)
      BY <1>4, <1>5, <1>10, <2>1, <2>2 DEF GoesOn
  <2> QED BY <1>1, <1>4, <1>5, <1>7, <1>8, <2>1, <2>3, StepKeeps
<1>11. CASE leg = "clear"
  <2>1. "clear" \in Stages /\ "done" \in Stages /\ "done" \notin Filling /\ "done" # "clear" /\ NextStage("clear") = "done"
      BY DEF Stages, Filling, NextStage
  <2>2. \A e \in job[c].wrote : Outcome("done", put, out, job[c].rows, e, vectors'[e], remembered[e])
                                = Outcome("clear", put, out, job[c].rows, e, vectors[e], remembered[e])
      BY <1>5, <1>6, AtDone, AtClear
  <2>3. GoesOn(c, leg, put, out, "done", out)
      BY <1>4, <1>5, <1>11, <2>1, <2>2 DEF GoesOn
  <2> QED BY <1>1, <1>4, <1>5, <1>7, <1>8, <2>1, <2>3, StepKeeps
<1> QED BY <1>4, <1>9, <1>10, <1>11

LEMMA ReadKeeps ==
    ASSUME MemTypes, MemCore, NEW c \in MemoryClient, read_rows(c)
    PROVE  MemCore' /\ job' \in [MemoryClient -> JobRow]
<1>1. Now(c, "read") /\ job' = [job EXCEPT ![c].rows = remembered, ![c].prog = Rest(c)] /\ vectors' = vectors /\ loose' = loose /\ remembered' = remembered
    BY DEF read_rows
<1>2. "read" \in StepNames \ {"review", "search"}
    BY DEF StepNames
<1>3. PICK leg \in Stages, put \in SUBSET MemoryId, out \in SUBSET MemoryId : Before(c, "read", leg, put, out)
    BY <1>1, <1>2, JobAt
<1>4. leg = "read" /\ JobFits(c, leg, put, out) /\ Rest(c) = Lead(NextStage(leg), put) \o Erasing(out) /\ NextStage("read") = "refill"
    BY <1>3 DEF Before, NextStage
<1>5. "read" \in Stages /\ "refill" \in Stages /\ "read" \in Filling /\ "refill" # "clear" /\ "refill" # "done" /\ out \in SUBSET out
    BY DEF Stages, Filling
<1>6. Rest(c) \in Seq(StepRow) /\ Rest(c) # <<>>
    BY <1>4, <1>5, Programs
<1>7. job \in [MemoryClient -> JobRow] /\ remembered \in MemRows /\ job[c] \in JobRow
    BY DEF MemTypes
<1>8. job'[c] = [job[c] EXCEPT !.rows = remembered, !.prog = Rest(c)] /\ \A o \in MemoryClient \ {c} : job'[o] = job[o]
    BY <1>1, <1>7 DEF JobRow
<1>9. job'[c] \in JobRow /\ job'[c].prog = Rest(c) /\ job'[c].rows = remembered /\ job'[c].wrote = job[c].wrote /\ job'[c].clean = job[c].clean
  <2> HIDE DEF StepRow, MemRows
  <2> QED BY <1>6, <1>7, <1>8 DEF JobRow
<1>10. job' \in [MemoryClient -> JobRow]
  <2>1. DOMAIN job' = MemoryClient /\ job' = [o \in MemoryClient |-> job'[o]]
      BY <1>1, <1>7
  <2> HIDE DEF JobRow
  <2> QED BY <1>7, <1>8, <1>9, <2>1
<1>11. \A e \in job[c].wrote : Outcome("refill", put, out, job'[c].rows, e, vectors'[e], remembered[e])
                               = Outcome("read", put, out, job[c].rows, e, vectors[e], remembered[e])
    BY <1>1, <1>9, AtRead, AtRefill
<1>12. Left(job'[c], "refill", put, out)
    BY <1>4, <1>9 DEF Left
<1>13. \E next \in Stages, rest \in SUBSET out :
           /\ (next \in Filling => leg \in Filling) /\ next # "clear" /\ Left(job'[c], next, put, rest)
           /\ \A e \in job[c].wrote : Outcome(next, put, rest, job'[c].rows, e, vectors'[e], remembered[e])
                                      = Outcome(leg, put, out, job[c].rows, e, vectors[e], remembered[e])
    BY <1>4, <1>5, <1>11, <1>12
<1>14. job'[c].prog # <<>> /\ job'[c].wrote = job[c].wrote /\ job'[c].clean = job[c].clean
    BY <1>6, <1>9
<1>15. MemCore'
    BY <1>1, <1>4, <1>8, <1>13, <1>14, StoreKeeps
<1> QED BY <1>10, <1>15

LEMMA FillKeeps ==
    ASSUME MemTypes, MemCore, NEW c \in MemoryClient, fill_collection(c)
    PROVE  MemCore' /\ job' \in [MemoryClient -> JobRow] /\ vectors' \in [MemoryId -> VectorRow]
<1>1. Now(c, "fill") /\ job' = Ended(c) /\ vectors' = Stored(c, Kept(job[c].rows)) /\ loose' = (IF job[c].clean THEN {} ELSE loose) /\ remembered' = remembered
    BY DEF fill_collection
<1>2. "fill" \in StepNames \ {"review", "search"}
    BY DEF StepNames
<1>3. PICK leg \in Stages, put \in SUBSET MemoryId, out \in SUBSET MemoryId : Before(c, "fill", leg, put, out)
    BY <1>1, <1>2, JobAt
<1>4. leg = "fill" /\ JobFits(c, leg, put, out) /\ Rest(c) = Lead(NextStage(leg), put) \o Erasing(out)
    BY <1>3 DEF Before
<1>5. "fill" \in Stages /\ "done" \in Stages /\ "fill" \in Filling /\ "done" # "clear" /\ NextStage("fill") = "done" /\ out \in SUBSET out
    BY DEF Stages, Filling, NextStage
<1>6. job[c].wrote = MemoryId
    BY <1>4, <1>5 DEF JobFits
<1>7. \A e \in MemoryId : vectors'[e] = IF job[c].rows[e].in THEN memory_vector_text(job[c].rows[e]) ELSE vectors[e]
    BY <1>1 DEF Stored, Kept
<1>8. \A e \in job[c].wrote : Outcome("done", put, out, job[c].rows, e, vectors'[e], remembered[e])
                              = Outcome("fill", put, out, job[c].rows, e, vectors[e], remembered[e])
    BY <1>6, <1>7, AtDone, AtFill
<1>9. \A e \in MemoryId \ job[c].wrote : vectors'[e] = vectors[e]
    BY <1>6
<1>10. GoesOn(c, leg, put, out, "done", out)
    BY <1>4, <1>5, <1>8 DEF GoesOn
<1>11. vectors' \in [MemoryId -> VectorRow]
    BY <1>1, StoredTyped
<1>12. loose' = loose \/ (leg \in Filling /\ job[c].clean /\ loose' = {})
    BY <1>1, <1>4, <1>5
<1> QED BY <1>1, <1>9, <1>10, <1>11, <1>12, StepKeeps

LEMMA MemStoreStepKeeps == ASSUME MemTypes, MemCore, NEW c \in MemoryClient, MemStoreStep(c) PROVE MemTypes' /\ MemCore'
<1>1. remembered' = remembered /\ memoryCalls' = memoryCalls /\ memoryFails' = memoryFails
    BY DEF MemStoreStep, embed, upsert, erase, drop_collection, read_rows, fill_collection
<1>2. loose' \in SUBSET MemoryId
    BY DEF MemStoreStep, embed, upsert, erase, drop_collection, read_rows, fill_collection, MemTypes
<1>3. ASSUME embed(c) \/ read_rows(c) PROVE vectors' = vectors
    BY <1>3 DEF embed, read_rows
<1>4. MemCore' /\ job' \in [MemoryClient -> JobRow] /\ vectors' \in [MemoryId -> VectorRow]
    BY <1>3, EmbedKeeps, UpsertKeeps, EraseKeeps, DropKeeps, ReadKeeps, FillKeeps DEF MemStoreStep, MemTypes
<1> QED BY <1>1, <1>2, <1>4 DEF MemTypes

(* Failures.                                                                 *)
LEMMA FailStepKeeps == ASSUME MemTypes, MemCore, NEW c \in MemoryClient, fail(c) PROVE MemTypes' /\ MemCore'
<1>1. /\ Busy(c) /\ Head(job[c].prog).do \in {"embed", "upsert", "erase", "drop", "fill"}
      /\ memoryFails < MaxMemoryFails /\ memoryFails' = memoryFails + 1 /\ memoryCalls' = memoryCalls
      /\ loose' = loose \cup job[c].wrote /\ remembered' = remembered /\ vectors' = vectors
    BY DEF fail
<1>2. job \in [MemoryClient -> JobRow] /\ job[c] \in JobRow /\ job[c].wrote \in SUBSET MemoryId
    BY DEF MemTypes, JobRow
<1>3. ASSUME MemCore', job' \in [MemoryClient -> JobRow] PROVE MemTypes' /\ MemCore'
  <2>1. memoryFails' \in 0..MaxMemoryFails
      BY <1>1, MemoryAssumption DEF MemTypes
  <2> QED BY <1>1, <1>2, <1>3, <2>1 DEF MemTypes
<1>4. CASE Now(c, "drop") /\ Rest(c) # <<>>
  <2>1. job' = [Ended(c) EXCEPT ![c].clean = (Rest(c) = <<>>)]
      BY <1>4 DEF fail
  <2>2. "drop" \in StepNames \ {"review", "search"}
      BY DEF StepNames
  <2>3. PICK leg \in Stages, put \in SUBSET MemoryId, out \in SUBSET MemoryId : Before(c, "drop", leg, put, out)
      BY <1>4, <2>2, JobAt
  <2>4. leg \in {"drop", "begin", "clear"} /\ JobFits(c, leg, put, out) /\ Rest(c) = Lead(NextStage(leg), put) \o Erasing(out)
      BY <2>3 DEF Before
  <2>5. NextStage(leg) \in Stages /\ leg \in Filling \cup {"clear"}
      BY <2>4 DEF NextStage, Stages, Filling
  <2>6. Rest(c) \in Seq(StepRow)
      BY <2>4, <2>5, Programs
  <2>7. Ended(c) = [job EXCEPT ![c] = [job[c] EXCEPT !.prog = Rest(c)]]
      BY <1>2, <1>4 DEF Ended
  <2>8. /\ job'[c] = [[job[c] EXCEPT !.prog = Rest(c)] EXCEPT !.clean = FALSE]
        /\ \A o \in MemoryClient \ {c} : job'[o] = job[o]
        /\ DOMAIN job' = MemoryClient /\ job' = [o \in MemoryClient |-> job'[o]]
    <3> DEFINE x == Ended(c)
    <3>1. DOMAIN x = MemoryClient /\ x[c] = [job[c] EXCEPT !.prog = Rest(c)] /\ \A o \in MemoryClient \ {c} : x[o] = job[o]
        BY <1>2, <2>7
    <3>2. job' = [x EXCEPT ![c] = [x[c] EXCEPT !.clean = FALSE]]
        BY <1>4, <2>1
    <3> HIDE DEF x
    <3> QED BY <3>1, <3>2
  <2>9. job'[c] \in JobRow /\ job'[c].prog = Rest(c) /\ job'[c].wrote = job[c].wrote /\ ~job'[c].clean
    <3> HIDE DEF StepRow, MemRows
    <3> QED BY <1>2, <2>6, <2>8 DEF JobRow
  <2>10. job' \in [MemoryClient -> JobRow]
    <3> HIDE DEF JobRow
    <3> QED BY <1>2, <2>8, <2>9
  <2>11. Left(job'[c], NextStage(leg), put, out)
      BY <2>4, <2>9 DEF Left
  <2>12. \E st \in Stages, next \in Stages, pu \in SUBSET MemoryId, go \in SUBSET MemoryId :
             JobFits(c, st, pu, go) /\ Left(job'[c], next, pu, go) /\ (next \in Filling \cup {"clear"} => st \in Filling \cup {"clear"})
      BY <2>4, <2>5, <2>11
  <2>13. MemCore'
      BY <1>1, <1>4, <2>8, <2>9, <2>12, FailKeeps
  <2> QED BY <1>3, <2>10, <2>13
<1>5. CASE Now(c, "drop") /\ Rest(c) = <<>>
  <2>1. job' = [Ended(c) EXCEPT ![c].clean = (Rest(c) = <<>>)]
      BY <1>5 DEF fail
  <2>2. Ended(c) = [job EXCEPT ![c] = NoJob] /\ NoJob.clean = TRUE
      BY <1>2, <1>5 DEF Ended, NoJob
  <2>3. job'[c] = [NoJob EXCEPT !.clean = TRUE] /\ \A o \in MemoryClient \ {c} : job'[o] = job[o]
    <3> DEFINE x == Ended(c)
    <3>1. DOMAIN x = MemoryClient /\ x[c] = NoJob /\ \A o \in MemoryClient \ {c} : x[o] = job[o]
        BY <1>2, <2>2
    <3>2. job' = [x EXCEPT ![c] = [x[c] EXCEPT !.clean = TRUE]]
        BY <1>5, <2>1
    <3> HIDE DEF x
    <3> QED BY <3>1, <3>2
  <2>4. job'[c] = NoJob
      BY <2>3 DEF NoJob
  <2>5. DOMAIN job' = MemoryClient /\ job' = [o \in MemoryClient |-> job'[o]]
    <3> DEFINE x == Ended(c)
    <3>1. DOMAIN x = MemoryClient
        BY <1>2, <2>2
    <3>2. job' = [x EXCEPT ![c] = [x[c] EXCEPT !.clean = TRUE]]
        BY <1>5, <2>1
    <3> HIDE DEF x
    <3> QED BY <3>1, <3>2
  <2>6. job' \in [MemoryClient -> JobRow]
    <3> HIDE DEF JobRow
    <3> QED BY <1>2, <2>3, <2>4, <2>5, BlankTyped
  <2>7. job'[c].prog = <<>> /\ job'[c].wrote = {}
      BY <2>4 DEF NoJob
  <2>8. MemCore'
      BY <1>1, <2>3, <2>7, FailKeeps
  <2> QED BY <1>3, <2>6, <2>8
<1>6. CASE ~Now(c, "drop")
  <2>1. job' = [job EXCEPT ![c] = NoJob]
      BY <1>6 DEF fail
  <2>2. job' \in [MemoryClient -> JobRow]
    <3> HIDE DEF JobRow
    <3> QED BY <1>2, <2>1, BlankTyped
  <2>3. (\A o \in MemoryClient \ {c} : job'[o] = job[o]) /\ job'[c].prog = <<>> /\ job'[c].wrote = {}
      BY <1>2, <2>1 DEF NoJob
  <2>4. MemCore'
      BY <1>1, <2>3, FailKeeps
  <2> QED BY <1>3, <2>2, <2>4
<1> QED BY <1>4, <1>5, <1>6

(* Commits.                                                                  *)
LEMMA BeginFacts == ASSUME MemTypes, MemCore, NEW c \in MemoryClient, Begin(c) PROVE job[c].wrote = {} /\ memoryCalls' \in 0..MaxMemoryCalls
<1>1. job[c].wrote = {}
    BY DEF Begin, MemCore, MemJobs, Reading
<1>2. memoryCalls \in 0..MaxMemoryCalls /\ memoryCalls < MaxMemoryCalls /\ memoryCalls' = memoryCalls + 1
    BY DEF Begin, MemTypes
<1> QED BY <1>1, <1>2, MemoryAssumption

LEMMA RowTyped == \A t \in Texts, y \in Types, p \in MemoryPath : Row(t, y, p) \in MemRow /\ Row(t, y, p).in /\ Row(t, y, p).text = t /\ Row(t, y, p).path = p
BY DEF Row, MemRow

\* What a commit says it will do leaves what it writes as the rows are.
WritesAs(prog, ids, table) ==
    \E leg \in Stages, put, out \in SUBSET ids :
        /\ prog = Lead(leg, put) \o Erasing(out) /\ (leg \in Filling \cup {"clear"} => ids = MemoryId)
        /\ \A e \in out : ~remembered'[e].in
        /\ \A e \in ids : Outcome(leg, put, out, table, e, vectors[e], remembered'[e]) = VectorOf(remembered'[e])

LEMMA CommitKeeps ==
    ASSUME MemTypes, MemCore, NEW c \in MemoryClient, NEW ids \in SUBSET MemoryId, NEW prog, NEW table \in MemRows, Writes(c, ids, prog, table),
           job[c].wrote \subseteq ids, vectors' = vectors, remembered' \in MemRows,
           memoryCalls' \in 0..MaxMemoryCalls, memoryFails' \in 0..MaxMemoryFails,
           \A e \in MemoryId \ ids : remembered'[e] = remembered[e],
           \A e \in MemoryId : remembered'[e].in /\ ~remembered[e].in => \A o \in MemoryClient : e \notin job[o].wrote,
           \/ prog = <<>> /\ job[c].wrote = {} /\ \A e \in ids : VectorOf(remembered'[e]) = VectorOf(remembered[e])
           \/ prog # <<>> /\ WritesAs(prog, ids, table)
    PROVE  MemTypes' /\ MemCore'
<1>1. prog \in Seq(StepRow)
  <2>1. CASE prog = <<>>
      BY <2>1
  <2>2. CASE prog # <<>>
    <3>1. PICK leg \in Stages, put \in SUBSET ids, out \in SUBSET ids : prog = Lead(leg, put) \o Erasing(out)
        BY <2>2 DEF WritesAs
    <3> QED BY <3>1, Programs
  <2> QED BY <2>1, <2>2
<1>2. job' \in [MemoryClient -> JobRow] /\ loose' \in SUBSET MemoryId
    BY <1>1, WritesTyped
<1>3. MemCore'
  <2>1. prog = <<>> => job[c].wrote = {} /\ \A e \in ids : VectorOf(remembered'[e]) = VectorOf(remembered[e])
      OBVIOUS
  <2>2. prog # <<>> =>
               \E leg \in Stages, put, out \in SUBSET ids :
                   /\ prog = Lead(leg, put) \o Erasing(out) /\ (leg \in Filling \cup {"clear"} => ids = MemoryId)
                   /\ \A e \in out : ~remembered'[e].in
                   /\ \A e \in ids : Outcome(leg, put, out, table, e, vectors[e], remembered'[e]) = VectorOf(remembered'[e])
      BY DEF WritesAs
  <2> QED BY <2>1, <2>2, WritesKeep
<1> QED BY <1>2, <1>3 DEF MemTypes

LEMMA EmbedPlan == ASSUME NEW ids \in SUBSET MemoryId, \A e \in ids : remembered'[e].in
                   PROVE  <<Embed, Upsert(ids)>> # <<>> /\ WritesAs(<<Embed, Upsert(ids)>>, ids, remembered')
<1>1. <<Embed, Upsert(ids)>> = Lead("embed", ids) \o Erasing({}) /\ {} \in SUBSET MemoryId /\ {} \in SUBSET ids /\ ids \in SUBSET ids
    BY Starts
<1>2. "embed" \in Stages /\ "embed" \notin Filling \cup {"clear"}
    BY DEF Stages, Filling
<1>3. \A e \in ids : Outcome("embed", ids, {}, remembered', e, vectors[e], remembered'[e]) = VectorOf(remembered'[e])
    BY AtEmbed DEF VectorOf
<1> QED BY <1>1, <1>2, <1>3 DEF WritesAs

LEMMA ErasePlan == ASSUME NEW ids \in SUBSET MemoryId, ids # {}, \A e \in ids : ~remembered'[e].in, NEW table
                   PROVE  <<Erase(ids)>> # <<>> /\ WritesAs(<<Erase(ids)>>, ids, table)
<1>1. <<Erase(ids)>> = Lead("done", {}) \o Erasing(ids) /\ {} \in SUBSET MemoryId /\ {} \in SUBSET ids /\ ids \in SUBSET ids
    BY Starts DEF Erasing
<1>2. "done" \in Stages /\ "done" \notin Filling \cup {"clear"}
    BY DEF Stages, Filling
<1>3. \A e \in ids : Outcome("done", {}, ids, table, e, vectors[e], remembered'[e]) = VectorOf(remembered'[e])
    BY AtDone DEF VectorOf
<1> QED BY <1>1, <1>2, <1>3 DEF WritesAs

LEMMA AddKeeps == ASSUME MemTypes, MemCore, NEW c \in MemoryClient, add_memory(c) PROVE MemTypes' /\ MemCore'
<1>1. PICK t \in Texts, y \in Types, p \in MemoryPath, e \in MemoryId :
          /\ ~remembered[e].in /\ \A o \in MemoryClient : e \notin job[o].wrote
          /\ remembered' = [remembered EXCEPT ![e] = Row(t, y, p)]
          /\ Writes(c, {e}, <<Embed, Upsert({e})>>, remembered')
    BY DEF add_memory
<1>2. job[c].wrote = {} /\ memoryCalls' \in 0..MaxMemoryCalls
    BY BeginFacts DEF add_memory
<1>3. vectors' = vectors /\ memoryFails' \in 0..MaxMemoryFails
    BY DEF add_memory, Steady, MemTypes
<1>4. /\ remembered' \in MemRows /\ remembered'[e].in /\ \A x \in MemoryId \ {e} : remembered'[x] = remembered[x]
  <2>1. Row(t, y, p) \in MemRow /\ Row(t, y, p).in
      BY RowTyped
  <2> HIDE DEF MemRow
  <2> QED BY <1>1, <2>1 DEF MemTypes, MemRows
<1>5. {e} \in SUBSET MemoryId /\ \A x \in {e} : remembered'[x].in
    BY <1>4
<1>6. <<Embed, Upsert({e})>> # <<>> /\ WritesAs(<<Embed, Upsert({e})>>, {e}, remembered')
    BY <1>5, EmbedPlan
<1>7. \A x \in MemoryId : remembered'[x].in /\ ~remembered[x].in => \A o \in MemoryClient : x \notin job[o].wrote
    BY <1>1, <1>4
<1> QED BY <1>1, <1>2, <1>3, <1>4, <1>5, <1>6, <1>7, CommitKeeps

LEMMA UpdateKeeps == ASSUME MemTypes, MemCore, NEW c \in MemoryClient, update_memory_by_id(c) PROVE MemTypes' /\ MemCore'
<1>1. PICK e \in Kept(remembered), t \in Texts, y \in Types, p \in MemoryPath :
          /\ remembered' = [remembered EXCEPT ![e] = Row(t, y, p)]
          /\ IF t = remembered[e].text /\ p = remembered[e].path THEN Writes(c, {e}, <<>>, job[c].rows)
             ELSE Writes(c, {e}, <<Embed, Upsert({e})>>, remembered')
    BY DEF update_memory_by_id
<1>2. job[c].wrote = {} /\ memoryCalls' \in 0..MaxMemoryCalls
    BY BeginFacts DEF update_memory_by_id
<1>3. vectors' = vectors /\ memoryFails' \in 0..MaxMemoryFails
    BY DEF update_memory_by_id, Steady, MemTypes
<1>4. e \in MemoryId /\ remembered[e].in /\ {e} \in SUBSET MemoryId
    BY DEF Kept
<1>5. /\ remembered' \in MemRows /\ remembered'[e] = Row(t, y, p) /\ \A x \in MemoryId \ {e} : remembered'[x] = remembered[x]
  <2>1. Row(t, y, p) \in MemRow
      BY RowTyped
  <2> HIDE DEF MemRow
  <2> QED BY <1>1, <1>4, <2>1 DEF MemTypes, MemRows
<1>6. Row(t, y, p).in /\ Row(t, y, p).text = t /\ Row(t, y, p).path = p
    BY RowTyped
<1>7. \A x \in MemoryId : remembered'[x].in /\ ~remembered[x].in => \A o \in MemoryClient : x \notin job[o].wrote
    BY <1>4, <1>5
<1>8. CASE t = remembered[e].text /\ p = remembered[e].path
  <2>1. Writes(c, {e}, <<>>, job[c].rows) /\ job[c].rows \in MemRows
      BY <1>1, <1>8 DEF MemTypes, JobRow
  <2>2. \A x \in {e} : VectorOf(remembered'[x]) = VectorOf(remembered[x])
      BY <1>4, <1>5, <1>6, <1>8 DEF VectorOf, memory_vector_text
  <2>3. \A x \in MemoryId \ {e} : remembered'[x] = remembered[x]
      BY <1>5
  <2> QED BY <1>2, <1>3, <1>4, <1>5, <1>7, <2>1, <2>2, <2>3, CommitKeeps
<1>9. CASE ~(t = remembered[e].text /\ p = remembered[e].path)
  <2>1. Writes(c, {e}, <<Embed, Upsert({e})>>, remembered')
      BY <1>1, <1>9
  <2>2. \A x \in {e} : remembered'[x].in
      BY <1>5, <1>6
  <2>3. <<Embed, Upsert({e})>> # <<>> /\ WritesAs(<<Embed, Upsert({e})>>, {e}, remembered')
      BY <1>4, <2>2, EmbedPlan
  <2> QED BY <1>2, <1>3, <1>4, <1>5, <1>7, <2>1, <2>3, CommitKeeps
<1> QED BY <1>8, <1>9

LEMMA DeleteKeeps == ASSUME MemTypes, MemCore, NEW c \in MemoryClient, delete_memory_by_id(c) PROVE MemTypes' /\ MemCore'
<1>1. PICK e \in Kept(remembered) : remembered' = [remembered EXCEPT ![e] = NoMemory] /\ Writes(c, {e}, <<Erase({e})>>, job[c].rows)
    BY DEF delete_memory_by_id
<1>2. job[c].wrote = {} /\ memoryCalls' \in 0..MaxMemoryCalls
    BY BeginFacts DEF delete_memory_by_id
<1>3. vectors' = vectors /\ memoryFails' \in 0..MaxMemoryFails
    BY DEF delete_memory_by_id, Steady, MemTypes
<1>4. e \in MemoryId /\ {e} \in SUBSET MemoryId /\ {e} # {} /\ job[c].rows \in MemRows
    BY DEF Kept, MemTypes, JobRow
<1>5. /\ remembered' \in MemRows /\ remembered'[e] = NoMemory /\ \A x \in MemoryId \ {e} : remembered'[x] = remembered[x]
  <2> HIDE DEF MemRow
  <2> QED BY <1>1, <1>4, BlankTyped DEF MemTypes, MemRows
<1>6. \A x \in {e} : ~remembered'[x].in
    BY <1>5 DEF NoMemory
<1>7. \A x \in MemoryId : remembered'[x].in /\ ~remembered[x].in => \A o \in MemoryClient : x \notin job[o].wrote
    BY <1>5, <1>6
<1>8. <<Erase({e})>> # <<>> /\ WritesAs(<<Erase({e})>>, {e}, job[c].rows)
    BY <1>4, <1>6, ErasePlan
<1> QED BY <1>1, <1>2, <1>3, <1>4, <1>5, <1>7, <1>8, CommitKeeps

LEMMA ClearKeeps == ASSUME MemTypes, MemCore, NEW c \in MemoryClient, delete_memory_by_user_id(c) PROVE MemTypes' /\ MemCore'
<1>1. remembered' = [e \in MemoryId |-> NoMemory] /\ Writes(c, MemoryId, <<Step("drop", {})>>, job[c].rows)
    BY DEF delete_memory_by_user_id
<1>2. job[c].wrote = {} /\ memoryCalls' \in 0..MaxMemoryCalls
    BY BeginFacts DEF delete_memory_by_user_id
<1>3. vectors' = vectors /\ memoryFails' \in 0..MaxMemoryFails /\ job[c].rows \in MemRows /\ MemoryId \in SUBSET MemoryId
    BY DEF delete_memory_by_user_id, Steady, MemTypes, JobRow
<1>4. remembered' \in MemRows /\ \A e \in MemoryId : remembered'[e] = NoMemory /\ ~remembered'[e].in
  <2> HIDE DEF MemRow
  <2> QED BY <1>1, BlankTyped DEF MemRows, NoMemory
<1>5. <<Step("drop", {})>> = Lead("clear", {}) \o Erasing({}) /\ {} \in SUBSET MemoryId /\ "clear" \in Stages
    BY Starts DEF Stages
<1>6. \A e \in MemoryId : Outcome("clear", {}, {}, job[c].rows, e, vectors[e], remembered'[e]) = VectorOf(remembered'[e])
    BY <1>4, AtClear DEF VectorOf
<1>7. WritesAs(<<Step("drop", {})>>, MemoryId, job[c].rows)
    BY <1>5, <1>6 DEF WritesAs
<1>8. <<Step("drop", {})>> # <<>>
    OBVIOUS
<1> QED BY <1>1, <1>2, <1>3, <1>4, <1>7, <1>8, CommitKeeps

LEMMA RebuildAllKeeps == ASSUME MemTypes, MemCore, NEW c \in MemoryClient, reset_memory_from_vector_db(c) PROVE MemTypes' /\ MemCore'
<1>1. remembered' = remembered /\ Writes(c, MemoryId, reindex_memory_vectors_for_user, job[c].rows)
    BY DEF reset_memory_from_vector_db
<1>2. job[c].wrote = {} /\ memoryCalls' \in 0..MaxMemoryCalls
    BY BeginFacts DEF reset_memory_from_vector_db
<1>3. vectors' = vectors /\ memoryFails' \in 0..MaxMemoryFails /\ job[c].rows \in MemRows /\ MemoryId \in SUBSET MemoryId /\ remembered' \in MemRows
    BY <1>1 DEF reset_memory_from_vector_db, Steady, MemTypes, JobRow
<1>5. reindex_memory_vectors_for_user = Lead("drop", {}) \o Erasing({}) /\ {} \in SUBSET MemoryId /\ "drop" \in Stages /\ "drop" # "done"
    BY Starts DEF Stages
<1>6. \A e \in MemoryId : Outcome("drop", {}, {}, job[c].rows, e, vectors[e], remembered'[e]) = VectorOf(remembered'[e])
    BY AtDrop
<1>7. WritesAs(reindex_memory_vectors_for_user, MemoryId, job[c].rows)
    BY <1>5, <1>6 DEF WritesAs
<1>8. reindex_memory_vectors_for_user # <<>>
    BY <1>5, Programs
<1>9. \A e \in MemoryId : ~(remembered'[e].in /\ ~remembered[e].in) /\ remembered'[e] = remembered[e]
    BY <1>1
<1> QED BY <1>1, <1>2, <1>3, <1>7, <1>8, <1>9, CommitKeeps

LEMMA ReindexKeeps == ASSUME MemTypes, MemCore, NEW c \in MemoryClient, reindex_memories_from_vector_db(c) PROVE MemTypes' /\ MemCore'
<1> DEFINE prog == <<Step("drop", {}), Embed, Step("fill", {})>>
<1>1. remembered' = remembered /\ Writes(c, MemoryId, prog, remembered)
    BY DEF reindex_memories_from_vector_db
<1>2. job[c].wrote = {} /\ memoryCalls' \in 0..MaxMemoryCalls
    BY BeginFacts DEF reindex_memories_from_vector_db
<1>3. vectors' = vectors /\ memoryFails' \in 0..MaxMemoryFails /\ MemoryId \in SUBSET MemoryId /\ remembered' \in MemRows /\ remembered \in MemRows
    BY <1>1 DEF reindex_memories_from_vector_db, Steady, MemTypes
<1>5. prog = Lead("begin", {}) \o Erasing({}) /\ {} \in SUBSET MemoryId /\ "begin" \in Stages /\ "begin" # "done"
    BY Starts DEF Stages
<1> HIDE DEF prog
<1>6. \A e \in MemoryId : Outcome("begin", {}, {}, remembered, e, vectors[e], remembered'[e]) = VectorOf(remembered'[e])
    BY <1>1, AtDropAll DEF VectorOf
<1>7. WritesAs(prog, MemoryId, remembered)
    BY <1>5, <1>6 DEF WritesAs
<1>8. prog # <<>>
    BY <1>5, Programs
<1>9. \A e \in MemoryId : ~(remembered'[e].in /\ ~remembered[e].in) /\ remembered'[e] = remembered[e]
    BY <1>1
<1> QED BY <1>1, <1>2, <1>3, <1>7, <1>8, <1>9, CommitKeeps

LEMMA RebuildKeeps == ASSUME MemTypes, MemCore, NEW c \in MemoryClient, upsert_memory_vectors_or_reindex(c) PROVE MemTypes' /\ MemCore'
<1>1. /\ Now(c, "upsert") /\ memoryFails < MaxMemoryFails /\ memoryFails' = memoryFails + 1
      /\ Writes(c, MemoryId, reindex_memory_vectors_for_user \o Rest(c), job[c].rows)
      /\ remembered' = remembered /\ vectors' = vectors /\ memoryCalls' = memoryCalls
    BY DEF upsert_memory_vectors_or_reindex
<1>2. "upsert" \in StepNames \ {"review", "search"}
    BY DEF StepNames
<1>3. PICK leg \in Stages, put \in SUBSET MemoryId, out \in SUBSET MemoryId : Before(c, "upsert", leg, put, out)
    BY <1>1, <1>2, JobAt
<1>4. leg = "upsert" /\ JobFits(c, leg, put, out) /\ Rest(c) = Lead(NextStage(leg), put) \o Erasing(out) /\ NextStage("upsert") = "done"
    BY <1>3 DEF Before, NextStage
<1>5. Rest(c) = Erasing(out)
    BY <1>4, Starts
<1>6. reindex_memory_vectors_for_user = Lead("drop", {}) /\ "drop" \in Stages /\ "drop" # "done" /\ {} \in SUBSET MemoryId
    BY Starts DEF Lead, reindex_memory_vectors_for_user, Stages
<1>7. \A e \in out : ~remembered'[e].in
    BY <1>1, <1>4 DEF JobFits
<1>8. \A e \in MemoryId : Outcome("drop", {}, out, job[c].rows, e, vectors[e], remembered'[e]) = VectorOf(remembered'[e])
    BY <1>7, AtDrop DEF VectorOf
<1>9. WritesAs(reindex_memory_vectors_for_user \o Rest(c), MemoryId, job[c].rows)
    BY <1>5, <1>6, <1>7, <1>8 DEF WritesAs
<1>10. reindex_memory_vectors_for_user \o Rest(c) # <<>>
    BY <1>5, <1>6, Programs
<1>11. /\ job[c].rows \in MemRows /\ MemoryId \in SUBSET MemoryId /\ job[c].wrote \subseteq MemoryId /\ remembered' \in MemRows
       /\ memoryCalls' \in 0..MaxMemoryCalls
    BY <1>1 DEF MemTypes, JobRow
<1>12. memoryFails' \in 0..MaxMemoryFails
    BY <1>1, MemoryAssumption DEF MemTypes
<1>13. \A e \in MemoryId : ~(remembered'[e].in /\ ~remembered[e].in) /\ remembered'[e] = remembered[e]
    BY <1>1
<1> QED BY <1>1, <1>9, <1>10, <1>11, <1>12, <1>13, CommitKeeps

(* Batches.                                                                  *)
LEMMA OperationFacts ==
    ASSUME NEW op \in Operations
    PROVE  \/ op.do = "add" /\ op.text \in Texts /\ op.type \in Types /\ op.path \in MemoryPath
           \/ op.do = "replace" /\ op.id \in MemoryId /\ op.text \in Texts /\ op.path \in MemoryPath
           \/ op.do = "move" /\ op.id \in MemoryId /\ op.path \in MemoryPath
           \/ op.do = "remove" /\ op.id \in MemoryId
<1>1. CASE \E t \in Texts : op = [do |-> "add", text |-> t, type |-> "context", path |-> <<>>]
  <2>1. PICK t \in Texts : op = [do |-> "add", text |-> t, type |-> "context", path |-> <<>>]
      BY <1>1
  <2> QED BY <2>1, MemoryAssumption DEF Types
<1>2. CASE \E e \in MemoryId, t \in Texts, p \in MemoryPath : op = [do |-> "replace", id |-> e, text |-> t, path |-> p]
  <2>1. PICK e \in MemoryId, t \in Texts, p \in MemoryPath : op = [do |-> "replace", id |-> e, text |-> t, path |-> p]
      BY <1>2
  <2> QED BY <2>1
<1>3. CASE \E e \in MemoryId, p \in MemoryPath : op = [do |-> "move", id |-> e, path |-> p]
  <2>1. PICK e \in MemoryId, p \in MemoryPath : op = [do |-> "move", id |-> e, path |-> p]
      BY <1>3
  <2> QED BY <2>1
<1>4. CASE \E e \in MemoryId : op = [do |-> "remove", id |-> e]
  <2>1. PICK e \in MemoryId : op = [do |-> "remove", id |-> e]
      BY <1>4
  <2> QED BY <2>1
<1> QED BY <1>1, <1>2, <1>3, <1>4 DEF Operations

\* One operation changes the row it names, or puts in the new one.
LEMMA AppliedFacts ==
    ASSUME NEW table \in MemRows, NEW op \in Operations, NEW new,
           op.do = "add" => new \in MemoryId, op.do \in {"replace", "move"} => table[op.id].in
    PROVE  /\ Applied(table, op, new) \in MemRows
           /\ \A e \in MemoryId : Applied(table, op, new)[e].in /\ ~table[e].in => op.do = "add" /\ e = new
<1>1. CASE op.do = "add"
  <2>1. op.text \in Texts /\ op.type \in Types /\ op.path \in MemoryPath
      BY <1>1, OperationFacts
  <2>2. Row(op.text, op.type, op.path) \in MemRow
      BY <2>1, RowTyped
  <2>3. Applied(table, op, new) = IF Duplicate(table, op) THEN table ELSE [table EXCEPT ![new] = Row(op.text, op.type, op.path)]
      BY <1>1 DEF Applied
  <2> HIDE DEF MemRow
  <2> QED BY <1>1, <2>2, <2>3 DEF MemRows
<1>2. CASE op.do = "replace"
  <2>1. op.id \in MemoryId /\ op.text \in Texts /\ op.path \in MemoryPath /\ table[op.id].in
      BY <1>2, OperationFacts
  <2>2. Applied(table, op, new) = [table EXCEPT ![op.id].text = op.text, ![op.id].path = op.path]
      BY <1>2 DEF Applied
  <2>3. Applied(table, op, new) = [table EXCEPT ![op.id] = [[table[op.id] EXCEPT !.text = op.text] EXCEPT !.path = op.path]]
      BY <2>1, <2>2 DEF MemRows
  <2>4. [[table[op.id] EXCEPT !.text = op.text] EXCEPT !.path = op.path] \in MemRow
    <3>1. table[op.id] \in MemRow
        BY <2>1 DEF MemRows
    <3> QED BY <2>1, <3>1 DEF MemRow
  <2> HIDE DEF MemRow
  <2> QED BY <1>2, <2>1, <2>3, <2>4 DEF MemRows
<1>3. CASE op.do = "move"
  <2>1. op.id \in MemoryId /\ op.path \in MemoryPath /\ table[op.id].in
      BY <1>3, OperationFacts
  <2>2. Applied(table, op, new) = [table EXCEPT ![op.id] = [table[op.id] EXCEPT !.path = op.path]]
      BY <1>3, <2>1 DEF Applied, MemRows
  <2>3. [table[op.id] EXCEPT !.path = op.path] \in MemRow
    <3>1. table[op.id] \in MemRow
        BY <2>1 DEF MemRows
    <3> QED BY <2>1, <3>1 DEF MemRow
  <2> HIDE DEF MemRow
  <2> QED BY <1>3, <2>1, <2>2, <2>3 DEF MemRows
<1>4. CASE op.do = "remove"
  <2>1. Applied(table, op, new) = [table EXCEPT ![op.id] = NoMemory] /\ op.id \in MemoryId
      BY <1>4, OperationFacts DEF Applied
  <2>2. ~NoMemory.in
      BY DEF NoMemory
  <2> HIDE DEF MemRow
  <2> QED BY <1>4, <2>1, <2>2, BlankTyped DEF MemRows
<1> QED BY <1>1, <1>2, <1>3, <1>4, OperationFacts

LEMMA SingleCount == ASSUME NEW S, S = {1} PROVE Cardinality(S) = 1
BY FS_Singleton

LEMMA BatchFacts ==
    ASSUME NEW ops \in Batches
    PROVE  /\ ops[1] \in Operations /\ 1 \in DOMAIN ops
           /\ \/ Len(ops) = 1 /\ DOMAIN ops = {1}
              \/ Len(ops) = 2 /\ DOMAIN ops = {1, 2} /\ ops[2] \in Operations /\ ops[2].do = "remove"
<1>1. CASE \E o \in Operations : ops = <<o>>
  <2>1. PICK o \in Operations : ops = <<o>>
      BY <1>1
  <2> HIDE DEF Operations
  <2> QED BY <2>1
<1>2. CASE \E o \in Operations, e \in MemoryId : ops = <<o, [do |-> "remove", id |-> e]>>
  <2>1. PICK o \in Operations, e \in MemoryId : ops = <<o, [do |-> "remove", id |-> e]>>
      BY <1>2
  <2>2. [do |-> "remove", id |-> e] \in Operations
      BY DEF Operations
  <2>3. ops[1] = o /\ ops[2] = [do |-> "remove", id |-> e] /\ Len(ops) = 2 /\ DOMAIN ops = 1..2
      BY <2>1
  <2>4. 1..2 = {1, 2} /\ ops[2].do = "remove"
      BY <2>3
  <2> HIDE DEF Operations
  <2> QED BY <2>2, <2>3, <2>4
<1> QED BY <1>1, <1>2 DEF Batches

LEMMA ApplyKeeps ==
    ASSUME MemTypes, MemCore, NEW c \in MemoryClient, NEW ops \in Batches, apply_memory_operations(c, ops, <<>>), vectors' = vectors,
           job[c].wrote = {}, memoryCalls' \in 0..MaxMemoryCalls, memoryFails' \in 0..MaxMemoryFails
    PROVE  MemTypes' /\ MemCore'
<1> DEFINE free == {x \in MemoryId : ~remembered[x].in /\ ~vectors[x].in /\ \A o \in MemoryClient : x \notin job[o].wrote}
           named == {ops[i].id : i \in {j \in DOMAIN ops : ops[j].do # "add"}}
           new == CHOOSE x \in free : TRUE
           one == Applied(remembered, ops[1], new)
           all == IF Len(ops) = 1 THEN one ELSE Applied(one, ops[2], new)
           out == Kept(remembered) \ Kept(all)
           changed == {e \in Kept(all) : all[e] # remembered[e] \/ e \in named}
           adds == {i \in DOMAIN ops : ops[i].do = "add"}
           bad == ~(named \subseteq Kept(remembered)) \/ (Len(ops) = 2 /\ ops[1].do = "remove" /\ ops[2].do # "add" /\ ops[2].id = ops[1].id)
           prog == (IF changed = {} THEN <<>> ELSE <<Embed, Upsert(changed)>>) \o (IF out = {} THEN <<>> ELSE <<Erase(out)>>) \o <<>>
<1>1. /\ Cardinality(adds) <= (IF free = {} THEN 0 ELSE 1)
      /\ bad => job' = [job EXCEPT ![c] = NoJob] /\ remembered' = remembered /\ loose' = loose
      /\ ~bad => remembered' = all /\ Writes(c, changed \cup out, prog, all)
    BY DEF apply_memory_operations
<1>2. job \in [MemoryClient -> JobRow] /\ remembered \in MemRows
    BY DEF MemTypes
<1>3. CASE bad
  <2>1. job' = [job EXCEPT ![c] = NoJob] /\ remembered' = remembered /\ loose' = loose
      BY <1>1, <1>3
  <2> HIDE DEF bad
  <2>2. job' \in [MemoryClient -> JobRow]
    <3> HIDE DEF JobRow
    <3> QED BY <1>2, <2>1, BlankTyped
  <2>3. Reading(c)' /\ \A o \in MemoryClient \ {c} : job'[o] = job[o]
      BY <1>2, <2>1 DEF Reading, NoJob
  <2>4. MemCore'
      BY <2>1, <2>3, ReadersKeep
  <2> QED BY <2>1, <2>2, <2>4 DEF MemTypes
<1>4. CASE ~bad
  <2>1. remembered' = all /\ Writes(c, changed \cup out, prog, all)
      BY <1>1, <1>4
  <2>2. \A i \in DOMAIN ops : ops[i].do # "add" => remembered[ops[i].id].in
    <3>1. named \subseteq Kept(remembered)
        BY <1>4
    <3>2. \A i \in DOMAIN ops : ops[i].do # "add" => ops[i].id \in named
        OBVIOUS
    <3> HIDE DEF named
    <3> QED BY <3>1, <3>2 DEF Kept
  <2>3. ops[1] \in Operations /\ 1 \in DOMAIN ops
      BY BatchFacts
  <2>4. ops[1].do = "add" => new \in free
    <3> SUFFICES ASSUME ops[1].do = "add" PROVE new \in free
        OBVIOUS
    <3>1. adds = {1}
        BY <2>3, BatchFacts
    <3>2. Cardinality(adds) = 1
        BY <3>1, SingleCount
    <3>3. free # {}
      <4> HIDE DEF free, adds
      <4> QED BY <1>1, <3>2
    <3> HIDE DEF free
    <3> QED BY <3>3
  <2>5. \A x \in free : x \in MemoryId /\ \A o \in MemoryClient : x \notin job[o].wrote
      OBVIOUS
  <2> HIDE DEF free, new, adds, bad, named
  <2>6. /\ one \in MemRows
        /\ \A e \in MemoryId : one[e].in /\ ~remembered[e].in => ops[1].do = "add" /\ e = new
    <3>1. ops[1].do = "add" => new \in MemoryId
        BY <2>4, <2>5
    <3>2. ops[1].do \in {"replace", "move"} => remembered[ops[1].id].in
        BY <2>2, <2>3
    <3> QED BY <1>2, <2>3, <3>1, <3>2, AppliedFacts
  <2> HIDE DEF one
  <2>7. /\ all \in MemRows
        /\ \A e \in MemoryId : all[e].in /\ ~remembered[e].in => ops[1].do = "add" /\ e = new
    <3>1. CASE Len(ops) = 1
        BY <2>6, <3>1
    <3>2. CASE Len(ops) # 1
      <4>1. ops[2] \in Operations /\ ops[2].do = "remove" /\ all = Applied(one, ops[2], new)
          BY <3>2, BatchFacts
      <4>2. /\ Applied(one, ops[2], new) \in MemRows
            /\ \A e \in MemoryId : Applied(one, ops[2], new)[e].in /\ ~one[e].in => ops[2].do = "add" /\ e = new
          BY <2>6, <4>1, AppliedFacts
      <4>3. \A e \in MemoryId : all[e].in => one[e].in
        <5> HIDE DEF all
        <5> QED BY <4>1, <4>2
      <4> HIDE DEF all
      <4> QED BY <2>6, <4>1, <4>2, <4>3
    <3> QED BY <3>1, <3>2
  <2> HIDE DEF all
  <2>8. \A e \in MemoryId : remembered'[e].in /\ ~remembered[e].in => \A o \in MemoryClient : e \notin job[o].wrote
      BY <2>1, <2>4, <2>5, <2>7
  <2>9. changed \subseteq MemoryId /\ out \subseteq MemoryId /\ (\A e \in changed : all[e].in) /\ (\A e \in out : ~all[e].in)
      BY DEF Kept
  <2>10. \A e \in MemoryId \ (changed \cup out) : all[e] = remembered[e]
    <3> SUFFICES ASSUME NEW e \in MemoryId, e \notin changed, e \notin out PROVE all[e] = remembered[e]
        OBVIOUS
    <3>1. CASE all[e].in
        BY <3>1 DEF Kept
    <3>2. CASE ~all[e].in
      <4>1. ~remembered[e].in
          BY <3>2 DEF Kept
      <4> QED BY <1>2, <2>7, <3>2, <4>1 DEF MemRows, MemRow
    <3> QED BY <3>1, <3>2
  <2> HIDE DEF changed, out
  <2>11. /\ changed = {} => prog = Lead("done", changed) \o Erasing(out)
         /\ changed # {} => prog = Lead("embed", changed) \o Erasing(out)
    <3>1. Erasing(out) = (IF out = {} THEN <<>> ELSE <<Erase(out)>>) /\ Erasing(out) \in Seq(StepRow)
        BY <2>9, Erasings DEF Erasing
    <3>2. <<Embed, Upsert(changed)>> = Lead("embed", changed) /\ <<>> = Lead("done", changed)
        BY DEF Lead
    <3>3. \A s \in Stages : Lead(s, changed) \o Erasing(out) \in Seq(StepRow)
        BY <2>9, Programs
    <3>4. \A s \in Stages : (Lead(s, changed) \o Erasing(out)) \o <<>> = Lead(s, changed) \o Erasing(out)
      <4> HIDE DEF StepRow
      <4> QED BY <3>3, ConcatEmptySeq
    <3>5. "done" \in Stages /\ "embed" \in Stages
        BY DEF Stages
    <3>6. prog = ((IF changed = {} THEN <<>> ELSE <<Embed, Upsert(changed)>>) \o Erasing(out)) \o <<>>
        BY <3>1
    <3> HIDE DEF prog
    <3> QED BY <3>2, <3>4, <3>5, <3>6
  <2> HIDE DEF prog
  <2> DEFINE ids == changed \cup out
  <2>12. prog = <<>> => ids = {}
    <3>1. changed # {} => prog # <<>>
      <4>1. "embed" \in Stages /\ "embed" # "done"
          BY DEF Stages
      <4> QED BY <2>9, <2>11, <4>1, Programs
    <3>2. changed = {} => prog = Erasing(out)
      <4>1. "done" \in Stages
          BY DEF Stages
      <4> QED BY <2>9, <2>11, <4>1, Programs
    <3> QED BY <2>9, <3>1, <3>2, Erasings
  <2>13. WritesAs(prog, ids, all)
    <3>1. CASE changed = {}
      <4>1. "done" \in Stages /\ "done" \notin Filling \cup {"clear"}
          BY DEF Stages, Filling
      <4>2. \A e \in ids : Outcome("done", changed, out, all, e, vectors[e], remembered'[e]) = VectorOf(remembered'[e])
          BY <2>1, <2>9, <3>1, AtDone DEF VectorOf
      <4>3. prog = Lead("done", changed) \o Erasing(out) /\ changed \in SUBSET ids /\ out \in SUBSET ids /\ \A e \in out : ~remembered'[e].in
          BY <2>1, <2>9, <2>11, <3>1
      <4> HIDE DEF ids
      <4> QED BY <4>1, <4>2, <4>3 DEF WritesAs
    <3>2. CASE changed # {}
      <4>1. "embed" \in Stages /\ "embed" \notin Filling \cup {"clear"}
          BY DEF Stages, Filling
      <4>2. \A e \in ids : Outcome("embed", changed, out, all, e, vectors[e], remembered'[e]) = VectorOf(remembered'[e])
          BY <2>1, <2>9, AtEmbed DEF VectorOf
      <4>3. prog = Lead("embed", changed) \o Erasing(out) /\ changed \in SUBSET ids /\ out \in SUBSET ids /\ \A e \in out : ~remembered'[e].in
          BY <2>1, <2>9, <2>11, <3>2
      <4> HIDE DEF ids
      <4> QED BY <4>1, <4>2, <4>3 DEF WritesAs
    <3> QED BY <3>1, <3>2
  <2>14. ids \in SUBSET MemoryId /\ Writes(c, ids, prog, all) /\ job[c].wrote \subseteq ids /\ remembered' \in MemRows
         /\ \A e \in MemoryId \ ids : remembered'[e] = remembered[e]
      BY <2>1, <2>7, <2>9, <2>10
  <2>15. \/ prog = <<>> /\ job[c].wrote = {} /\ \A e \in ids : VectorOf(remembered'[e]) = VectorOf(remembered[e])
         \/ prog # <<>> /\ WritesAs(prog, ids, all)
      BY <2>12, <2>13
  <2> HIDE DEF ids
  <2> QED BY <2>7, <2>8, <2>14, <2>15, CommitKeeps
<1> QED BY <1>3, <1>4

(* Reviews and chats.                                                        *)
LEMMA ReadersWriteNothing == ASSUME MemTypes, MemCore, NEW c \in MemoryClient, Now(c, "review") \/ Now(c, "search") PROVE Reading(c) /\ job[c].wrote = {}
<1> SUFFICES ASSUME ~Reading(c) PROVE FALSE
    BY DEF Reading
<1>1. PICK leg \in Stages, put \in SUBSET MemoryId, out \in SUBSET MemoryId : JobFits(c, leg, put, out)
    BY DEF MemCore, MemJobs
<1>2. job[c].prog = Lead(leg, put) \o Erasing(out) /\ job[c].prog # <<>> /\ Head(job[c].prog).do \in {"review", "search"}
    BY <1>1 DEF JobFits, Left, Now, Busy
<1>3. CASE leg = "done"
  <2>1. Head(job[c].prog) = Erase(out)
      BY <1>2, <1>3, Programs, Erasings
  <2>2. Erase(out).do = "erase"
      BY StepsTyped DEF Erase, StepNames
  <2> QED BY <1>2, <2>1, <2>2
<1>4. CASE leg # "done"
  <2>1. Head(job[c].prog) = FirstStep(leg, put)
      BY <1>2, <1>4, Programs
  <2>2. /\ Embed.do = "embed" /\ Upsert(put).do = "upsert" /\ Step("drop", {}).do = "drop"
        /\ Step("read", {}).do = "read" /\ Step("fill", {}).do = "fill"
      BY StepsTyped DEF Embed, Upsert, StepNames
  <2> QED BY <1>2, <1>4, <2>1, <2>2 DEF FirstStep, Stages
<1> QED BY <1>3, <1>4

LEMMA ReviewKeeps == ASSUME MemTypes, MemCore, NEW c \in MemoryClient, review_memory(c) PROVE MemTypes' /\ MemCore'
<1>1. /\ job' = [job EXCEPT ![c] = [NoJob EXCEPT !.prog = <<Step("review", {})>>, !.seen = Kept(remembered)]]
      /\ remembered' = remembered /\ loose' = loose /\ vectors' = vectors /\ memoryFails' = memoryFails
    BY DEF review_memory, Steady
<1>2. job[c].wrote = {} /\ memoryCalls' \in 0..MaxMemoryCalls
    BY BeginFacts DEF review_memory
<1>3. job \in [MemoryClient -> JobRow]
    BY DEF MemTypes
<1>4. Step("review", {}) \in StepRow /\ Kept(remembered) \in SUBSET MemoryId
    BY StepsTyped DEF StepNames, Kept
<1>5. <<Step("review", {})>> \in Seq(StepRow)
  <2> HIDE DEF StepRow
  <2> QED BY <1>4
<1>6. job'[c] = [NoJob EXCEPT !.prog = <<Step("review", {})>>, !.seen = Kept(remembered)] /\ \A o \in MemoryClient \ {c} : job'[o] = job[o]
    BY <1>1, <1>3
<1>7. job'[c] \in JobRow /\ job'[c].prog = <<Step("review", {})>> /\ job'[c].wrote = {}
  <2> DEFINE p == <<Step("review", {})>>
             k == Kept(remembered)
  <2>1. job'[c] = [NoJob EXCEPT !.prog = p, !.seen = k] /\ p \in Seq(StepRow) /\ k \in SUBSET MemoryId
      BY <1>4, <1>5, <1>6
  <2> HIDE DEF p, k, StepRow, MemRows
  <2>2. NoJob \in JobRow /\ NoJob.wrote = {}
      BY BlankTyped DEF NoJob
  <2>3. job'[c] \in JobRow /\ job'[c].prog = p /\ job'[c].wrote = {}
    <3> HIDE DEF NoJob
    <3> QED BY <2>1, <2>2 DEF JobRow
  <2> QED BY <2>3 DEF p
<1>8. job' \in [MemoryClient -> JobRow]
  <2>1. job' = [job EXCEPT ![c] = job'[c]]
      BY <1>1, <1>3
  <2> HIDE DEF JobRow
  <2> QED BY <1>3, <1>7, <2>1
<1>9. Reading(c)'
    BY <1>7 DEF Reading
<1>10. MemCore'
    BY <1>1, <1>2, <1>6, <1>9, ReadersKeep
<1> QED BY <1>1, <1>2, <1>8, <1>10 DEF MemTypes

LEMMA GenerateKeeps == ASSUME MemTypes, MemCore, NEW c \in MemoryClient, generate_memory_operations(c) PROVE MemTypes' /\ MemCore'
<1>1. job[c].wrote = {}
    BY ReadersWriteNothing DEF generate_memory_operations
<1>2. vectors' = vectors /\ memoryCalls' \in 0..MaxMemoryCalls /\ memoryFails' \in 0..MaxMemoryFails
    BY DEF generate_memory_operations, Steady, MemTypes
<1>3. CASE \E ops \in Batches : apply_memory_operations(c, ops, <<>>)
    BY <1>1, <1>2, <1>3, ApplyKeeps
<1>4. CASE job' = [job EXCEPT ![c] = NoJob] /\ UNCHANGED <<remembered, loose>>
  <2>1. job \in [MemoryClient -> JobRow]
      BY DEF MemTypes
  <2>2. job' \in [MemoryClient -> JobRow]
    <3> HIDE DEF JobRow
    <3> QED BY <1>4, <2>1, BlankTyped
  <2>3. Reading(c)' /\ \A o \in MemoryClient \ {c} : job'[o] = job[o]
      BY <1>4, <2>1 DEF Reading, NoJob
  <2>4. MemCore'
      BY <1>1, <1>2, <1>4, <2>3, ReadersKeep
  <2> QED BY <1>2, <1>4, <2>2, <2>4 DEF MemTypes
<1> QED BY <1>3, <1>4 DEF generate_memory_operations

LEMMA BatchKeeps == ASSUME MemTypes, MemCore, NEW c \in MemoryClient, update_memories(c) PROVE MemTypes' /\ MemCore'
<1>1. job[c].wrote = {} /\ memoryCalls' \in 0..MaxMemoryCalls
    BY BeginFacts DEF update_memories
<1>2. vectors' = vectors /\ memoryFails' \in 0..MaxMemoryFails
    BY DEF update_memories, Steady, MemTypes
<1> QED BY <1>1, <1>2, ApplyKeeps DEF update_memories

LEMMA ChatKeeps == ASSUME MemTypes, MemCore, NEW c \in MemoryClient, add_memory_context(c) PROVE MemTypes' /\ MemCore'
<1>1. /\ job' = [job EXCEPT ![c] = [NoJob EXCEPT !.prog = <<Step("search", {})>>, !.rows = remembered]]
      /\ remembered' = remembered /\ loose' = loose /\ vectors' = vectors /\ memoryFails' = memoryFails
    BY DEF add_memory_context
<1>2. job[c].wrote = {} /\ memoryCalls' \in 0..MaxMemoryCalls
    BY BeginFacts DEF add_memory_context
<1>3. job \in [MemoryClient -> JobRow] /\ remembered \in MemRows
    BY DEF MemTypes
<1>4. Step("search", {}) \in StepRow
    BY StepsTyped DEF StepNames
<1>5. <<Step("search", {})>> \in Seq(StepRow)
  <2> HIDE DEF StepRow
  <2> QED BY <1>4
<1>6. job'[c] = [NoJob EXCEPT !.prog = <<Step("search", {})>>, !.rows = remembered] /\ \A o \in MemoryClient \ {c} : job'[o] = job[o]
    BY <1>1, <1>3
<1>7. job'[c] \in JobRow /\ job'[c].prog = <<Step("search", {})>> /\ job'[c].wrote = {}
  <2> DEFINE p == <<Step("search", {})>>
  <2>1. job'[c] = [NoJob EXCEPT !.prog = p, !.rows = remembered] /\ p \in Seq(StepRow)
      BY <1>5, <1>6
  <2> HIDE DEF p, StepRow, MemRows
  <2>2. NoJob \in JobRow /\ NoJob.wrote = {}
      BY BlankTyped DEF NoJob
  <2>3. job'[c] \in JobRow /\ job'[c].prog = p /\ job'[c].wrote = {}
    <3> HIDE DEF NoJob
    <3> QED BY <1>3, <2>1, <2>2 DEF JobRow
  <2> QED BY <2>3 DEF p
<1>8. job' \in [MemoryClient -> JobRow]
  <2>1. job' = [job EXCEPT ![c] = job'[c]]
      BY <1>1, <1>3
  <2> HIDE DEF JobRow
  <2> QED BY <1>3, <1>7, <2>1
<1>9. Reading(c)'
    BY <1>7 DEF Reading
<1>10. MemCore'
    BY <1>1, <1>2, <1>6, <1>9, ReadersKeep
<1> QED BY <1>1, <1>2, <1>8, <1>10 DEF MemTypes

LEMMA SearchKeeps == ASSUME MemTypes, MemCore, NEW c \in MemoryClient, search(c) PROVE MemTypes' /\ MemCore' /\ ToldOnce'
<1>1. Now(c, "search") /\ job' = Ended(c) /\ remembered' = remembered /\ loose' = loose /\ vectors' = vectors /\ memoryFails' = memoryFails /\ memoryCalls' = memoryCalls
    BY DEF search
<1>2. Reading(c) /\ job[c].wrote = {}
    BY <1>1, ReadersWriteNothing
<1>3. Rest(c) = <<>>
  <2>1. job[c].prog \in {<<Step("review", {})>>, <<Step("search", {})>>}
      BY <1>1, <1>2 DEF Reading, Now, Busy
  <2>2. Step("review", {}) \in StepRow /\ Step("search", {}) \in StepRow
      BY StepsTyped DEF StepNames
  <2> HIDE DEF StepRow
  <2>3. Tail(<<Step("review", {})>>) = <<>> /\ Tail(<<Step("search", {})>>) = <<>>
      BY <2>2, Short
  <2> QED BY <2>1, <2>3 DEF Rest
<1>4. Rest(c) \in Seq(StepRow)
    BY <1>3
<1>5. job' \in [MemoryClient -> JobRow] /\ (\A o \in MemoryClient \ {c} : job'[o] = job[o]) /\ job'[c].prog = <<>> /\ job'[c].wrote = {}
    BY <1>1, <1>3, <1>4, EndedFacts
<1>6. Reading(c)'
    BY <1>5 DEF Reading
<1>7. MemCore'
    BY <1>1, <1>2, <1>5, <1>6, ReadersKeep
<1>8. PICK hits \in query_memory, q \in MemoryPath :
          LET table == job[c].rows
              user == {e \in Kept(table) : table[e].type = "user"}
              near == search_memory_rows(table, q, "context") \ user IN
          shownTo' = {<<e, table[e].text, table[e].path>> : e \in user \cup near}
                     \cup {<<e, vectors[e].text, vectors[e].path>> : e \in hits \ (user \cup near)}
    BY DEF search
<1>9. ToldOnce'
  <2> DEFINE table == job[c].rows
             user == {e \in Kept(table) : table[e].type = "user"}
             near == search_memory_rows(table, q, "context") \ user
             toldRows == user \cup near
  <2>1. shownTo' = {<<e, table[e].text, table[e].path>> : e \in toldRows} \cup {<<e, vectors[e].text, vectors[e].path>> : e \in hits \ toldRows}
      BY <1>8
  <2> HIDE DEF toldRows, table
  <2>2. SUFFICES ASSUME NEW a \in shownTo', NEW b \in shownTo', a[1] = b[1] PROVE a = b
      BY DEF ToldOnce
  <2>3. \A x \in shownTo' : (x[1] \in toldRows /\ x = <<x[1], table[x[1]].text, table[x[1]].path>>)
                            \/ (x[1] \notin toldRows /\ x = <<x[1], vectors[x[1]].text, vectors[x[1]].path>>)
      BY <2>1
  <2> QED BY <2>2, <2>3
<1> QED BY <1>1, <1>5, <1>7, <1>9 DEF MemTypes

(* Init and Next                                                             *)
LEMMA MemInitIInv == ASSUME MemoryInit PROVE MemIInv
<1>1. PICK first \in {NoMemory} \cup {Row("a", y, p) : y \in Types, p \in MemoryPath} :
          /\ remembered = [e \in MemoryId |-> IF e = CHOOSE x \in MemoryId : TRUE THEN first ELSE NoMemory]
          /\ vectors = [e \in MemoryId |-> IF remembered[e].in THEN memory_vector_text(remembered[e]) ELSE NoVector]
          /\ job = [c \in MemoryClient |-> NoJob]
          /\ loose = {} /\ shownTo = {} /\ memoryCalls = 0 /\ memoryFails = 0
    BY DEF MemoryInit
<1>2. first \in MemRow
    BY RowTyped, BlankTyped DEF Texts
<1>3. remembered \in MemRows
  <2> HIDE DEF MemRow
  <2> QED BY <1>1, <1>2, BlankTyped DEF MemRows
<1>4. vectors \in [MemoryId -> VectorRow]
  <2>1. \A e \in MemoryId : remembered[e] \in MemRow
      BY <1>3 DEF MemRows
  <2> HIDE DEF MemRow, VectorRow
  <2> QED BY <1>1, <2>1, BlankTyped, VectorTyped
<1>5. job \in [MemoryClient -> JobRow]
  <2> HIDE DEF JobRow
  <2> QED BY <1>1, BlankTyped
<1>6. MemTypes
    BY <1>1, <1>3, <1>4, <1>5, MemoryAssumption DEF MemTypes
<1>7. MemJobs /\ MemApart
    BY <1>1 DEF MemJobs, MemApart, Reading, NoJob
<1>8. VectorsFollow
    BY <1>1 DEF VectorsFollow
<1>9. ToldOnce
    BY <1>1 DEF ToldOnce
<1> QED BY <1>6, <1>7, <1>8, <1>9 DEF MemIInv

LEMMA MemStepIInv == ASSUME MemIInv, NEW c \in MemoryClient,
    \/ add_memory(c) \/ update_memory_by_id(c) \/ delete_memory_by_id(c) \/ delete_memory_by_user_id(c)
    \/ reset_memory_from_vector_db(c) \/ reindex_memories_from_vector_db(c) \/ update_memories(c) \/ review_memory(c)
    \/ generate_memory_operations(c) \/ embed(c) \/ upsert(c) \/ upsert_memory_vectors_or_reindex(c) \/ erase(c)
    \/ drop_collection(c) \/ read_rows(c) \/ fill_collection(c) \/ fail(c) \/ add_memory_context(c) \/ search(c)
    PROVE MemIInv'
<1>1. MemTypes /\ MemCore /\ ToldOnce
    BY DEF MemIInv, MemCore
<1>2. MemTypes' /\ MemCore' /\ ToldOnce' => MemIInv'
    BY DEF MemIInv, MemCore
<1>3. CASE search(c)
    BY <1>1, <1>2, <1>3, SearchKeeps
<1>4. CASE add_memory_context(c)
  <2>1. shownTo' = {}
      BY <1>4 DEF add_memory_context
  <2>2. ToldOnce'
      BY <2>1 DEF ToldOnce
  <2> QED BY <1>1, <1>2, <1>4, <2>2, ChatKeeps
<1>5. ASSUME shownTo' = shownTo PROVE ToldOnce'
    BY <1>1, <1>5 DEF ToldOnce
<1>6. CASE \/ add_memory(c) \/ update_memory_by_id(c) \/ delete_memory_by_id(c) \/ delete_memory_by_user_id(c)
           \/ reset_memory_from_vector_db(c) \/ reindex_memories_from_vector_db(c) \/ update_memories(c) \/ review_memory(c)
           \/ generate_memory_operations(c)
  <2>1. shownTo' = shownTo
      BY <1>6 DEF add_memory, update_memory_by_id, delete_memory_by_id, delete_memory_by_user_id, reset_memory_from_vector_db,
                  reindex_memories_from_vector_db, update_memories, review_memory, generate_memory_operations, Steady
  <2>2. MemTypes' /\ MemCore'
      BY <1>1, <1>6, AddKeeps, UpdateKeeps, DeleteKeeps, ClearKeeps, RebuildAllKeeps, ReindexKeeps, BatchKeeps, ReviewKeeps, GenerateKeeps
  <2> QED BY <1>2, <1>5, <2>1, <2>2
<1>7. CASE MemStoreStep(c) \/ upsert_memory_vectors_or_reindex(c) \/ fail(c)
  <2>1. shownTo' = shownTo
      BY <1>7 DEF MemStoreStep, embed, upsert, erase, drop_collection, read_rows, fill_collection, upsert_memory_vectors_or_reindex, fail
  <2>2. MemTypes' /\ MemCore'
      BY <1>1, <1>7, MemStoreStepKeeps, RebuildKeeps, FailStepKeeps
  <2> QED BY <1>2, <1>5, <2>1, <2>2
<1> QED BY <1>3, <1>4, <1>6, <1>7 DEF MemStoreStep

LEMMA MemNextIInv == ASSUME MemIInv, [MemoryNext]_memoryVars PROVE MemIInv'
<1>1. CASE MemoryNext
    BY <1>1, MemStepIInv DEF MemoryNext
<1>2. CASE UNCHANGED memoryVars
  <2> USE <1>2 DEF memoryVars
  <2>1. MemTypes'
      BY DEF MemIInv, MemTypes
  <2>2. MemApart' /\ VectorsFollow' /\ ToldOnce'
      BY DEF MemIInv, MemApart, VectorsFollow, ToldOnce
  <2>3. MemJobs'
    <3> SUFFICES ASSUME NEW c \in MemoryClient
                 PROVE  Reading(c)' \/ (Busy(c)' /\ \E leg \in Stages, put, out \in SUBSET MemoryId : JobFits(c, leg, put, out)')
        BY DEF MemJobs
    <3>1. (Reading(c) => Reading(c)') /\ (Busy(c) => Busy(c)')
        BY DEF Reading, Busy
    <3>2. \A leg, put, out : JobFits(c, leg, put, out) => JobFits(c, leg, put, out)'
        BY DEF JobFits, Left
    <3> QED BY <3>1, <3>2 DEF MemIInv, MemJobs
  <2> QED BY <2>1, <2>2, <2>3 DEF MemIInv
<1> QED BY <1>1, <1>2

(* Paths.                                                                    *)
LEMMA PathSeq == ASSUME NEW p \in MemoryPath PROVE p \in Seq(Range(p))
BY MemoryAssumption

\* The path one part below q on the way to p.
LEMMA Between ==
    ASSUME NEW p \in MemoryPath, NEW q \in MemoryPath, Above(q, p)
    PROVE  /\ Above(q, SubSeq(p, 1, Len(q) + 1)) /\ ~Above(SubSeq(p, 1, Len(q) + 1), q)
           /\ (SubSeq(p, 1, Len(q) + 1) = p \/ Above(SubSeq(p, 1, Len(q) + 1), p)) /\ SubSeq(p, 1, Len(q) + 1) # <<>>
           /\ Len(q) \in Nat /\ Len(SubSeq(p, 1, Len(q) + 1)) = Len(q) + 1
<1> DEFINE S == Range(p)
           T == Range(q)
           n == Len(q)
           m == Len(p)
           s == SubSeq(p, 1, n + 1)
<1>1. p \in Seq(S) /\ q \in Seq(T) /\ n \in Nat /\ m \in Nat
    BY PathSeq, LenProperties
<1>2. n <= m /\ SubSeq(q, 1, n) = SubSeq(p, 1, n) /\ q # p
    BY DEF Above, IsStrictPrefix, IsPrefix
<1>3. SubSeq(q, 1, n) = q
    BY <1>1, SubSeqFull
<1>4. n < m
  <2>1. ASSUME n = m PROVE FALSE
    <3>1. SubSeq(p, 1, m) = p
        BY <1>1, SubSeqFull
    <3> QED BY <1>2, <1>3, <2>1, <3>1
  <2> QED BY <1>1, <1>2, <2>1
<1>5. s \in Seq(S) /\ Len(s) = n + 1 /\ \A i \in 1..(n + 1) : s[i] = p[i]
    BY <1>1, <1>4, SubSeqProperties
<1>6. SubSeq(s, 1, n) = SubSeq(p, 1, n)
    BY <1>1, <1>4, SubSeqOfSubSeq
<1>7. SubSeq(s, 1, n + 1) = s
    BY <1>1, <1>5, SubSeqFull
<1>8. Len(q) = n /\ Len(p) = m /\ SubSeq(p, 1, n + 1) = s /\ s # <<>> /\ s # q
  <2>1. Len(q) = n /\ Len(p) = m /\ SubSeq(p, 1, n + 1) = s
      OBVIOUS
  <2>2. Len(s) # 0 /\ Len(s) # Len(q)
      BY <1>1, <1>5
  <2> HIDE DEF s, n, m
  <2> QED BY <2>1, <2>2
<1> HIDE DEF s, n, m, S, T
<1>9. IsPrefix(q, s) /\ q # s
    BY <1>1, <1>2, <1>5, <1>6, <1>8 DEF IsPrefix
<1>10. ~IsPrefix(s, q)
    BY <1>1, <1>5, <1>8 DEF IsPrefix
<1>11. IsPrefix(s, p)
    BY <1>1, <1>4, <1>5, <1>7, <1>8 DEF IsPrefix
<1> QED BY <1>1, <1>5, <1>8, <1>9, <1>10, <1>11 DEF Above, IsStrictPrefix

LEMMA PathsLeadOn == ASSUME MemTypes PROVE PathsLead
<1> SUFFICES ASSUME NEW e \in Kept(remembered), remembered[e].path # <<>>,
                    NEW p \in list_memory_path_groups(remembered, remembered[e].path)
             PROVE  /\ e \in read_memory_path_rows(remembered, p)
                    /\ \E x \in read_memory_path_rows(remembered, p) : x # e
                    /\ path_rank(remembered[e].path, p)[1] = 2
    BY DEF PathsLead
<1> DEFINE q == remembered[e].path
<1>1. PICK x \in Kept(remembered) : Above(q, remembered[x].path) /\ p = SubSeq(remembered[x].path, 1, Len(q) + 1)
    BY DEF list_memory_path_groups
<1>2. e \in MemoryId /\ x \in MemoryId /\ remembered[e].path \in MemoryPath /\ remembered[x].path \in MemoryPath
    BY <1>1 DEF Kept, MemTypes, MemRows, MemRow
<1>3. /\ Above(q, p) /\ ~Above(p, q) /\ (p = remembered[x].path \/ Above(p, remembered[x].path)) /\ p # <<>>
      /\ Len(q) \in Nat /\ Len(p) = Len(q) + 1
    BY <1>1, <1>2, Between
<1>4. e \in read_memory_path_rows(remembered, p)
    BY <1>3 DEF read_memory_path_rows, Parents
<1>5. x \in read_memory_path_rows(remembered, p)
  <2>1. remembered[x].path # <<>>
    <3>1. remembered[x].path = <<>> => ~Above(q, remembered[x].path)
        BY DEF Above, IsStrictPrefix, IsPrefix
    <3> QED BY <1>1, <3>1
  <2> QED BY <1>3, <2>1 DEF read_memory_path_rows
<1>6. x # e
  <2>1. ~Above(q, q)
      BY DEF Above, IsStrictPrefix
  <2> QED BY <1>1, <2>1
<1>7. path_rank(q, p)[1] = 2
  <2>1. q # <<>> /\ q # p
      BY <1>3 DEF Above, IsStrictPrefix
  <2>2. path_rank(q, p) = <<2, Len(p) - Len(q)>>
      BY <1>3, <2>1 DEF path_rank
  <2> QED BY <2>2
<1> QED BY <1>4, <1>5, <1>6, <1>7

LEMMA MemorySafe == ASSUME MemIInv PROVE MemoryTypeOK /\ MemorySound
<1>1. MemTypes
    BY DEF MemIInv
<1>2. MemoryTypeOK
    BY <1>1 DEF MemTypes, MemRows, MemRow, VectorRow, MemoryTypeOK
<1> QED BY <1>1, <1>2, PathsLeadOn DEF MemIInv, MemorySound

-----------------------------------------------------------------------------
(* The history of a chat                                                   *)

(* A history is a record and a request a sequence of commits, whatever they *)
(* hold; a request that waits has seen nothing or a history.                *)
IsHist(h) == h = [msgs |-> h.msgs, cur |-> h.cur]
IsProgram(p) == \E S : p \in Seq(S)
EditOK(e) ==
    /\ e = [prog |-> e.prog, seen |-> e.seen, out |-> e.out, dead |-> e.dead]
    /\ IsProgram(e.prog) /\ (e.seen # None => IsHist(e.seen))
HistIInv ==
    /\ hist # None => IsHist(hist)
    /\ DOMAIN edit = HistoryClient /\ edit = [c \in HistoryClient |-> edit[c]]
    /\ \A c \in HistoryClient : EditOK(edit[c])

\* Programs are sequences.
LEMMA ProgramOne == ASSUME NEW a PROVE IsProgram(<<a>>)
<1>1. <<a>> \in Seq({a})
    OBVIOUS
<1> QED BY <1>1 DEF IsProgram
LEMMA ProgramNone == IsProgram(<<>>)
<1>1. <<>> \in Seq({})
    OBVIOUS
<1> QED BY <1>1 DEF IsProgram
LEMMA ProgramTwo == ASSUME NEW a, NEW b PROVE IsProgram(<<a, b>>)
<1>1. <<a, b>> \in Seq({a, b})
    OBVIOUS
<1> QED BY <1>1 DEF IsProgram
LEMMA ProgramConcat == ASSUME NEW p, NEW q, IsProgram(p), IsProgram(q) PROVE IsProgram(p \o q)
<1>1. PICK S : p \in Seq(S)
    BY DEF IsProgram
<1>2. PICK T : q \in Seq(T)
    BY DEF IsProgram
<1>3. p \in Seq(S \cup T) /\ q \in Seq(S \cup T)
    BY <1>1, <1>2
<1>4. p \o q \in Seq(S \cup T)
    BY <1>3
<1> QED BY <1>4 DEF IsProgram
LEMMA ProgramTail ==
    ASSUME NEW p, IsProgram(p), p # <<>>
    PROVE  IsProgram(Tail(p)) /\ Tail(p) # p
<1>1. PICK S : p \in Seq(S)
    BY DEF IsProgram
<1>2. PICK t : t = Tail(p)
    OBVIOUS
<1>3. t \in Seq(S) /\ Len(t) = Len(p) - 1 /\ Len(p) \in Nat
    BY <1>1, <1>2
<1>4. t # p
    BY <1>3
<1> QED BY <1>2, <1>3, <1>4 DEF IsProgram
LEMMA ProgramRest ==
    ASSUME NEW p, IsProgram(p), NEW n \in Nat \ {0}
    PROVE  IsProgram(SubSeq(p, n, Len(p)))
<1>1. PICK S : p \in Seq(S)
    BY DEF IsProgram
<1>2. SubSeq(p, n, Len(p)) \in Seq(S)
    BY <1>1
<1> QED BY <1>2 DEF IsProgram
LEMMA PutProgram == ASSUME NEW m, NEW d PROVE IsProgram(Put(m, d))
BY ProgramTwo DEF Put
LEMMA ProgramsAre ==
    /\ \A form : IsProgram(update_chat_by_id(form))
    /\ IsProgram(update_chat_title_by_id) /\ IsProgram(get_chat_by_id) /\ IsProgram(get_messages_map_by_chat_id)
    /\ IsProgram(delete_chat_by_id)
    /\ \A m, t : IsProgram(update_chat_message_by_id(m, t))
    /\ \A m : /\ IsProgram(delete_chat_message_by_id(m)) /\ IsProgram(add_message_status(m)) /\ IsProgram(add_message_files(m))
              /\ IsProgram(compact_chat_branch(m)) /\ IsProgram(response(m))
<1>1. IsProgram(get_chat_by_id) /\ IsProgram(update_chat_title_by_id) /\ IsProgram(get_messages_map_by_chat_id)
    BY ProgramOne, ProgramTwo DEF get_chat_by_id, update_chat_title_by_id, get_messages_map_by_chat_id
<1>2. \A form : IsProgram(update_chat_by_id(form))
    BY ProgramTwo DEF update_chat_by_id
<1>3. IsProgram(delete_chat_by_id)
    BY <1>1, ProgramOne, ProgramConcat DEF delete_chat_by_id
<1>4. \A m, t : IsProgram(update_chat_message_by_id(m, t))
    BY <1>1, PutProgram, ProgramConcat DEF update_chat_message_by_id
<1>5. \A m : IsProgram(add_message_status(m)) /\ IsProgram(add_message_files(m)) /\ IsProgram(response(m))
    BY ProgramOne, PutProgram DEF add_message_status, add_message_files, response
<1>6. \A m : IsProgram(compact_chat_branch(m))
    BY <1>1, PutProgram, ProgramConcat DEF compact_chat_branch
<1>7. ASSUME NEW m PROVE IsProgram(delete_chat_message_by_id(m))
  <2>1. <<Op("delete", m), Op("reconcile", None), Op("unrow", None)>> \in Seq({Op("delete", m), Op("reconcile", None), Op("unrow", None)})
      OBVIOUS
  <2>2. IsProgram(<<Op("delete", m), Op("reconcile", None), Op("unrow", None)>>)
      BY <2>1 DEF IsProgram
  <2> QED BY <1>1, <2>2, ProgramConcat DEF delete_chat_message_by_id
<1> QED BY <1>1, <1>2, <1>3, <1>4, <1>5, <1>6, <1>7
LEMMA TurnProgram == ASSUME NEW p, NEW u, NEW a PROVE IsProgram(chat_turn(p, u, a))
<1> DEFINE x1 == <<Op("files", None)>>
           x2 == Put(u, [parent |-> p, text |-> "asked"])
           x3 == IF p = None THEN <<>> ELSE <<Op("siblings", p)>> \o Put(p, [kids |-> {u}])
           x4 == <<Op("siblings", u)>>
           x5 == Put(u, [kids |-> {a}])
           x6 == Put(a, [parent |-> u, kids |-> {}, text |-> "none"])
<1>1. IsProgram(x1) /\ IsProgram(x2) /\ IsProgram(x4) /\ IsProgram(x5) /\ IsProgram(x6)
    BY ProgramOne, PutProgram
<1>2. IsProgram(x3)
    BY ProgramNone, ProgramOne, PutProgram, ProgramConcat
<1>3. chat_turn(p, u, a) = x1 \o x2 \o x3 \o x4 \o x5 \o x6
    BY DEF chat_turn
<1> HIDE DEF x1, x2, x3, x4, x5, x6
<1>4. IsProgram(x1 \o x2)
    BY <1>1, ProgramConcat
<1>5. IsProgram(x1 \o x2 \o x3)
    BY <1>2, <1>4, ProgramConcat
<1>6. IsProgram(x1 \o x2 \o x3 \o x4)
    BY <1>1, <1>5, ProgramConcat
<1>7. IsProgram(x1 \o x2 \o x3 \o x4 \o x5)
    BY <1>1, <1>6, ProgramConcat
<1>8. IsProgram(x1 \o x2 \o x3 \o x4 \o x5 \o x6)
    BY <1>1, <1>7, ProgramConcat
<1> QED BY <1>3, <1>8

\* What a change of the column leaves: a history, and all messages but the deleted ones.
LEMMA RepairKeeps ==
    ASSUME NEW h, IsHist(h), NEW g \in repair_chat_current_id(h)
    PROVE  IsHist(g) /\ Ids(g) = Ids(h)
<1> DEFINE msgs == [m \in Ids(h) |-> [h.msgs[m] EXCEPT !.kids = @ \cup {k \in Ids(h) : h.msgs[k].parent = m}]]
           k == [h EXCEPT !.msgs = msgs]
<1>1. g = k \/ \E m : g = [k EXCEPT !.cur = m]
    BY DEF repair_chat_current_id
<1>2. DOMAIN msgs = Ids(h)
    OBVIOUS
<1> HIDE DEF msgs
<1>3. k = [msgs |-> msgs, cur |-> h.cur]
    BY DEF IsHist
<1> HIDE DEF k
<1>4. \A m : [k EXCEPT !.cur = m] = [msgs |-> msgs, cur |-> m]
    BY <1>3
<1>5. PICK m : g = [msgs |-> msgs, cur |-> m]
    BY <1>1, <1>3, <1>4
<1> QED BY <1>2, <1>5 DEF IsHist, Ids
LEMMA AddChildKeeps ==
    ASSUME NEW h, IsHist(h), NEW m
    PROVE  IsHist(add_child_id_to_parent(h, m)) /\ Ids(add_child_id_to_parent(h, m)) = Ids(h)
<1>1. PICK p : p = h.msgs[m].parent
    OBVIOUS
<1>2. CASE p \in Ids(h)
  <2>1. PICK e : add_child_id_to_parent(h, m) = [h EXCEPT !.msgs[p].kids = e]
      BY <1>1, <1>2 DEF add_child_id_to_parent
  <2>2. PICK msgs : msgs = [h.msgs EXCEPT ![p].kids = e]
      OBVIOUS
  <2>3. add_child_id_to_parent(h, m) = [msgs |-> msgs, cur |-> h.cur]
      BY <2>1, <2>2 DEF IsHist
  <2>4. DOMAIN msgs = Ids(h)
      BY <2>2 DEF Ids
  <2> QED BY <2>3, <2>4 DEF IsHist, Ids
<1>3. CASE p \notin Ids(h)
    BY <1>1, <1>3 DEF add_child_id_to_parent
<1> QED BY <1>2, <1>3
LEMMA UpsertKeepsIds ==
    ASSUME NEW h, IsHist(h), NEW m, NEW d, NEW g \in upsert_message_to_history(h, m, d)
    PROVE  IsHist(g) /\ Ids(h) \subseteq Ids(g)
<1>1. CASE m \in Ids(h)
  <2>1. PICK k : k = [h EXCEPT !.msgs[m] = Over(@, d)]
      OBVIOUS
  <2>2. g = add_child_id_to_parent(k, m)
      BY <1>1, <2>1 DEF upsert_message_to_history
  <2>3. PICK msgs : msgs = [h.msgs EXCEPT ![m] = Over(h.msgs[m], d)]
      OBVIOUS
  <2>4. k = [msgs |-> msgs, cur |-> h.cur]
      BY <2>1, <2>3 DEF IsHist
  <2>5. DOMAIN msgs = Ids(h)
      BY <2>3 DEF Ids
  <2>6. IsHist(k) /\ Ids(k) = Ids(h)
      BY <2>4, <2>5 DEF IsHist, Ids
  <2> QED BY <2>2, <2>6, AddChildKeeps
<1>2. CASE m \notin Ids(h)
  <2>1. PICK p : g = add_child_id_to_parent([msgs |-> [x \in Ids(h) \cup {m} |->
                        IF x = m THEN [parent |-> p, kids |-> IF Has(d, "kids") THEN d.kids ELSE {},
                                       text |-> IF Has(d, "text") THEN d.text ELSE "none"] ELSE h.msgs[x]], cur |-> m], m)
      BY <1>2 DEF upsert_message_to_history
  <2>2. PICK k : /\ g = add_child_id_to_parent(k, m)
                 /\ k = [msgs |-> [x \in Ids(h) \cup {m} |->
                        IF x = m THEN [parent |-> p, kids |-> IF Has(d, "kids") THEN d.kids ELSE {},
                                       text |-> IF Has(d, "text") THEN d.text ELSE "none"] ELSE h.msgs[x]], cur |-> m]
      BY <2>1
  <2>3. IsHist(k) /\ Ids(k) = Ids(h) \cup {m}
      BY <2>2 DEF IsHist, Ids
  <2> QED BY <2>2, <2>3, AddChildKeeps
<1> QED BY <1>1, <1>2
LEMMA DeleteKeepsHist ==
    ASSUME NEW h, IsHist(h), NEW m, NEW g \in delete_message_from_history(h, m)
    PROVE  IsHist(g)
<1>1. g = h \/ \E msgs, x : g = [msgs |-> msgs, cur |-> x]
  <2>1. CASE Deleted(h, m) = {}
      BY <2>1 DEF delete_message_from_history
  <2>2. CASE Deleted(h, m) # {}
    <3>1. PICK t : /\ \E msgs : t = [msgs |-> msgs, cur |-> None]
                   /\ g = t \/ \E x : g = [t EXCEPT !.cur = x]
        BY <2>2 DEF delete_message_from_history
    <3> QED BY <3>1
  <2> QED BY <2>1, <2>2
<1> QED BY <1>1 DEF IsHist
LEMMA MergeKeeps ==
    ASSUME NEW h, NEW new
    PROVE  IsHist(merge_history(h, new)) /\ Ids(h) \subseteq Ids(merge_history(h, new))
BY DEF merge_history, IsHist, Ids
LEMMA RewrittenKeeps ==
    ASSUME NEW h, IsHist(h), NEW s, s.do \in ColumnOps, NEW g \in Rewritten(h, s)
    PROVE  IsHist(g) /\ (s.do # "delete" => Ids(h) \subseteq Ids(g))
<1>1. CASE s.do = "save"
    BY <1>1, MergeKeeps DEF Rewritten
<1>2. CASE s.do = "upsert"
  <2>1. PICK k \in repair_chat_current_id(h) : g \in upsert_message_to_history(k, s.m, s.data)
      BY <1>2 DEF Rewritten
  <2>2. IsHist(k) /\ Ids(k) = Ids(h)
      BY <2>1, RepairKeeps
  <2> QED BY <2>1, <2>2, UpsertKeepsIds
<1>3. CASE s.do = "delete"
  <2>1. PICK k \in repair_chat_current_id(h) : g \in delete_message_from_history(k, s.m)
      BY <1>3 DEF Rewritten
  <2>2. IsHist(k)
      BY <2>1, RepairKeeps
  <2> QED BY <1>3, <2>1, <2>2, DeleteKeepsHist
<1>4. CASE s.do \in {"status", "repair"}
    BY <1>4, RepairKeeps DEF Rewritten
<1>5. CASE s.do \in {"title", "files"}
    BY <1>5 DEF Rewritten
<1> QED BY <1>1, <1>2, <1>3, <1>4, <1>5 DEF ColumnOps

(* Steps. *)
\* A request is replaced by one that is as it should be.
LEMMA EditsKeep ==
    ASSUME HistIInv, NEW c \in HistoryClient, NEW e, EditOK(e), edit' = [edit EXCEPT ![c] = e], hist' # None => IsHist(hist')
    PROVE  HistIInv'
<1>1. edit' = [d \in HistoryClient |-> IF d = c THEN e ELSE edit[d]]
    BY DEF HistIInv
<1>2. DOMAIN edit' = HistoryClient /\ edit' = [d \in HistoryClient |-> edit'[d]]
    BY <1>1
<1>3. \A d \in HistoryClient : EditOK(edit'[d])
    BY <1>1 DEF HistIInv
<1> QED BY <1>2, <1>3 DEF HistIInv, IsHist, EditOK, IsProgram
LEMMA MadeOK ==
    ASSUME NEW p, IsProgram(p), NEW seen, seen # None => IsHist(seen), NEW out, NEW dead
    PROVE  EditOK([prog |-> p, seen |-> seen, out |-> out, dead |-> dead])
BY DEF EditOK
LEMMA RestingOK == EditOK(Resting) /\ Resting.prog = <<>>
BY ProgramNone, MadeOK DEF Resting
LEMMA StartKeeps ==
    ASSUME HistIInv, NEW c \in HistoryClient, NEW p, IsProgram(p), Start(c, p)
    PROVE  HistIInv' /\ MessagesOutlive
<1>1. edit' = [edit EXCEPT ![c] = [prog |-> p, seen |-> None, out |-> Empty, dead |-> {}]] /\ hist' = hist
  <2>1. [Resting EXCEPT !.prog = p] = [prog |-> p, seen |-> None, out |-> Empty, dead |-> {}]
    <3>1. PICK a, b : a = <<>> /\ b = {}
        OBVIOUS
    <3>2. Resting = [prog |-> a, seen |-> None, out |-> Empty, dead |-> b]
        BY <3>1 DEF Resting
    <3>3. [[prog |-> a, seen |-> None, out |-> Empty, dead |-> b] EXCEPT !.prog = p] = [prog |-> p, seen |-> None, out |-> Empty, dead |-> b]
        OBVIOUS
    <3> QED BY <3>1, <3>2, <3>3
  <2>2. edit' = [edit EXCEPT ![c] = [Resting EXCEPT !.prog = p]] /\ hist' = hist
      BY DEF Start
  <2> QED BY <2>1, <2>2
<1>2. EditOK([prog |-> p, seen |-> None, out |-> Empty, dead |-> {}])
    BY MadeOK
<1>3. HistIInv'
    BY <1>1, <1>2, EditsKeep DEF HistIInv
<1> QED BY <1>1, <1>3 DEF MessagesOutlive
LEMMA GoesOK ==
    ASSUME HistIInv, NEW c \in HistoryClient, NEW seen, NEW out, NEW dead, seen = None, edit[c].prog # <<>>, Goes(c, seen, out, dead)
    PROVE  \E e : EditOK(e) /\ edit' = [edit EXCEPT ![c] = e] /\ edit'[c].prog # edit[c].prog
<1>1. PICK q : q = edit[c]
    OBVIOUS
<1>2. EditOK(q)
    BY <1>1 DEF HistIInv
<1>3. IsProgram(Tail(q.prog)) /\ Tail(q.prog) # q.prog
    BY <1>1, <1>2, ProgramTail DEF EditOK
<1>4. PICK e : e = IF Tail(q.prog) = <<>> THEN Resting ELSE [prog |-> Tail(q.prog), seen |-> seen, out |-> out, dead |-> dead]
    OBVIOUS
<1>5. EditOK(e) /\ e.prog # q.prog
    BY <1>1, <1>3, <1>4, MadeOK, RestingOK
<1>6. edit' = [edit EXCEPT ![c] = e]
    BY <1>1, <1>4 DEF Goes
<1>7. edit'[c] = e
    BY <1>6 DEF HistIInv
<1> QED BY <1>1, <1>5, <1>6, <1>7
LEMMA EndsOK ==
    ASSUME HistIInv, NEW c \in HistoryClient, edit[c].prog # <<>>, Ends(c)
    PROVE  \E e : EditOK(e) /\ edit' = [edit EXCEPT ![c] = e] /\ edit'[c].prog # edit[c].prog
<1>1. edit' = [edit EXCEPT ![c] = Resting]
    BY DEF Ends
<1>2. edit'[c] = Resting
    BY <1>1 DEF HistIInv
<1> QED BY <1>1, <1>2, RestingOK
\* Most steps leave the column alone.
LEMMA ColumnStays ==
    ASSUME HistIInv, NEW c \in HistoryClient, NEW e, EditOK(e), edit' = [edit EXCEPT ![c] = e], UNCHANGED hist
    PROVE  HistIInv' /\ MessagesOutlive
<1>1. HistIInv'
    BY EditsKeep DEF HistIInv
<1> QED BY <1>1 DEF MessagesOutlive
LEMMA ColumnReadKeeps ==
    ASSUME HistIInv, NEW c \in HistoryClient, ReadColumn(c)
    PROVE  HistIInv' /\ MessagesOutlive
<1>1. CASE hist = None
    BY <1>1, EndsOK, ColumnStays DEF ReadColumn, Does
<1>2. CASE hist # None
  <2>1. edit' = [edit EXCEPT ![c].seen = hist] /\ UNCHANGED hist
      BY <1>2 DEF ReadColumn
  <2>2. PICK q : q = edit[c]
      OBVIOUS
  <2>3. EditOK(q)
      BY <2>2 DEF HistIInv
  <2>4. [q EXCEPT !.seen = hist] = [prog |-> q.prog, seen |-> hist, out |-> q.out, dead |-> q.dead]
      BY <2>3 DEF EditOK
  <2>5. EditOK([q EXCEPT !.seen = hist])
      BY <1>2, <2>3, <2>4, MadeOK DEF EditOK, HistIInv
  <2>6. edit' = [edit EXCEPT ![c] = [q EXCEPT !.seen = hist]]
      BY <2>1, <2>2
  <2> QED BY <2>1, <2>5, <2>6, ColumnStays
<1> QED BY <1>1, <1>2
LEMMA ColumnKeeps ==
    ASSUME HistIInv, NEW c \in HistoryClient, WriteColumn(c)
    PROVE  HistIInv' /\ MessagesOutlive
<1>1. PICK s : s = Doing(c)
    OBVIOUS
<1>2. PICK seen : seen = IF Locked(s) THEN hist ELSE edit[c].seen
    OBVIOUS
<1>3. edit[c].prog # <<>> /\ s.do \in ColumnOps /\ (Locked(s) \/ edit[c].seen # None) /\ EditOK(edit[c])
    BY <1>1 DEF WriteColumn, Does, HistIInv
<1>4. CASE hist = None
  <2>1. Ends(c) /\ UNCHANGED hist
      BY <1>4 DEF WriteColumn
  <2> QED BY <1>3, <2>1, EndsOK, ColumnStays
<1>5. CASE hist # None
  <2>1. PICK h, dead :
           /\ h \in Rewritten(seen, s)
           /\ dead = (IF s.do = "delete" THEN Ids(seen) \ Ids(h) ELSE {})
           /\ hist' = IF s.do = "repair" /\ h = seen THEN hist ELSE h
           /\ gone' = gone \cup dead
           /\ Ends(c) \/ Goes(c, None, h, dead)
      BY <1>1, <1>2, <1>5 DEF WriteColumn
  <2>2. PICK e : EditOK(e) /\ edit' = [edit EXCEPT ![c] = e] /\ edit'[c].prog # edit[c].prog
      BY <1>3, <2>1, EndsOK, GoesOK
  <2>3. IsHist(seen)
      BY <1>2, <1>3, <1>5 DEF EditOK, HistIInv
  <2>4. IsHist(h) /\ (s.do # "delete" => Ids(seen) \subseteq Ids(h))
      BY <1>3, <2>1, <2>3, RewrittenKeeps
  <2>5. IsHist(hist')
      BY <1>5, <2>1, <2>4 DEF HistIInv
  <2>6. HistIInv'
      BY <2>2, <2>5, EditsKeep
  <2>7. ASSUME dialect = "postgresql", ~RepairWrites PROVE Ids(hist) \ Ids(hist') \subseteq gone'
    <3>1. s.do # "repair"
      <4>1. SUFFICES ASSUME s.do = "repair" PROVE FALSE
          OBVIOUS
      <4>2. edit[c].seen # None
          BY <1>3, <4>1 DEF Locked
      <4>3. Does(c, {"repair"})
          BY <1>1, <1>3, <4>1 DEF Does
      <4> QED BY <2>2, <2>7, <4>2, <4>3 DEF RepairWrites
    <3>2. seen = hist
        BY <1>2, <2>7, <3>1 DEF Locked
    <3>3. hist' = h
        BY <2>1, <3>1
    <3>4. CASE s.do = "delete"
        BY <2>1, <3>2, <3>3, <3>4
    <3>5. CASE s.do # "delete"
        BY <2>4, <3>2, <3>3, <3>5
    <3> QED BY <3>4, <3>5
  <2> QED BY <2>6, <2>7 DEF MessagesOutlive
<1> QED BY <1>4, <1>5
LEMMA SiblingsKeep ==
    ASSUME HistIInv, NEW c \in HistoryClient, ReadSiblings(c)
    PROVE  HistIInv' /\ MessagesOutlive
<1>1. PICK q : q = edit[c]
    OBVIOUS
<1>2. EditOK(q) /\ UNCHANGED hist
    BY <1>1 DEF HistIInv, ReadSiblings
<1>3. PICK p, b :
         /\ edit' = [edit EXCEPT ![c].prog = p]
         /\ p = SubSeq(q.prog, 4, Len(q.prog)) \/ p = <<b>> \o SubSeq(q.prog, 3, Len(q.prog))
    BY <1>1 DEF ReadSiblings
<1>4. IsProgram(SubSeq(q.prog, 4, Len(q.prog))) /\ IsProgram(SubSeq(q.prog, 3, Len(q.prog)))
    BY <1>2, ProgramRest DEF EditOK
<1>5. IsProgram(p)
    BY <1>3, <1>4, ProgramOne, ProgramConcat
<1>6. [q EXCEPT !.prog = p] = [prog |-> p, seen |-> q.seen, out |-> q.out, dead |-> q.dead]
    BY <1>2 DEF EditOK
<1>7. EditOK([q EXCEPT !.prog = p])
    BY <1>2, <1>5, <1>6, MadeOK DEF EditOK
<1>8. edit' = [edit EXCEPT ![c] = [q EXCEPT !.prog = p]]
    BY <1>1, <1>3
<1> QED BY <1>2, <1>7, <1>8, ColumnStays
LEMMA HistoryStepKeeps ==
    ASSUME HistIInv, NEW c \in HistoryClient, HistoryStep(c)
    PROVE  HistIInv' /\ MessagesOutlive
<1>1. CASE upsert_message(c) \/ backfill_messages_by_chat_id(c) \/ delete_message_ids_by_chat_id(c) \/ ReadMap(c) \/ RowFails(c)
  <2>1. edit[c].prog # <<>> /\ UNCHANGED hist
      BY <1>1 DEF upsert_message, backfill_messages_by_chat_id, delete_message_ids_by_chat_id, ReadMap, RowFails, Does
  <2>2. \E out, dead : Goes(c, None, out, dead)
      BY <1>1 DEF upsert_message, backfill_messages_by_chat_id, delete_message_ids_by_chat_id, ReadMap, RowFails
  <2>3. PICK e : EditOK(e) /\ edit' = [edit EXCEPT ![c] = e]
      BY <2>1, <2>2, GoesOK
  <2> QED BY <2>1, <2>3, ColumnStays
<1>2. CASE DropChat(c)
  <2>1. edit[c].prog # <<>> /\ hist' = None /\ Ends(c)
      BY <1>2 DEF DropChat, Does
  <2>2. PICK e : EditOK(e) /\ edit' = [edit EXCEPT ![c] = e]
      BY <2>1, EndsOK
  <2>3. HistIInv'
      BY <2>1, <2>2, EditsKeep
  <2> QED BY <2>1, <2>3 DEF MessagesOutlive
<1> QED BY <1>1, <1>2, ColumnReadKeeps, ColumnKeeps, SiblingsKeep DEF HistoryStep
LEMMA HistoryStarts == HistoryInit => HistIInv
BY RestingOK DEF HistoryInit, HistIInv, IsHist, Empty
LEMMA HistoryPauses == HistIInv /\ UNCHANGED historyVars => HistIInv'
BY DEF HistIInv, historyVars
LEMMA HistorySteps == HistIInv /\ HistoryNext => HistIInv' /\ MessagesOutlive
<1> SUFFICES ASSUME HistIInv, HistoryNext PROVE HistIInv' /\ MessagesOutlive
    OBVIOUS
<1>1. CASE Load
  <2>1. UNCHANGED <<hist, edit>>
      BY <1>1 DEF Load
  <2> QED BY <2>1 DEF HistIInv, MessagesOutlive
<1>2. ASSUME NEW c \in HistoryClient, NEW p, IsProgram(p), Start(c, p) PROVE HistIInv' /\ MessagesOutlive
    BY <1>2, StartKeeps
<1>3. ASSUME NEW c \in HistoryClient, SavePage(c) PROVE HistIInv' /\ MessagesOutlive
  <2>1. \E form : Start(c, update_chat_by_id(form))
      BY <1>3 DEF SavePage
  <2> QED BY <2>1, <1>2, ProgramsAre
<1>4. ASSUME NEW c \in HistoryClient, SendTurn(c) PROVE HistIInv' /\ MessagesOutlive
  <2>1. \E u, a : Start(c, chat_turn(page.cur, u, a))
      BY <1>4 DEF SendTurn
  <2> QED BY <2>1, <1>2, TurnProgram
<1>5. ASSUME NEW c \in HistoryClient, NEW m \in Msg, OnMessage(c, m) PROVE HistIInv' /\ MessagesOutlive
    BY <1>5, <1>2, ProgramsAre DEF OnMessage
<1>6. ASSUME NEW c \in HistoryClient, OnChat(c) PROVE HistIInv' /\ MessagesOutlive
    BY <1>6, <1>2, ProgramsAre DEF OnChat
<1> QED BY <1>1, <1>3, <1>4, <1>5, <1>6, HistoryStepKeeps DEF HistoryNext

-----------------------------------------------------------------------------
(* The specification.                                                       *)

LEMMA WorkspaceInvariant == Spec => [](/\ area = "turn" => TurnIInv
                                       /\ area = "tools" => BtIInv
                                       /\ area = "retrieval" => RetIInv
                                       /\ area = "memory" => MemIInv
                                       /\ area = "history" => HistIInv)
<1> DEFINE IInv == (area = "turn" => TurnIInv) /\ (area = "tools" => BtIInv) /\ (area = "retrieval" => RetIInv)
                  /\ (area = "memory" => MemIInv) /\ (area = "history" => HistIInv)
<1>1. Init => IInv
    BY TurnInitIInv, BtInitIInv, RetInitIInv, MemInitIInv, HistoryStarts DEF Init
<1>2. IInv /\ [Next]_vars => IInv'
  <2> SUFFICES ASSUME IInv, [Next]_vars PROVE IInv'
      OBVIOUS
  <2>1. area' = area
      BY DEF Next, vars
  <2>2. area = "turn" => TurnIInv'
    <3>1. area = "turn" => [TurnNext]_turnVars
        BY DEF Next, vars
    <3> QED BY <3>1, TurnNextIInv
  <2>3. area = "tools" => BtIInv'
    <3>1. area = "tools" => [BtNext]_btVars
        BY DEF Next, vars
    <3> QED BY <3>1, BtNextIInv
  <2>4. area = "retrieval" => RetIInv'
    <3>1. area = "retrieval" => [RetrievalNext]_retrievalVars
        BY DEF Next, vars
    <3> QED BY <3>1, RetNextIInv
  <2>5. area = "memory" => MemIInv'
    <3>1. area = "memory" => [MemoryNext]_memoryVars
        BY DEF Next, vars
    <3> QED BY <3>1, MemNextIInv
  <2>6. area = "history" => HistIInv'
    <3>1. area = "history" => HistoryNext \/ UNCHANGED historyVars
        BY DEF Next, vars
    <3> QED BY <3>1, HistorySteps, HistoryPauses
  <2> QED BY <2>1, <2>2, <2>3, <2>4, <2>5, <2>6
<1> QED BY <1>1, <1>2, PTL DEF Spec

(* utils/middleware.py process_chat_payload and what follows it, main.py     *)
(* process_chat: whatever stage fails, is refused or is cancelled, and       *)
(* whatever the user edits, deletes or may no longer use meanwhile, what     *)
(* reached the model was allowed, the connections the turn recorded are      *)
(* closed, and the browser is told how it ended, as the message says.        *)
THEOREM TurnIsSound == Spec => []TurnHolds
<1>1. (area = "turn" => TurnIInv) => TurnHolds
    BY TurnEnd DEF TurnHolds
<1> QED BY <1>1, WorkspaceInvariant, PTL

(* tools/builtin.py: whatever its owners share, move and delete while a tool *)
(* awaits, a tool shows only what its user could read during the call, or    *)
(* was given with the model, and changes only what he could change.          *)
THEOREM ToolsAreSound == Spec => []ToolsHold
<1>1. (area = "tools" => BtIInv) => ToolsHold
    BY BtEnd DEF ToolsHold
<1> QED BY <1>1, WorkspaceInvariant, PTL

(* retrieval/utils.py and routers/retrieval.py: whatever items and names a   *)
(* request gives, in whatever order, whatever stores fail and whatever       *)
(* rights change while it awaits, it gets and writes only what its user was  *)
(* allowed at some moment since it began; and the best of what is found in   *)
(* each collection, merged, is the best of them all.                         *)
THEOREM RetrievalIsSound == Spec => []RetrievalHolds
<1>1. (area = "retrieval" => RetIInv) => RetrievalHolds
    BY RetEnd DEF RetrievalHolds
<1> QED BY <1>1, WorkspaceInvariant, PTL

(* routers/memories.py, utils/memory.py: whatever requests, reviews and      *)
(* rebuilds of a collection cross, whatever call of the store fails, the     *)
(* collection has just the memories there are, as they are, but for those    *)
(* being written and those a crossing or a failure left behind; a chat is    *)
(* told no memory twice; and a path that the list names leads to memories.   *)
THEOREM MemoryIsSound == Spec => []MemoryHolds
<1>1. (area = "memory" => MemIInv) => MemoryHolds
    BY MemorySafe DEF MemoryHolds
<1> QED BY <1>1, WorkspaceInvariant, PTL

(* models/chats.py: on PostgreSQL, whose row locks order the changes of the  *)
(* column, and however the requests of a chat cross, no message leaves the   *)
(* history but by a request that deletes it, or by the repair of a read,     *)
(* which no lock covers.                                                     *)
THEOREM MessagesAreKept == Spec => MessagesStay
<1>1. (area = "history" => HistIInv) /\ [Next]_vars => [area = "history" => MessagesOutlive]_historyVars
  <2> SUFFICES ASSUME area = "history" => HistIInv, [Next]_vars, area = "history", historyVars' # historyVars
               PROVE  MessagesOutlive
      OBVIOUS
  <2>1. HistoryNext
      BY DEF Next, vars, historyVars
  <2> QED BY <2>1, HistorySteps
<1> QED BY <1>1, WorkspaceInvariant, PTL DEF Spec, MessagesStay
=============================================================================
