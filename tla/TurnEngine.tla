----------------------------- MODULE TurnEngine -----------------------------
(***************************************************************************)
(* One turn of the LangGraph conversation engine (core/llm_engine.py,      *)
(* build_graph) as the WebSocket handler runs it (routes/chat.py,          *)
(* _run_stream): the nodes, the conditional edge after call_llm, the       *)
(* messages that accumulate, the tokens forwarded while call_llm runs, and  *)
(* the reply the handler extracts when the graph is done, times out or     *)
(* fails.                                                                  *)
(*                                                                         *)
(* Texts are abstracted to the message they belong to: a streamed piece    *)
(* names its AI message and says whether it is the whole text or what was   *)
(* sent before the call failed.  Which courses a text cites, and whether it *)
(* holds personal data, are chosen when respond and validate_output look.   *)
(* Every course has a code and a title, so validate_output keeps the cards. *)
(***************************************************************************)
EXTENDS Integers, Sequences, FiniteSets, Functions

CONSTANTS
  MaxRounds,   \* MAX_TOOL_ROUNDS (4 in the code)
  MaxCalls,    \* MAX_TOOL_CALLS_PER_TURN (10)
  MaxCards,    \* MAX_COURSE_CARDS_PER_RESPONSE (8)
  MaxFanout,   \* bound: tool calls in one AI message (the model's choice)
  Courses,     \* courses a tool may return
  NoCourse     \* a result that yields no card: an error, or another tool's

ASSUME EngineAssumption ==
  /\ MaxRounds \in Nat
  /\ MaxCalls \in Nat
  /\ MaxCards \in Nat \ {0}
  /\ MaxFanout \in Nat
  /\ NoCourse \notin Courses

VARIABLES
  node,             \* the node about to run, "end" when the graph is done
  messages,         \* state["messages"], from the user's message on
  call_count,
  tool_rounds,
  error,            \* state["error"] is set
  structured_data,  \* the course cards
  attempt,          \* 1: with tools, 2: the retry without
  streamed,         \* pieces of streamed_reply
  in_llm_segment,
  outcome,          \* what the handler did with the turn
  reply,            \* the chat_response it sent and persisted
  request,          \* history variable: the conversation of the last LLM request
  requests,         \* history variable: calls of the Anthropic clients
  executed,         \* history variable: tool calls that were not refused
  cited             \* history variable: courses the final text cites

graph == << node, messages, call_count, tool_rounds, error, structured_data, attempt >>
stream == << streamed, in_llm_segment >>
handler == << outcome, reply >>
history == << request, requests, executed, cited >>
vars == << graph, stream, handler, history >>

Nodes == {"classify_intent", "build_context", "call_llm", "tool_node",
          "final_response", "respond", "validate_output", "end"}

Human == [kind |-> "human"]
AI(id, calls, text) ==
  [kind |-> "ai", id |-> id, calls |-> calls, text |-> text, redacted |-> FALSE]
ToolMessage(id, i, course) == [kind |-> "tool", call |-> << id, i >>, course |-> course]

LastMessage == messages[Len(messages)]
HasToolCalls(m) == m.kind = "ai" /\ m.calls > 0
NextId == Len(messages) + 1

Init ==
  /\ node = "classify_intent"
  /\ messages = << Human >>
  /\ call_count = 0
  /\ tool_rounds = 0
  /\ error = FALSE
  /\ structured_data = << >>
  /\ attempt = 1
  /\ streamed = << >>
  /\ in_llm_segment = FALSE
  /\ outcome = "running"
  /\ reply = [kind |-> "none", pieces |-> << >>]
  /\ request = << >>
  /\ requests = 0
  /\ executed = 0
  /\ cited = {}

At(n) == outcome = "running" /\ node = n

(* Mutant: no separator is ever sent. *)
SegmentJoined == IF streamed = << >> THEN 1 ELSE streamed[Len(streamed)].segment

(* A text piece is forwarded; a segment is what is sent between two nodes   *)
(* other than call_llm, and segments are joined by a blank line.            *)
Segment ==
  IF streamed = << >> THEN 1
  ELSE LET last == streamed[Len(streamed)].segment
       IN IF in_llm_segment THEN last ELSE last + 1

Stream(whole) ==
  /\ streamed' = Append(streamed, [id |-> NextId, whole |-> whole, segment |-> Segment])
  /\ in_llm_segment' = TRUE

-----------------------------------------------------------------------------

Requested(conversation) ==
  /\ request' = conversation
  /\ requests' = requests + 1
  /\ UNCHANGED << executed, cited >>

(* The keywords tell the intent, or the model is asked about the user's      *)
(* message alone; if that fails as well there is a default.                 *)
Classified == Requested(<< Human >>) \/ UNCHANGED history

ClassifyIntent ==
  /\ At("classify_intent")
  /\ node' = "build_context"
  /\ Classified
  /\ UNCHANGED << messages, call_count, tool_rounds, error, structured_data, attempt,
                  stream, handler >>

BuildContext ==
  /\ At("build_context")
  /\ node' = "call_llm"
  /\ UNCHANGED << messages, call_count, tool_rounds, error, structured_data, attempt,
                  stream, handler, history >>

(* Mutant: the round cap is off by one. *)
AfterAnswerLate(m) ==
  IF HasToolCalls(m)
  THEN IF tool_rounds > MaxRounds \/ call_count >= MaxCalls
       THEN "final_response"
       ELSE "tool_node"
  ELSE "respond"

(* Mutant: the cap leads to respond, with the calls left open. *)
AfterAnswerOpen(m) ==
  IF HasToolCalls(m) /\ tool_rounds < MaxRounds /\ call_count < MaxCalls
  THEN "tool_node"
  ELSE "respond"

(* should_continue when the last message m is the model's answer. *)
AfterAnswer(m) ==
  IF HasToolCalls(m)
  THEN IF tool_rounds >= MaxRounds \/ call_count >= MaxCalls
       THEN "final_response"
       ELSE "tool_node"
  ELSE "respond"

(* call_llm answers: with tool calls only while tools are bound. *)
CallLLM ==
  /\ At("call_llm")
  /\ \E calls \in 0 .. MaxFanout, text \in BOOLEAN :
       LET answer == AI(NextId, calls, text) IN
       /\ attempt = 2 => calls = 0
       /\ messages' = Append(messages, answer)
       /\ node' = AfterAnswer(answer)
       /\ IF text THEN Stream(TRUE) ELSE UNCHANGED stream
  /\ attempt' = 1
  /\ Requested(messages)
  /\ UNCHANGED << call_count, tool_rounds, error, structured_data, handler >>

(* The first request raises, perhaps after some tokens: once more, bare. *)
RetryWithoutTools ==
  /\ At("call_llm")
  /\ attempt = 1
  /\ attempt' = 2
  /\ Stream(FALSE) \/ UNCHANGED stream
  /\ Requested(messages)
  /\ UNCHANGED << node, messages, call_count, tool_rounds, error, structured_data, handler >>

(* The retry raises as well: should_continue routes an error to respond. *)
CallLLMFails ==
  /\ At("call_llm")
  /\ attempt = 2
  /\ error' = TRUE
  /\ node' = "respond"
  /\ Stream(FALSE) \/ UNCHANGED stream
  /\ Requested(messages)
  /\ UNCHANGED << messages, call_count, tool_rounds, structured_data, attempt, handler >>

(* asyncio.gather over the calls of the last message; the i-th is numbered  *)
(* call_count + i, and the executor refuses those beyond the cap.           *)
ToolNode ==
  /\ At("tool_node")
  /\ LET calls == LastMessage.calls
         Refused(i) == call_count + i > MaxCalls
     IN /\ \E found \in [1 .. calls -> Courses \cup {NoCourse}] :
             /\ \A i \in 1 .. calls : Refused(i) => found[i] = NoCourse
             /\ messages' = messages \o
                  [i \in 1 .. calls |-> ToolMessage(LastMessage.id, i, found[i])]
        /\ call_count' = call_count + calls
        /\ executed' = executed + (IF call_count' <= MaxCalls THEN calls
                                   ELSE IF call_count <= MaxCalls THEN MaxCalls - call_count
                                   ELSE 0)
  /\ tool_rounds' = tool_rounds + 1
  /\ node' = "call_llm"
  /\ in_llm_segment' = FALSE
  /\ UNCHANGED << error, structured_data, attempt, streamed, handler, request, requests, cited >>

(* Mutant: only the first pending call gets its stub. *)
StubFirst == << ToolMessage(LastMessage.id, 1, NoCourse) >>

(* Stub results for the calls that were refused wholesale. *)
Stubs == [i \in 1 .. LastMessage.calls |-> ToolMessage(LastMessage.id, i, NoCourse)]

(* The closing answer, without tools.  Its tokens are not forwarded: the    *)
(* handler streams call_llm only.                                           *)
FinalResponse ==
  /\ At("final_response")
  /\ \/ \E text \in BOOLEAN :
          /\ messages' = Append(messages \o Stubs, AI(NextId + LastMessage.calls, 0, text))
          /\ UNCHANGED error
     \/ error' = TRUE /\ UNCHANGED messages
  /\ node' = "respond"
  /\ in_llm_segment' = FALSE
  /\ Requested(messages \o Stubs)
  /\ UNCHANGED << call_count, tool_rounds, structured_data, attempt, streamed, handler >>

Results == {i \in DOMAIN messages : messages[i].kind = "tool"}
ResultCourses == {messages[i].course : i \in Results}
LastAI ==
  messages[CHOOSE i \in DOMAIN messages :
             /\ messages[i].kind = "ai"
             /\ \A j \in DOMAIN messages : j > i => messages[j].kind # "ai"]

(* The results that are the first of their course, for the courses cited. *)
FirstResults(mentioned) ==
  {i \in Results : /\ messages[i].course \in mentioned
                   /\ \A j \in Results : j < i => messages[j].course # messages[i].course}

(* The n-th smallest of a set of positions. *)
Nth(S, n) == CHOOSE i \in S : Cardinality({j \in S : j <= i}) = n

(* The first MaxCards of some results, as cards. *)
Capped(results) ==
  [n \in 1 .. (IF Cardinality(results) < MaxCards THEN Cardinality(results) ELSE MaxCards) |->
     messages[Nth(results, n)].course]

(* Mutant: a card for every result, cited or not, of the right tool or not. *)
CardsOfAll(mentioned) == Capped(FirstResults(Courses \cup {NoCourse}))

(* Mutant: the cap is applied before the cited courses are picked. *)
CardsCutFirst(mentioned) ==
  Capped({i \in FirstResults(mentioned) : Cardinality({j \in Results : j <= i}) <= MaxCards})

(* The cards: courses of the results that the final text cites, in order,   *)
(* each once, cut at the cap.                                               *)
Cards(mentioned) == Capped(FirstResults(mentioned))

Respond ==
  /\ At("respond")
  /\ node' = "validate_output"
  /\ IF error
     THEN structured_data' = << >> /\ UNCHANGED cited
     ELSE \E mentioned \in SUBSET Courses :
            /\ ~ LastAI.text => mentioned = {}
            /\ structured_data' = Cards(mentioned)
            /\ cited' = mentioned
  /\ in_llm_segment' = FALSE
  /\ UNCHANGED << messages, call_count, tool_rounds, error, attempt, streamed, handler,
                  request, requests, executed >>

(* The last AI message is replaced, under its own id, when it was redacted. *)
Redact(ms, id) ==
  [i \in DOMAIN ms |-> IF ms[i].kind = "ai" /\ ms[i].id = id
                       THEN [ms[i] EXCEPT !.redacted = TRUE] ELSE ms[i]]

(* Mutant: the edge out of validate_output leads back to respond. *)
ValidateOutputLoops ==
  /\ At("validate_output")
  /\ node' = "respond"
  /\ UNCHANGED << messages, call_count, tool_rounds, error, structured_data, attempt, stream,
                  handler, history >>

ValidateOutput ==
  /\ At("validate_output")
  /\ node' = "end"
  /\ \/ UNCHANGED messages
     \/ ~ error /\ LastAI.text /\ messages' = Redact(messages, LastAI.id)
  /\ in_llm_segment' = FALSE
  /\ UNCHANGED << call_count, tool_rounds, error, structured_data, attempt, streamed, handler,
                  history >>

-----------------------------------------------------------------------------
(* The handler.                                                            *)

(* The reply: the error, else what was streamed, else the last AI message,  *)
(* else an apology.  It is sent and persisted.                              *)
Deliver ==
  /\ At("end")
  /\ outcome' = "replied"
  /\ reply' =
       IF error THEN [kind |-> "error", pieces |-> << >>]
       ELSE IF streamed # << >>
            THEN [kind |-> "text",
                  pieces |-> [i \in DOMAIN streamed |->
                                [id |-> streamed[i].id, whole |-> streamed[i].whole,
                                 redacted |-> FALSE]]]
       ELSE IF LastAI.text
            THEN [kind |-> "text",
                  pieces |-> << [id |-> LastAI.id, whole |-> TRUE,
                                 redacted |-> LastAI.redacted] >>]
       ELSE [kind |-> "apology", pieces |-> << >>]
  /\ UNCHANGED << graph, stream, history >>

(* GRAPH_TIMEOUT_SECONDS pass, or a node raises: an apology is sent, nothing *)
(* of the turn is persisted.                                                *)
Abandon ==
  /\ outcome = "running"
  /\ node # "end"
  /\ outcome' \in {"timeout", "failed"}
  /\ UNCHANGED << graph, stream, reply, history >>

(* A token or a progress frame cannot be sent any more: the handler may be   *)
(* behind the graph, which runs on while it sends.                          *)
Disconnect ==
  /\ outcome = "running"
  /\ node \notin {"classify_intent", "build_context", "end"}
  /\ outcome' = "disconnected"
  /\ UNCHANGED << graph, stream, reply, history >>

GraphStep ==
  \/ ClassifyIntent
  \/ BuildContext
  \/ CallLLM
  \/ RetryWithoutTools
  \/ CallLLMFails
  \/ ToolNode
  \/ FinalResponse
  \/ Respond
  \/ ValidateOutput
  \/ Deliver

(* A turn that is over stays over. *)
Done == outcome # "running" /\ UNCHANGED vars

Next == GraphStep \/ Abandon \/ Disconnect \/ Done

(* Every node returns: its calls have timeouts of their own.  No fairness   *)
(* is asked of the model: nothing makes it stop calling tools.              *)
Spec == Init /\ [][Next]_vars /\ WF_vars(GraphStep)

-----------------------------------------------------------------------------
(* Properties.                                                             *)

AIMessage == [kind : {"ai"}, id : Nat, calls : 0 .. MaxFanout, text : BOOLEAN, redacted : BOOLEAN]
ToolResult == [kind : {"tool"}, call : Nat \X Nat, course : Courses \cup {NoCourse}]
Message == {Human} \cup AIMessage \cup ToolResult

(* Every variable of the turn has its type. *)
TypeOK ==
  /\ node \in Nodes
  /\ messages \in Seq(Message)
  /\ call_count \in Nat
  /\ tool_rounds \in Nat
  /\ error \in BOOLEAN
  /\ structured_data \in Seq(Courses)
  /\ attempt \in {1, 2}
  /\ streamed \in Seq([id : Nat, whole : BOOLEAN, segment : Nat])
  /\ in_llm_segment \in BOOLEAN
  /\ outcome \in {"running", "replied", "timeout", "failed", "disconnected"}
  /\ reply.kind \in {"none", "error", "text", "apology"}
  /\ requests \in Nat
  /\ executed \in Nat

(* Anthropic rejects a request in which a tool_use block is not followed by *)
(* its tool_result, so in every request every call of every AI message is   *)
(* answered, in order, right after it, and no result answers nothing.       *)
WellFormed(ms) ==
  /\ \A i \in 1 .. Len(ms) : ms[i].kind = "ai" =>
       \A j \in 1 .. ms[i].calls :
         /\ i + j <= Len(ms)
         /\ ms[i + j].kind = "tool"
         /\ ms[i + j].call = << ms[i].id, j >>
  /\ \A i \in 1 .. Len(ms) : ms[i].kind = "tool" =>
       \E k \in 1 .. i - 1 :
         /\ ms[k].kind = "ai"
         /\ ms[i].call = << ms[k].id, i - k >>
         /\ i - k <= ms[k].calls

(* See WellFormed: whatever mix of rounds, fan-out and caps led to it. *)
RequestsWellFormed == WellFormed(request)

(* The caps hold for any fan-out: rounds, tool bodies run, and, with the    *)
(* classification, the retry of each call_llm and one closing answer, the   *)
(* requests the service makes of Anthropic.  (Each is one call of a client, *)
(* which may send it again itself, max_retries = 2 times.)                  *)
WorkBounded ==
  /\ tool_rounds <= MaxRounds
  /\ executed <= MaxCalls
  /\ requests <= 2 * MaxRounds + 4

(* A turn that replies without error has closed the exchange: its last      *)
(* message is an AI message that asks for nothing more.                     *)
ExchangeClosed ==
  outcome = "replied" /\ ~ error =>
    /\ WellFormed(messages)
    /\ LastMessage.kind = "ai"
    /\ LastMessage.calls = 0

(* A card is for a course some tool returned this turn and the final text   *)
(* cites; no course has two; no error carries one; no cited course with a   *)
(* result is left out while there is room.                                  *)
CardsGrounded ==
  /\ error => structured_data = << >>
  /\ Len(structured_data) <= MaxCards
  /\ IsInjective(structured_data)
  /\ \A i \in DOMAIN structured_data :
       structured_data[i] \in cited \cap ResultCourses
  /\ node = "end" /\ ~ error /\ Len(structured_data) < MaxCards =>
       cited \cap ResultCourses = Range(structured_data)

(* The texts of two answers never run into each other: a tool round ends    *)
(* the segment, so a separator goes between them.  (What was sent before a  *)
(* failed attempt has the id of the answer its retry gives.)                *)
SegmentsApart ==
  \A i, j \in DOMAIN streamed :
    streamed[i].segment = streamed[j].segment => streamed[i].id = streamed[j].id

(* However long the model would go on, every turn ends. *)
TurnEnds == <>(outcome # "running")

(* The student gets the final answer of a turn that did not fail:           *)
(* final_response is there "so the model can synthesize tool results into a *)
(* coherent final answer instead of leaving the response hanging            *)
(* mid-sentence" (llm_engine.py:518).                                       *)
FinalAnswerDelivered ==
  outcome = "replied" /\ ~ error /\ LastAI.text =>
    \E i \in DOMAIN reply.pieces : reply.pieces[i].id = LastAI.id /\ reply.pieces[i].whole
=============================================================================
