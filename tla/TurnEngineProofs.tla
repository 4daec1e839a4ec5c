-------------------------- MODULE TurnEngineProofs --------------------------
(***************************************************************************)
(* The safety of a turn for every value of the constants, whatever the     *)
(* model answers and however many calls it puts into one message: the      *)
(* caps, the cards, the segments of the stream, the conversation with      *)
(* Anthropic, and the types.                                               *)
(***************************************************************************)
EXTENDS TurnEngine, SequenceTheorems, FiniteSetTheorems, TLAPS

(* What the argument needs to know of the variables' types. *)
WorkType ==
  /\ node \in Nodes
  /\ messages \in Seq(Message)
  /\ messages # << >>
  /\ call_count \in Nat
  /\ tool_rounds \in Nat
  /\ attempt \in {1, 2}
  /\ requests \in Nat
  /\ executed \in Nat

(* tool_node is entered below both caps, with calls to make; tool bodies    *)
(* run are the calls counted, up to the cap; a turn begins with one request *)
(* at most, to classify it, and a round is paid for by the two, at most, of *)
(* one call_llm.                                                            *)
WorkInv ==
  /\ WorkType
  /\ node = "tool_node" => tool_rounds < MaxRounds
  /\ node \in {"tool_node", "final_response"} => LastMessage \in AIMessage
  /\ tool_rounds <= MaxRounds
  /\ executed = IF call_count <= MaxCalls THEN call_count ELSE MaxCalls
  /\ node \in {"classify_intent", "build_context"} => tool_rounds = 0 /\ attempt = 1
  /\ node = "classify_intent" => requests = 0
  /\ node = "build_context" => requests <= 1
  /\ node = "call_llm" => requests <= 2 * tool_rounds + attempt
  /\ node \in {"tool_node", "final_response"} =>
       requests <= 2 * tool_rounds + 3 /\ attempt = 1
  /\ requests <= 2 * tool_rounds + 4

(* Appending a message makes it the last one. *)
LEMMA LastOfAppend ==
  ASSUME NEW m \in Message, messages \in Seq(Message), messages' = Append(messages, m)
  PROVE  /\ messages' \in Seq(Message)
         /\ messages' # << >>
         /\ LastMessage' = m
<1>1. Len(messages) \in Nat
  BY LenProperties
<1> QED
  BY <1>1, AppendProperties DEF LastMessage

(* An answer of the model is a message. *)
LEMMA AnswerIsMessage ==
  ASSUME NEW id \in Nat, NEW calls \in 0 .. MaxFanout, NEW text \in BOOLEAN
  PROVE  AI(id, calls, text) \in AIMessage /\ AI(id, calls, text) \in Message
BY DEF AI, AIMessage, Message

(* A turn starts with no work done. *)
LEMMA InitWork == Init => WorkInv
<1> SUFFICES ASSUME Init PROVE WorkInv
  OBVIOUS
<1>1. << Human >> \in Seq(Message) /\ << Human >> # << >>
  BY DEF Message
<1> QED
  BY <1>1, EngineAssumption DEF Init, WorkInv, WorkType, Nodes

(* An answer costs one request; it leads to tool_node below the caps only. *)
LEMMA CallLLMWork ==
  ASSUME WorkInv, CallLLM
  PROVE  WorkInv'
<1> USE EngineAssumption
<1>1. PICK calls \in 0 .. MaxFanout, text \in BOOLEAN :
        /\ messages' = Append(messages, AI(NextId, calls, text))
        /\ node' = AfterAnswer(AI(NextId, calls, text))
  BY DEF CallLLM
<1> DEFINE answer == AI(NextId, calls, text)
<1>2. NextId \in Nat
  BY LenProperties DEF NextId, WorkInv, WorkType
<1>3. answer \in AIMessage /\ answer \in Message
  BY <1>2, AnswerIsMessage
<1>4. /\ messages' \in Seq(Message)
      /\ messages' # << >>
      /\ LastMessage' = answer
  BY <1>1, <1>3, LastOfAppend DEF WorkInv, WorkType
<1>5. /\ node' \in {"tool_node", "final_response", "respond"}
      /\ node' = "tool_node" => ~ (tool_rounds >= MaxRounds)
  BY <1>1 DEF AfterAnswer
<1>6. /\ node = "call_llm"
      /\ attempt' = 1
      /\ requests' = requests + 1
      /\ UNCHANGED << executed, call_count, tool_rounds >>
  BY DEF CallLLM, Requested, At
<1> HIDE DEF answer
<1> QED
  BY <1>3, <1>4, <1>5, <1>6 DEF WorkInv, WorkType, Nodes

(* A tool result is a message. *)
LEMMA ResultIsMessage ==
  ASSUME NEW id \in Nat, NEW i \in Nat, NEW c \in Courses \cup {NoCourse}
  PROVE  ToolMessage(id, i, c) \in Message
BY DEF ToolMessage, ToolResult, Message

(* Results are appended to a conversation that has begun. *)
LEMMA ConcatType ==
  ASSUME NEW s \in Seq(Message), NEW t \in Seq(Message), s # << >>
  PROVE  s \o t \in Seq(Message) /\ s \o t # << >>
<1>1. Len(s) \in Nat /\ Len(s) # 0 /\ Len(t) \in Nat
  BY LenProperties, EmptySeq
<1>2. s \o t \in Seq(Message) /\ Len(s \o t) = Len(s) + Len(t)
  BY ConcatProperties
<1> QED
  BY <1>1, <1>2, EmptySeq

(* One result per call, in the order of the calls, is a sequence. *)
LEMMA FunctionIsSeq ==
  ASSUME NEW n \in Nat, NEW f \in [1 .. n -> Message]
  PROVE  f \in Seq(Message)
BY SeqDef

(* A round runs no more bodies than the cap leaves, and there was room for it. *)
LEMMA ToolNodeWork ==
  ASSUME WorkInv, ToolNode
  PROVE  WorkInv'
<1> USE EngineAssumption
<1>1. /\ node = "tool_node"
      /\ tool_rounds < MaxRounds
      /\ LastMessage \in AIMessage
  BY DEF ToolNode, At, WorkInv
<1>2. LastMessage.calls \in Nat /\ LastMessage.id \in Nat
  BY <1>1 DEF AIMessage
<1>3. PICK found \in [1 .. LastMessage.calls -> Courses \cup {NoCourse}] :
        messages' = messages \o
          [i \in 1 .. LastMessage.calls |-> ToolMessage(LastMessage.id, i, found[i])]
  BY DEF ToolNode
<1>4. \A i \in 1 .. LastMessage.calls : ToolMessage(LastMessage.id, i, found[i]) \in Message
  BY <1>2, ResultIsMessage
<1>5. [i \in 1 .. LastMessage.calls |-> ToolMessage(LastMessage.id, i, found[i])] \in Seq(Message)
  BY <1>2, <1>4, FunctionIsSeq
<1>6. messages' \in Seq(Message) /\ messages' # << >>
  BY <1>3, <1>5, ConcatType DEF WorkInv, WorkType
<1>7. /\ call_count' = call_count + LastMessage.calls
      /\ executed' = executed + (IF call_count' <= MaxCalls THEN LastMessage.calls
                                 ELSE IF call_count <= MaxCalls THEN MaxCalls - call_count
                                 ELSE 0)
      /\ tool_rounds' = tool_rounds + 1
      /\ node' = "call_llm"
      /\ attempt' = attempt
      /\ requests' = requests
  BY DEF ToolNode
<1> QED
  BY <1>1, <1>2, <1>6, <1>7 DEF WorkInv, WorkType, Nodes

(* The closing answer costs the last request. *)
LEMMA FinalResponseWork ==
  ASSUME WorkInv, FinalResponse
  PROVE  WorkInv'
<1> USE EngineAssumption
<1>1. LastMessage.calls \in Nat /\ LastMessage.id \in Nat
  BY DEF FinalResponse, At, WorkInv, AIMessage
<1>2. NoCourse \in Courses \cup {NoCourse}
  OBVIOUS
<1>3. \A i \in 1 .. LastMessage.calls : ToolMessage(LastMessage.id, i, NoCourse) \in Message
  BY <1>1, <1>2, ResultIsMessage
<1>4. Stubs \in Seq(Message)
  BY <1>1, <1>3, FunctionIsSeq DEF Stubs
<1>5. messages \o Stubs \in Seq(Message) /\ messages \o Stubs # << >>
  BY <1>4, ConcatType DEF WorkInv, WorkType
<1>6. NextId + LastMessage.calls \in Nat
  BY <1>1, LenProperties DEF NextId, WorkInv, WorkType
<1>7. messages' \in Seq(Message) /\ messages' # << >>
  <2>1. CASE UNCHANGED messages
    BY <2>1 DEF WorkInv, WorkType
  <2>2. ASSUME NEW text \in BOOLEAN,
               messages' = Append(messages \o Stubs, AI(NextId + LastMessage.calls, 0, text))
        PROVE  messages' \in Seq(Message) /\ messages' # << >>
    <3>1. AI(NextId + LastMessage.calls, 0, text) \in Message
      BY <1>6, AnswerIsMessage
    <3> QED
      BY <1>5, <2>2, <3>1, AppendProperties
  <2>3. QED
    BY <2>1, <2>2 DEF FinalResponse
<1>8. /\ node = "final_response"
      /\ node' = "respond"
      /\ requests' = requests + 1
      /\ UNCHANGED << executed, call_count, tool_rounds, attempt >>
  BY DEF FinalResponse, Requested, At
<1> QED
  BY <1>7, <1>8 DEF WorkInv, WorkType, Nodes

(* Redaction replaces a message in place. *)
LEMMA RedactType ==
  ASSUME NEW s \in Seq(Message), s # << >>, NEW id
  PROVE  Redact(s, id) \in Seq(Message) /\ Redact(s, id) # << >>
<1>1. Len(s) \in Nat /\ Len(s) # 0 /\ DOMAIN s = 1 .. Len(s)
  BY LenProperties, EmptySeq
<1>2. ASSUME NEW i \in 1 .. Len(s)
      PROVE  Redact(s, id)[i] \in Message
  <2>1. s[i] \in Message
    BY <1>1, ElementOfSeq
  <2>2. CASE s[i].kind = "ai"
    <3>1. s[i] \in AIMessage
      BY <2>1, <2>2 DEF Message, Human, ToolResult
    <3>2. [s[i] EXCEPT !.redacted = TRUE] \in AIMessage
      BY <3>1 DEF AIMessage
    <3> QED
      BY <1>1, <2>1, <3>2 DEF Redact, Message
  <2>3. CASE s[i].kind # "ai"
    BY <1>1, <2>1, <2>3 DEF Redact
  <2> QED
    BY <2>2, <2>3
<1>3. Redact(s, id) \in [1 .. Len(s) -> Message]
  BY <1>1, <1>2 DEF Redact
<1>4. Redact(s, id) \in Seq(Message)
  BY <1>1, <1>3, FunctionIsSeq
<1> QED
  BY <1>1, <1>3, <1>4, EmptySeq

(* Validation makes no request. *)
LEMMA ValidateOutputWork ==
  ASSUME WorkInv, ValidateOutput
  PROVE  WorkInv'
<1>1. messages' = messages \/ messages' = Redact(messages, LastAI.id)
  BY DEF ValidateOutput
<1>2. messages' \in Seq(Message) /\ messages' # << >>
  BY <1>1, RedactType DEF WorkInv, WorkType
<1>3. /\ node' = "end"
      /\ UNCHANGED << requests, executed, call_count, tool_rounds, attempt >>
  BY DEF ValidateOutput, history
<1> QED
  BY <1>2, <1>3 DEF WorkInv, WorkType, Nodes

(* Every step of the graph and of the handler keeps the invariant. *)
LEMMA NextWork == WorkInv /\ [Next]_vars => WorkInv'
<1> SUFFICES ASSUME WorkInv, [Next]_vars PROVE WorkInv'
  OBVIOUS
<1> USE EngineAssumption
<1>1. CASE ClassifyIntent
  BY <1>1 DEF ClassifyIntent, Classified, Requested, At, WorkInv, WorkType, Nodes, history,
              LastMessage
<1>2. CASE BuildContext
  BY <1>2 DEF BuildContext, At, WorkInv, WorkType, Nodes, history, LastMessage
<1>3. CASE CallLLM
  BY <1>3, CallLLMWork
<1>4. CASE RetryWithoutTools
  BY <1>4 DEF RetryWithoutTools, Requested, At, WorkInv, WorkType, Nodes, LastMessage
<1>5. CASE CallLLMFails
  BY <1>5 DEF CallLLMFails, Requested, At, WorkInv, WorkType, Nodes, LastMessage
<1>6. CASE ToolNode
  BY <1>6, ToolNodeWork
<1>7. CASE FinalResponse
  BY <1>7, FinalResponseWork
<1>8. CASE Respond
  BY <1>8 DEF Respond, At, WorkInv, WorkType, Nodes, LastMessage
<1>9. CASE ValidateOutput
  BY <1>9, ValidateOutputWork
<1>10. CASE UNCHANGED << graph, requests, executed >>
  BY <1>10 DEF graph, WorkInv, WorkType, LastMessage
<1>11. Deliver \/ Abandon \/ Disconnect \/ Done \/ UNCHANGED vars
         => UNCHANGED << graph, requests, executed >>
  BY DEF Deliver, Abandon, Disconnect, Done, vars, history
<1> QED
  BY <1>1, <1>2, <1>3, <1>4, <1>5, <1>6, <1>7, <1>8, <1>9, <1>10, <1>11 DEF Next, GraphStep

(* The inductive invariant holds throughout a turn. *)
LEMMA WorkInvariant == Spec => []WorkInv
<1> QED
  BY InitWork, NextWork, PTL DEF Spec

(* Rounds, tool bodies and requests to Anthropic stay below the caps, for   *)
(* every cap and every fan-out (should_continue, ToolExecutor.execute).     *)
THEOREM WorkIsBounded == Spec => []WorkBounded
<1>1. WorkInv => WorkBounded
  BY EngineAssumption DEF WorkInv, WorkType, WorkBounded
<1> QED
  BY <1>1, WorkInvariant, PTL
-----------------------------------------------------------------------------
(* Sets of positions.                                                      *)

Rank(S, i) == Cardinality({j \in S : j <= i})

(* Positions are numbered by their rank, each number once. *)
LEMMA RankInjective ==
  ASSUME NEW S \in SUBSET Nat, IsFiniteSet(S)
  PROVE  /\ \A i \in S : Rank(S, i) \in 1 .. Cardinality(S)
         /\ \A i, k \in S : Rank(S, i) = Rank(S, k) => i = k
<1> DEFINE Upto(i) == {j \in S : j <= i}
<1>1. \A i \in S : IsFiniteSet(Upto(i)) /\ Cardinality(Upto(i)) <= Cardinality(S)
  <2> TAKE i \in S
  <2>1. Upto(i) \in SUBSET S
    OBVIOUS
  <2> QED
    BY <2>1, FS_Subset
<1>2. /\ Cardinality(S) \in Nat
      /\ \A i \in S : Cardinality(Upto(i)) \in Nat
  BY <1>1, FS_CardinalityType
<1>3. \A i \in S : Cardinality(Upto(i)) # 0
  <2> TAKE i \in S
  <2>1. i \in Upto(i)
    OBVIOUS
  <2> QED
    BY <1>1, <2>1, FS_EmptySet
<1>4. ASSUME NEW i \in S, NEW k \in S, i < k
      PROVE  Cardinality(Upto(i)) # Cardinality(Upto(k))
  <2>1. Upto(i) \in SUBSET Upto(k)
    <3>1. \A j \in S : j <= i => j <= k
      BY <1>4
    <3> QED
      BY <3>1
  <2>2. k \in Upto(k) /\ k \notin Upto(i)
    BY <1>4
  <2> HIDE DEF Upto
  <2>3. IsFiniteSet(Upto(k))
    BY <1>1
  <2> QED
    BY <2>1, <2>2, <2>3, FS_Subset
<1>5. \A i \in S : Rank(S, i) = Cardinality(Upto(i))
  BY DEF Rank
<1> HIDE DEF Upto
<1>6. \A i \in S : Rank(S, i) \in 1 .. Cardinality(S)
  BY <1>1, <1>2, <1>3, <1>5
<1>7. ASSUME NEW i \in S, NEW k \in S, Rank(S, i) = Rank(S, k)
      PROVE  i = k
  <2>1. ~ (i < k) /\ ~ (k < i)
    BY <1>4, <1>5, <1>7
  <2> QED
    BY <2>1
<1> QED
  BY <1>6, <1>7

(* So there is a position of each rank, and Nth finds it. *)
LEMMA NthPosition ==
  ASSUME NEW S \in SUBSET Nat, IsFiniteSet(S), NEW n \in 1 .. Cardinality(S)
  PROVE  Nth(S, n) \in S /\ Rank(S, Nth(S, n)) = n
<1> DEFINE f == [i \in S |-> Rank(S, i)]
           T == 1 .. Cardinality(S)
<1>1. Cardinality(S) \in Nat
  BY FS_CardinalityType
<1>2. f \in Injection(S, T)
  BY RankInjective DEF Injection, IsInjective
<1>3. IsFiniteSet(T) /\ Cardinality(T) = Cardinality(S)
  <2>1. 1 \in Int /\ Cardinality(S) \in Int
    BY <1>1
  <2>2. IsFiniteSet(T) /\ Cardinality(T) = IF 1 > Cardinality(S) THEN 0 ELSE Cardinality(S) - 1 + 1
    BY <2>1, FS_Interval
  <2> QED
    BY <1>1, <2>2
<1> HIDE DEF T
<1>4. f \in Surjection(S, T)
  BY <1>2, <1>3, FS_Injection
<1>5. \E i \in S : f[i] = n
  BY <1>4 DEF Surjection, T
<1>6. \E i \in S : Cardinality({j \in S : j <= i}) = n
  BY <1>5 DEF Rank
<1> QED
  BY <1>6 DEF Nth, Rank

(* The set of positions of a list that satisfy a condition is finite. *)
LEMMA PositionsFinite ==
  ASSUME NEW T, NEW s \in Seq(T), NEW S \in SUBSET DOMAIN s
  PROVE  S \in SUBSET Nat /\ IsFiniteSet(S)
<1>1. Len(s) \in Nat /\ DOMAIN s = 1 .. Len(s)
  BY LenProperties
<1>2. IsFiniteSet(1 .. Len(s))
  BY <1>1, FS_Interval
<1> QED
  BY <1>1, <1>2, FS_Subset

(* A function on 1 .. n is a list of length n. *)
LEMMA ListOfLength ==
  ASSUME NEW T, NEW n \in Nat, NEW f \in [1 .. n -> T]
  PROVE  f \in Seq(T) /\ Len(f) = n /\ DOMAIN f = 1 .. n
<1>1. f \in Seq(T)
  BY SeqDef
<1>2. DOMAIN f = 1 .. n /\ DOMAIN f = 1 .. Len(f) /\ Len(f) \in Nat
  BY <1>1, LenProperties
<1> QED
  BY <1>1, <1>2

-----------------------------------------------------------------------------
(* The cards.                                                              *)

CardCount(results) == IF Cardinality(results) < MaxCards THEN Cardinality(results) ELSE MaxCards

(* Of some results, the cards are the first MaxCards, in order. *)
LEMMA CappedCards ==
  ASSUME messages \in Seq(Message), NEW results \in SUBSET DOMAIN messages
  PROVE  /\ CardCount(results) \in Nat
         /\ DOMAIN Capped(results) = 1 .. CardCount(results)
         /\ \A n \in 1 .. CardCount(results) :
              /\ Nth(results, n) \in results
              /\ Rank(results, Nth(results, n)) = n
              /\ Capped(results)[n] = messages[Nth(results, n)].course
         /\ \A i \in results : Rank(results, i) \in 1 .. Cardinality(results)
                               /\ Nth(results, Rank(results, i)) = i
<1>1. results \in SUBSET Nat /\ IsFiniteSet(results)
  BY PositionsFinite
<1>2. Cardinality(results) \in Nat
  BY <1>1, FS_CardinalityType
<1>3. CardCount(results) \in Nat /\ CardCount(results) <= Cardinality(results)
  BY <1>2, EngineAssumption DEF CardCount
<1>4. \A n \in 1 .. Cardinality(results) :
        Nth(results, n) \in results /\ Rank(results, Nth(results, n)) = n
  BY <1>1, NthPosition
<1>5. ASSUME NEW i \in results
      PROVE  Rank(results, i) \in 1 .. Cardinality(results) /\ Nth(results, Rank(results, i)) = i
  BY <1>1, <1>4, RankInjective
<1>6. \A n \in 1 .. CardCount(results) : n \in 1 .. Cardinality(results)
  BY <1>2, <1>3
<1>7. Capped(results) = [n \in 1 .. CardCount(results) |-> messages[Nth(results, n)].course]
  BY DEF Capped, CardCount
<1> QED
  BY <1>3, <1>4, <1>5, <1>6, <1>7

(* Each course of the results has a first result. *)
LEMMA FirstResultExists ==
  ASSUME messages \in Seq(Message), NEW mentioned, NEW c \in mentioned \cap ResultCourses
  PROVE  \E i \in FirstResults(mentioned) : messages[i].course = c
<1> DEFINE S == {i \in Results : messages[i].course = c}
<1>1. S \in SUBSET Nat /\ IsFiniteSet(S)
  BY PositionsFinite DEF Results
<1>2. S # {}
  BY DEF ResultCourses
<1>3. 1 \in 1 .. Cardinality(S)
  <2> HIDE DEF S
  <2>1. Cardinality(S) \in Nat /\ Cardinality(S) # 0
    BY <1>1, <1>2, FS_EmptySet, FS_CardinalityType
  <2> QED
    BY <2>1
<1> DEFINE i == Nth(S, 1)
<1>4. i \in S /\ Cardinality({j \in S : j <= i}) = 1
  BY <1>1, <1>3, NthPosition DEF Rank
<1> HIDE DEF i
<1>5. ASSUME NEW j \in S, j <= i PROVE j = i
  <2>1. {k \in S : k <= i} \in SUBSET S
    OBVIOUS
  <2>2. IsFiniteSet({k \in S : k <= i})
    BY <1>1, <2>1, FS_Subset
  <2>3. PICK x : {k \in S : k <= i} = {x}
    BY <1>4, <2>2, FS_Singleton
  <2>4. i \in {k \in S : k <= i} /\ j \in {k \in S : k <= i}
    BY <1>1, <1>4, <1>5
  <2> QED
    BY <2>3, <2>4
<1>6. \A j \in Results : j < i => messages[j].course # c
  BY <1>1, <1>4, <1>5 DEF Results
<1> QED
  BY <1>4, <1>6 DEF FirstResults

(* What Cards gives: cited courses of the results, each once, at most        *)
(* MaxCards, and all of them when there are fewer.                          *)
LEMMA CardsFacts ==
  ASSUME messages \in Seq(Message), NEW mentioned \in SUBSET Courses
  PROVE  /\ Cards(mentioned) \in Seq(Courses)
         /\ Len(Cards(mentioned)) <= MaxCards
         /\ IsInjective(Cards(mentioned))
         /\ Range(Cards(mentioned)) \subseteq mentioned \cap ResultCourses
         /\ Len(Cards(mentioned)) < MaxCards => mentioned \cap ResultCourses = Range(Cards(mentioned))
<1> DEFINE first == FirstResults(mentioned)
           cards == Cards(mentioned)
           count == CardCount(first)
<1>1. first \in SUBSET DOMAIN messages /\ first \in SUBSET Results
  BY DEF FirstResults, Results
<1>2. \A i \in first : messages[i].course \in mentioned \cap ResultCourses
  BY DEF FirstResults, ResultCourses
<1>3. \A i, k \in first : messages[i].course = messages[k].course => i = k
  <2> TAKE i, k \in first
  <2> HAVE messages[i].course = messages[k].course
  <2>1. i \in Nat /\ k \in Nat /\ ~ (i < k) /\ ~ (k < i)
    BY <1>1, PositionsFinite DEF FirstResults
  <2> QED
    BY <2>1
<1>4. cards = Capped(first)
  BY DEF Cards
<1> HIDE DEF first, cards
<1>5. /\ count \in Nat
      /\ DOMAIN cards = 1 .. count
      /\ \A n \in 1 .. count :
           /\ Nth(first, n) \in first
           /\ Rank(first, Nth(first, n)) = n
           /\ cards[n] = messages[Nth(first, n)].course
      /\ \A i \in first : Rank(first, i) \in 1 .. Cardinality(first)
                          /\ Nth(first, Rank(first, i)) = i
  BY <1>1, <1>4, CappedCards
<1>6. count <= MaxCards /\ (count < MaxCards => count = Cardinality(first))
  <2>1. Cardinality(first) \in Nat
    BY <1>1, PositionsFinite, FS_CardinalityType
  <2> QED
    BY <2>1, EngineAssumption DEF CardCount
<1> HIDE DEF count
<1>7. \A n \in 1 .. count : cards[n] \in mentioned \cap ResultCourses
  BY <1>2, <1>5
<1>8. cards \in Seq(Courses) /\ Len(cards) = count
  <2>1. cards = [n \in 1 .. count |-> messages[Nth(first, n)].course]
    BY <1>4 DEF Capped, count, CardCount
  <2>2. cards \in [1 .. count -> Courses]
    BY <1>5, <1>7, <2>1
  <2> QED
    BY <1>5, <2>2, ListOfLength
<1>9. IsInjective(cards)
  <2> SUFFICES ASSUME NEW m \in 1 .. count, NEW n \in 1 .. count, cards[m] = cards[n]
               PROVE  m = n
    BY <1>5 DEF IsInjective
  <2>1. Nth(first, m) = Nth(first, n)
    BY <1>3, <1>5
  <2> QED
    BY <1>5, <2>1
<1>10. Range(cards) \subseteq mentioned \cap ResultCourses
  BY <1>5, <1>7 DEF Range
<1>11. ASSUME count < MaxCards, NEW c \in mentioned \cap ResultCourses
       PROVE  c \in Range(cards)
  <2>1. PICK i \in first : messages[i].course = c
    BY FirstResultExists DEF first
  <2>2. Rank(first, i) \in 1 .. count /\ Nth(first, Rank(first, i)) = i
    BY <1>5, <1>6, <1>11
  <2>3. cards[Rank(first, i)] = c
    BY <1>5, <2>1, <2>2
  <2> QED
    BY <1>5, <2>2, <2>3 DEF Range
<1> QED
  BY <1>6, <1>8, <1>9, <1>10, <1>11 DEF cards
-----------------------------------------------------------------------------
(* Redaction and the cards.                                                *)

(* Redaction leaves every tool message as it is, and of an AI message       *)
(* everything but the mark.                                                 *)
LEMMA RedactKeeps ==
  ASSUME NEW s \in Seq(Message), NEW id
  PROVE  /\ DOMAIN Redact(s, id) = DOMAIN s
         /\ Len(Redact(s, id)) = Len(s)
         /\ \A i \in DOMAIN s :
              /\ Redact(s, id)[i].kind = s[i].kind
              /\ s[i].kind # "ai" => Redact(s, id)[i] = s[i]
              /\ s[i].kind = "ai" => /\ Redact(s, id)[i].id = s[i].id
                                     /\ Redact(s, id)[i].calls = s[i].calls
<1> DEFINE r == Redact(s, id)
<1>1. Len(s) \in Nat /\ DOMAIN s = 1 .. Len(s)
  BY LenProperties
<1>2. DOMAIN r = DOMAIN s
  BY DEF Redact
<1>3. ASSUME NEW i \in DOMAIN s
      PROVE  /\ r[i].kind = s[i].kind
             /\ s[i].kind # "ai" => r[i] = s[i]
             /\ s[i].kind = "ai" => r[i].id = s[i].id /\ r[i].calls = s[i].calls
  <2>1. s[i] \in Message
    BY <1>1, ElementOfSeq
  <2>2. CASE s[i].kind = "ai"
    <3>1. s[i] \in AIMessage
      BY <2>1, <2>2 DEF Message, Human, ToolResult
    <3> QED
      BY <2>2, <3>1 DEF Redact, AIMessage
  <2>3. CASE s[i].kind # "ai"
    BY <2>3 DEF Redact
  <2> QED
    BY <2>2, <2>3
<1>4. Len(r) = Len(s)
  <2>1. r \in Seq(Message)
    <3>1. CASE s = << >>
      <4>1. r \in [1 .. Len(s) -> Message]
        BY <1>1, <3>1, EmptySeq, <1>2 DEF Redact
      <4> QED
        BY <1>1, <4>1, FunctionIsSeq
    <3>2. CASE s # << >>
      BY <3>2, RedactType
    <3> QED
      BY <3>1, <3>2
  <2>2. DOMAIN r = 1 .. Len(r) /\ Len(r) \in Nat
    BY <2>1, LenProperties
  <2> HIDE DEF r
  <2> QED
    BY <1>1, <1>2, <2>2
<1> QED
  BY <1>2, <1>3, <1>4

(* Cards read nothing of the conversation but its tool messages. *)
LEMMA CardsOfSameResults ==
  ASSUME messages \in Seq(Message), NEW mentioned,
         DOMAIN messages' = DOMAIN messages,
         \A i \in DOMAIN messages :
           /\ messages'[i].kind = messages[i].kind
           /\ messages[i].kind = "tool" => messages'[i] = messages[i]
  PROVE  Cards(mentioned)' = Cards(mentioned)
<1>1. Results' = Results /\ \A i \in Results : messages'[i] = messages[i]
  BY DEF Results
<1>2. FirstResults(mentioned)' = FirstResults(mentioned)
  BY <1>1 DEF FirstResults
<1> DEFINE first == FirstResults(mentioned)
<1>3. first \in SUBSET DOMAIN messages /\ first \in SUBSET Results
  BY DEF FirstResults, Results
<1> HIDE DEF first
<1>4. \A n \in 1 .. CardCount(first) : Nth(first, n) \in first
  BY <1>3, CappedCards
<1>5. Capped(first) = [n \in 1 .. CardCount(first) |-> messages[Nth(first, n)].course]
  BY DEF Capped, CardCount
<1>6. Cards(mentioned)' = [n \in 1 .. CardCount(first) |-> messages'[Nth(first, n)].course]
  BY <1>2 DEF Cards, Capped, CardCount, first, Nth
<1>7. \A n \in 1 .. CardCount(first) : messages'[Nth(first, n)].course = messages[Nth(first, n)].course
  BY <1>1, <1>3, <1>4
<1> QED
  BY <1>5, <1>6, <1>7 DEF Cards, first

(* There are no cards before respond, and after it those of the final text. *)
CardsInv ==
  /\ WorkInv
  /\ node \notin {"validate_output", "end"} => structured_data = << >> /\ cited = {}
  /\ node \in {"validate_output", "end"} =>
       /\ cited \in SUBSET Courses
       /\ structured_data = IF error THEN << >> ELSE Cards(cited)

LEMMA InitCards == Init => CardsInv
BY InitWork DEF Init, CardsInv

(* No node before respond touches the cards. *)
LEMMA EarlyCards ==
  ASSUME CardsInv, WorkInv', node \notin {"validate_output", "end"},
         node' \notin {"validate_output", "end"}, UNCHANGED << structured_data, cited >>
  PROVE  CardsInv'
BY DEF CardsInv

LEMMA RespondCards ==
  ASSUME CardsInv, WorkInv', Respond
  PROVE  CardsInv'
<1>1. node' = "validate_output" /\ UNCHANGED << messages, error >> /\ node = "respond"
  BY DEF Respond, At
<1>2. CASE error
  BY <1>1, <1>2 DEF Respond, CardsInv
<1>3. CASE ~ error
  <2>1. PICK mentioned \in SUBSET Courses :
          structured_data' = Cards(mentioned) /\ cited' = mentioned
    BY <1>3 DEF Respond
  <2>2. Cards(mentioned)' = Cards(mentioned)
    BY <1>1, CardsOfSameResults DEF CardsInv, WorkInv, WorkType
  <2>3. (structured_data = Cards(cited))'
    BY <2>1, <2>2
  <2> QED
    BY <1>1, <1>3, <2>1, <2>3 DEF CardsInv
<1> QED
  BY <1>2, <1>3

LEMMA LateCards ==
  ASSUME CardsInv, WorkInv', node \in {"validate_output", "end"},
         node' \in {"validate_output", "end"}, UNCHANGED << structured_data, cited, error >>,
         messages' = messages \/ \E id : messages' = Redact(messages, id)
  PROVE  CardsInv'
<1>1. messages \in Seq(Message)
  BY DEF CardsInv, WorkInv, WorkType
<1>2. /\ DOMAIN messages' = DOMAIN messages
      /\ \A i \in DOMAIN messages :
           /\ messages'[i].kind = messages[i].kind
           /\ messages[i].kind = "tool" => messages'[i] = messages[i]
  <2>1. CASE messages' = messages
    BY <2>1
  <2>2. CASE \E id : messages' = Redact(messages, id)
    BY <1>1, <2>2, RedactKeeps
  <2> QED
    BY <2>1, <2>2
<1>3. \A mentioned : Cards(mentioned)' = Cards(mentioned)
  BY <1>1, <1>2, CardsOfSameResults
<1>4. Cards(cited)' = Cards(cited)
  BY <1>3
<1> QED
  BY <1>4 DEF CardsInv

LEMMA NextCards == CardsInv /\ [Next]_vars => CardsInv'
<1> SUFFICES ASSUME CardsInv, [Next]_vars PROVE CardsInv'
  OBVIOUS
<1>1. WorkInv'
  BY NextWork DEF CardsInv
<1>2. CASE ClassifyIntent \/ BuildContext \/ CallLLM \/ RetryWithoutTools \/ CallLLMFails
           \/ ToolNode \/ FinalResponse
  <2>1. /\ node \notin {"validate_output", "end"}
        /\ node' \notin {"validate_output", "end"}
        /\ UNCHANGED << structured_data, cited >>
    BY <1>2 DEF ClassifyIntent, Classified, BuildContext, CallLLM, RetryWithoutTools, CallLLMFails,
                ToolNode, FinalResponse, At, AfterAnswer, Requested, history
  <2> QED
    BY <1>1, <2>1, EarlyCards
<1>3. CASE Respond
  BY <1>1, <1>3, RespondCards
<1>4. CASE ValidateOutput
  <2>1. /\ node = "validate_output" /\ node' = "end"
        /\ UNCHANGED << structured_data, cited, error >>
        /\ messages' = messages \/ \E id : messages' = Redact(messages, id)
    BY <1>4 DEF ValidateOutput, At, history
  <2> QED
    BY <1>1, <2>1, LateCards
<1>5. CASE Deliver \/ Abandon \/ Disconnect \/ Done \/ UNCHANGED vars
  <2>1. UNCHANGED << node, structured_data, cited, error, messages >>
    BY <1>5 DEF Deliver, Abandon, Disconnect, Done, vars, graph, history
  <2>2. CASE node \in {"validate_output", "end"}
    BY <1>1, <2>1, <2>2, LateCards
  <2>3. CASE node \notin {"validate_output", "end"}
    BY <1>1, <2>1, <2>3, EarlyCards
  <2> QED
    BY <2>2, <2>3
<1> QED
  BY <1>2, <1>3, <1>4, <1>5 DEF Next, GraphStep

LEMMA CardsInvariant == Spec => []CardsInv
BY InitCards, NextCards, PTL DEF Spec

(* An empty list of cards is grounded in anything. *)
LEMMA NoCards ==
  /\ Len(<< >>) = 0
  /\ << >> \in Seq(Courses)
  /\ IsInjective(<< >>)
  /\ DOMAIN << >> = {}
<1>1. << >> \in Seq(Courses) /\ Len(<< >>) = 0
  BY EmptySeq
<1>2. DOMAIN << >> = {}
  OBVIOUS
<1> QED
  BY <1>1, <1>2 DEF IsInjective

(* Every card is a course that a tool returned this turn and the final text *)
(* cites, each once, at most MaxCards, and none is left out while there is  *)
(* room (_extract_course_cards), whatever the tools returned.               *)
THEOREM CardsAreGrounded == Spec => []CardsGrounded
<1>1. CardsInv => CardsGrounded
  <2> SUFFICES ASSUME CardsInv PROVE CardsGrounded
    OBVIOUS
  <2>1. CASE structured_data = << >> /\ (node = "end" => error)
    BY <2>1, NoCards, EngineAssumption DEF CardsGrounded
  <2>2. CASE /\ node \in {"validate_output", "end"} /\ ~ error
             /\ cited \in SUBSET Courses
             /\ structured_data = Cards(cited)
    <3>1. messages \in Seq(Message)
      BY DEF CardsInv, WorkInv, WorkType
    <3>2. \A mentioned \in SUBSET Courses :
            LET cards == Cards(mentioned) IN
            /\ Len(cards) <= MaxCards
            /\ IsInjective(cards)
            /\ Range(cards) \subseteq mentioned \cap ResultCourses
            /\ Len(cards) < MaxCards => mentioned \cap ResultCourses = Range(cards)
      BY <3>1, CardsFacts
    <3>3. /\ Len(structured_data) <= MaxCards
          /\ IsInjective(structured_data)
          /\ Range(structured_data) \subseteq cited \cap ResultCourses
          /\ Len(structured_data) < MaxCards => cited \cap ResultCourses = Range(structured_data)
      BY <2>2, <3>2
    <3>4. \A i \in DOMAIN structured_data : structured_data[i] \in Range(structured_data)
      BY DEF Range
    <3> QED
      BY <2>2, <3>3, <3>4 DEF CardsGrounded
  <2> QED
    BY <2>1, <2>2 DEF CardsInv
<1> QED
  BY <1>1, CardsInvariant, PTL
-----------------------------------------------------------------------------
(* The text that is streamed.                                              *)

Piece == [id : Nat, whole : BOOLEAN, segment : Nat]
LastPiece == streamed[Len(streamed)]

(* The last piece is of the latest segment; and while call_llm has sent      *)
(* something, it was for the answer that is still to come.                  *)
StreamInv ==
  /\ WorkInv
  /\ streamed \in Seq(Piece)
  /\ in_llm_segment \in BOOLEAN
  /\ in_llm_segment => streamed # << >>
  /\ node \in {"classify_intent", "build_context"} => ~ in_llm_segment
  /\ node = "call_llm" /\ in_llm_segment => LastPiece.id = NextId
  /\ \A i \in DOMAIN streamed : streamed[i].segment <= LastPiece.segment
  /\ SegmentsApart

LEMMA InitStream == Init => StreamInv
<1> SUFFICES ASSUME Init PROVE StreamInv
  OBVIOUS
<1>1. streamed = << >> /\ << >> \in Seq(Piece) /\ DOMAIN streamed = {}
  BY EmptySeq DEF Init
<1> QED
  BY <1>1, InitWork DEF Init, StreamInv, SegmentsApart

(* Nothing is sent: the pieces are as they were. *)
LEMMA QuietStream ==
  ASSUME StreamInv, WorkInv', UNCHANGED streamed,
         in_llm_segment' = in_llm_segment \/ in_llm_segment' = FALSE,
         node' \in {"classify_intent", "build_context"} =>
           node \in {"classify_intent", "build_context"},
         node' = "call_llm" =>
           \/ node = "call_llm" /\ UNCHANGED messages
           \/ ~ in_llm_segment \/ ~ in_llm_segment'
  PROVE  StreamInv'
<1>1. /\ LastPiece' = LastPiece
      /\ UNCHANGED messages => NextId' = NextId
      /\ SegmentsApart' = SegmentsApart
  BY DEF LastPiece, NextId, SegmentsApart
<1>2. in_llm_segment' \in BOOLEAN /\ (in_llm_segment' => in_llm_segment)
  <2>1. CASE in_llm_segment' = in_llm_segment
    BY <2>1 DEF StreamInv
  <2>2. CASE in_llm_segment' = FALSE
    BY <2>2
  <2> QED
    BY <2>1, <2>2
<1>3. node' = "call_llm" /\ in_llm_segment' => LastPiece'.id = NextId'
  BY <1>1, <1>2 DEF StreamInv
<1>4. node' \in {"classify_intent", "build_context"} => ~ in_llm_segment'
  BY <1>2 DEF StreamInv
<1> QED
  BY <1>1, <1>2, <1>3, <1>4 DEF StreamInv

(* What a piece appended to a list does to it. *)
LEMMA AppendPiece ==
  ASSUME NEW s \in Seq(Piece), NEW p \in Piece
  PROVE  /\ Append(s, p) \in Seq(Piece)
         /\ Append(s, p) # << >>
         /\ Append(s, p)[Len(Append(s, p))] = p
         /\ \A i \in DOMAIN Append(s, p) :
              Append(s, p)[i] = p \/ \E j \in DOMAIN s : Append(s, p)[i] = s[j]
<1> DEFINE t == Append(s, p)
<1>1. Len(s) \in Nat /\ DOMAIN s = 1 .. Len(s)
  BY LenProperties
<1>2. /\ t \in Seq(Piece)
      /\ Len(t) = Len(s) + 1
      /\ \A i \in 1 .. Len(s) : t[i] = s[i]
      /\ t[Len(s) + 1] = p
  BY AppendProperties
<1>3. DOMAIN t = 1 .. Len(t)
  BY <1>2, LenProperties
<1>4. t # << >>
  BY <1>1, <1>2, EmptySeq
<1> HIDE DEF t
<1>5. \A i \in DOMAIN t : t[i] = p \/ \E j \in DOMAIN s : t[i] = s[j]
  BY <1>1, <1>2, <1>3
<1> QED
  BY <1>2, <1>4, <1>5 DEF t

(* A piece joins the segment of the answer it belongs to, or opens one. *)
LEMMA SentStream ==
  ASSUME StreamInv, WorkInv', node = "call_llm", NEW whole \in BOOLEAN, Stream(whole),
         node' \notin {"classify_intent", "build_context"},
         node' = "call_llm" => UNCHANGED messages
  PROVE  StreamInv'
<1> DEFINE p == [id |-> NextId, whole |-> whole, segment |-> Segment]
<1>1. NextId \in Nat
  BY LenProperties DEF NextId, StreamInv, WorkInv, WorkType
<1>2. streamed # << >> => /\ LastPiece \in Piece
                          /\ \E k \in DOMAIN streamed : LastPiece = streamed[k]
  <2> HAVE streamed # << >>
  <2>1. /\ Len(streamed) \in Nat
        /\ Len(streamed) # 0
        /\ DOMAIN streamed = 1 .. Len(streamed)
    BY LenProperties, EmptySeq DEF StreamInv
  <2>2. Len(streamed) \in 1 .. Len(streamed)
    BY <2>1
  <2> QED
    BY <2>1, <2>2, ElementOfSeq DEF StreamInv, LastPiece
<1>3. /\ Segment \in Nat
      /\ streamed # << >> => LastPiece.segment <= Segment
      /\ streamed # << >> /\ ~ in_llm_segment => LastPiece.segment < Segment
      /\ in_llm_segment => Segment = LastPiece.segment
  <2>1. CASE streamed = << >>
    BY <2>1 DEF Segment, StreamInv
  <2>2. CASE streamed # << >>
    <3>1. LastPiece.segment \in Nat
      BY <1>2, <2>2 DEF Piece
    <3>2. Segment = IF in_llm_segment THEN LastPiece.segment ELSE LastPiece.segment + 1
      BY <2>2 DEF Segment, LastPiece
    <3> QED
      BY <2>2, <3>1, <3>2
  <2> QED
    BY <2>1, <2>2
<1>4. p \in Piece /\ p.segment = Segment /\ p.id = NextId
  BY <1>1, <1>3 DEF Piece
<1> HIDE DEF p
<1>5. streamed' = Append(streamed, p) /\ in_llm_segment' = TRUE
  BY DEF Stream, p
<1>6. /\ streamed' \in Seq(Piece)
      /\ streamed' # << >>
      /\ LastPiece' = p
      /\ \A i \in DOMAIN streamed' :
           streamed'[i] = p \/ \E j \in DOMAIN streamed : streamed'[i] = streamed[j]
  BY <1>4, <1>5, AppendPiece DEF StreamInv, LastPiece
<1>7. DOMAIN streamed # {} => streamed # << >>
  OBVIOUS
<1>8. \A j \in DOMAIN streamed : streamed[j] \in Piece
  BY LenProperties, ElementOfSeq DEF StreamInv
(* The old pieces are of no later segment, and those of p's are p's answer's. *)
<1>9. ASSUME NEW j \in DOMAIN streamed
      PROVE  streamed[j].segment <= Segment /\ (streamed[j].segment = Segment => streamed[j].id = NextId)
  <2>1. /\ streamed[j].segment <= LastPiece.segment
        /\ LastPiece.segment <= Segment
        /\ streamed[j].segment \in Nat /\ LastPiece.segment \in Nat
    BY <1>2, <1>3, <1>7, <1>8 DEF StreamInv, Piece
  <2>2. CASE in_llm_segment
    <3>1. LastPiece.id = NextId
      BY <2>2 DEF StreamInv
    <3>2. PICK k \in DOMAIN streamed : LastPiece = streamed[k]
      BY <1>2, <1>7
    <3>3. streamed[j].segment = LastPiece.segment => streamed[j].id = LastPiece.id
      BY <3>2 DEF StreamInv, SegmentsApart
    <3> QED
      BY <1>3, <2>1, <2>2, <3>1, <3>3
  <2>3. CASE ~ in_llm_segment
    <3>1. LastPiece.segment < Segment
      BY <1>3, <1>7, <2>3
    <3> QED
      BY <1>3, <2>1, <3>1
  <2> QED
    BY <2>2, <2>3
<1>10. \A i \in DOMAIN streamed' : streamed'[i].segment <= LastPiece'.segment
  BY <1>3, <1>4, <1>6, <1>9
<1>11. SegmentsApart'
  <2> SUFFICES ASSUME NEW i \in DOMAIN streamed', NEW j \in DOMAIN streamed',
                      streamed'[i].segment = streamed'[j].segment
               PROVE  streamed'[i].id = streamed'[j].id
    BY DEF SegmentsApart
  <2>1. CASE streamed'[i] = p
    BY <1>4, <1>6, <1>9, <2>1
  <2>2. CASE streamed'[j] = p
    BY <1>4, <1>6, <1>9, <2>2
  <2>3. CASE (\E a \in DOMAIN streamed : streamed'[i] = streamed[a])
             /\ (\E b \in DOMAIN streamed : streamed'[j] = streamed[b])
    BY <2>3 DEF StreamInv, SegmentsApart
  <2> QED
    BY <1>6, <2>1, <2>2, <2>3
<1>12. node' = "call_llm" => LastPiece'.id = NextId'
  BY <1>4, <1>6 DEF NextId
<1> QED
  BY <1>5, <1>6, <1>10, <1>11, <1>12 DEF StreamInv

LEMMA NextStream == StreamInv /\ [Next]_vars => StreamInv'
<1> SUFFICES ASSUME StreamInv, [Next]_vars PROVE StreamInv'
  OBVIOUS
<1>1. WorkInv'
  BY NextWork DEF StreamInv
<1>2. CASE ClassifyIntent \/ BuildContext
  BY <1>1, <1>2, QuietStream DEF ClassifyIntent, BuildContext, At, stream, StreamInv
<1>3. CASE CallLLM \/ RetryWithoutTools \/ CallLLMFails
  <2>1. /\ node = "call_llm"
        /\ node' \notin {"classify_intent", "build_context"}
        /\ node' = "call_llm" => UNCHANGED messages
        /\ UNCHANGED stream \/ \E whole \in BOOLEAN : Stream(whole)
    BY <1>3 DEF CallLLM, RetryWithoutTools, CallLLMFails, At, AfterAnswer
  <2>2. CASE UNCHANGED stream
    BY <1>1, <2>1, <2>2, QuietStream DEF stream
  <2>3. CASE \E whole \in BOOLEAN : Stream(whole)
    BY <1>1, <2>1, <2>3, SentStream
  <2> QED
    BY <2>1, <2>2, <2>3
<1>4. CASE ToolNode \/ FinalResponse \/ Respond \/ ValidateOutput
  <2>1. /\ UNCHANGED streamed
        /\ in_llm_segment' = FALSE
        /\ node' \notin {"classify_intent", "build_context"}
    BY <1>4 DEF ToolNode, FinalResponse, Respond, ValidateOutput
  <2> QED
    BY <1>1, <2>1, QuietStream
<1>5. CASE Deliver \/ Abandon \/ Disconnect \/ Done \/ UNCHANGED vars
  <2>1. UNCHANGED << node, messages, streamed, in_llm_segment >>
    BY <1>5 DEF Deliver, Abandon, Disconnect, Done, vars, graph, stream
  <2> QED
    BY <1>1, <2>1, QuietStream
<1> QED
  BY <1>2, <1>3, <1>4, <1>5 DEF Next, GraphStep

LEMMA StreamInvariant == Spec => []StreamInv
BY InitStream, NextStream, PTL DEF Spec

(* The texts of two answers are in different segments, so the student never *)
(* reads them run together (the separator of _run_stream), however many     *)
(* rounds the turn takes and wherever an attempt failed.                    *)
THEOREM SegmentsStayApart == Spec => []SegmentsApart
<1>1. StreamInv => SegmentsApart
  BY DEF StreamInv
<1> QED
  BY <1>1, StreamInvariant, PTL

-----------------------------------------------------------------------------
(* The end of a turn.                                                      *)

(* The most steps a turn can still take: three a round, with the retry of   *)
(* its request, and those of the nodes before and after the rounds.         *)
StepsLeft ==
  LET rounds == MaxRounds - tool_rounds IN
  IF outcome # "running" THEN 0
  ELSE CASE node = "classify_intent" -> 3 * rounds + 8
         [] node = "build_context" -> 3 * rounds + 7
         [] node = "call_llm" -> 3 * rounds + 7 - attempt
         [] node = "tool_node" -> 3 * rounds + 4
         [] node = "final_response" -> 4
         [] node = "respond" -> 3
         [] node = "validate_output" -> 2
         [] node = "end" -> 1

(* Whatever the model answers and whichever requests fail, each step of a   *)
(* turn brings it nearer to its end: no way through the nodes leads back to *)
(* where it was with nothing used up (should_continue, the retry, the caps). *)
NearerTheEnd == [][StepsLeft' \in Nat /\ StepsLeft' < StepsLeft]_vars

(* How far each node is from the end. *)
LEMMA StepsLeftIs ==
  ASSUME WorkInv
  PROVE  /\ StepsLeft \in Nat
         /\ outcome # "running" => StepsLeft = 0
         /\ outcome = "running" =>
              /\ StepsLeft > 0
              /\ At("classify_intent") => StepsLeft = 3 * (MaxRounds - tool_rounds) + 8
              /\ At("build_context") => StepsLeft = 3 * (MaxRounds - tool_rounds) + 7
              /\ At("call_llm") => StepsLeft = 3 * (MaxRounds - tool_rounds) + 7 - attempt
              /\ At("tool_node") => StepsLeft = 3 * (MaxRounds - tool_rounds) + 4
              /\ At("final_response") => StepsLeft = 4
              /\ At("respond") => StepsLeft = 3
              /\ At("validate_output") => StepsLeft = 2
              /\ At("end") => StepsLeft = 1
<1>1. /\ MaxRounds \in Nat /\ tool_rounds \in Nat /\ tool_rounds <= MaxRounds
      /\ attempt \in {1, 2} /\ node \in Nodes
  BY EngineAssumption DEF WorkInv, WorkType
<1> QED
  BY <1>1 DEF StepsLeft, At, Nodes

(* A step that stays in the graph leads to a node that is nearer to the end. *)
LEMMA GraphAdvances ==
  ASSUME WorkInv, WorkInv', GraphStep
  PROVE  StepsLeft' < StepsLeft
<1>1. /\ MaxRounds \in Nat /\ tool_rounds \in Nat /\ tool_rounds <= MaxRounds /\ attempt \in {1, 2}
      /\ tool_rounds' \in Nat /\ tool_rounds' <= MaxRounds /\ attempt' \in {1, 2}
  BY EngineAssumption DEF WorkInv, WorkType
<1>2. /\ StepsLeft' \in Nat
      /\ outcome' # "running" => StepsLeft' = 0
      /\ outcome' = "running" =>
           /\ node' = "build_context" => StepsLeft' = 3 * (MaxRounds - tool_rounds') + 7
           /\ node' = "call_llm" => StepsLeft' = 3 * (MaxRounds - tool_rounds') + 7 - attempt'
           /\ node' = "tool_node" => StepsLeft' = 3 * (MaxRounds - tool_rounds') + 4
           /\ node' = "final_response" => StepsLeft' = 4
           /\ node' = "respond" => StepsLeft' = 3
           /\ node' = "validate_output" => StepsLeft' = 2
           /\ node' = "end" => StepsLeft' = 1
  <2>1. node' \in Nodes
    BY DEF WorkInv, WorkType
  <2> QED
    BY <1>1, <2>1 DEF StepsLeft, Nodes
<1>3. CASE ClassifyIntent
  BY <1>1, <1>2, <1>3, StepsLeftIs DEF ClassifyIntent, At, handler
<1>4. CASE BuildContext
  <2>1. attempt = 1
    BY <1>4 DEF BuildContext, At, WorkInv
  <2> QED
    BY <1>1, <1>2, <1>4, <2>1, StepsLeftIs DEF BuildContext, At, handler
<1>5. CASE CallLLM
  <2>1. PICK calls \in 0 .. MaxFanout, text \in BOOLEAN : node' = AfterAnswer(AI(NextId, calls, text))
    BY <1>5 DEF CallLLM
  <2>2. node' \in {"tool_node", "final_response", "respond"}
    BY <2>1 DEF AfterAnswer
  <2>3. node' = "tool_node" => tool_rounds < MaxRounds
    BY <1>1, <2>1 DEF AfterAnswer
  <2>4. tool_rounds' = tool_rounds /\ outcome' = outcome /\ At("call_llm")
    BY <1>5 DEF CallLLM, handler
  <2> QED
    BY <1>1, <1>2, <2>2, <2>3, <2>4, StepsLeftIs DEF At
<1>6. CASE RetryWithoutTools
  BY <1>1, <1>2, <1>6, StepsLeftIs DEF RetryWithoutTools, At, handler
<1>7. CASE CallLLMFails
  BY <1>1, <1>2, <1>7, StepsLeftIs DEF CallLLMFails, At, handler
<1>8. CASE ToolNode
  <2>1. attempt = 1 /\ attempt' = attempt /\ tool_rounds' = tool_rounds + 1 /\ node' = "call_llm"
        /\ outcome' = outcome /\ At("tool_node")
    BY <1>8 DEF ToolNode, At, WorkInv, handler
  <2> QED
    BY <1>1, <1>2, <2>1, StepsLeftIs DEF At
<1>9. CASE FinalResponse
  BY <1>2, <1>9, StepsLeftIs DEF FinalResponse, At, handler
<1>10. CASE Respond
  BY <1>2, <1>10, StepsLeftIs DEF Respond, At, handler
<1>11. CASE ValidateOutput
  BY <1>2, <1>11, StepsLeftIs DEF ValidateOutput, At, handler
<1>12. CASE Deliver
  BY <1>2, <1>12, StepsLeftIs DEF Deliver, At
<1> QED
  BY <1>3, <1>4, <1>5, <1>6, <1>7, <1>8, <1>9, <1>10, <1>11, <1>12 DEF GraphStep

(* No step of a turn is for nothing, for every cap and every fan-out: a      *)
(* turn takes at most 3 MaxRounds + 8 steps (build_graph's edges,            *)
(* should_continue, call_llm_node's retry).                                 *)
THEOREM EveryStepCounts == Spec => NearerTheEnd
<1>1. WorkInv /\ WorkInv' /\ [Next]_vars => [StepsLeft' \in Nat /\ StepsLeft' < StepsLeft]_vars
  <2> SUFFICES ASSUME WorkInv, WorkInv', Next
               PROVE  (StepsLeft' \in Nat /\ StepsLeft' < StepsLeft) \/ UNCHANGED vars
    OBVIOUS
  <2>1. StepsLeft' \in Nat /\ StepsLeft \in Nat
    <3>1. StepsLeft \in Nat
      BY StepsLeftIs
    <3>2. /\ MaxRounds \in Nat /\ tool_rounds' \in Nat /\ tool_rounds' <= MaxRounds
          /\ attempt' \in {1, 2} /\ node' \in Nodes
      BY EngineAssumption DEF WorkInv, WorkType
    <3>3. StepsLeft' \in Nat
      BY <3>2 DEF StepsLeft, Nodes
    <3> QED
      BY <3>1, <3>3
  <2>2. CASE GraphStep
    BY <2>1, <2>2, GraphAdvances
  <2>3. CASE Abandon \/ Disconnect
    <3>1. outcome = "running" /\ outcome' # "running"
      BY <2>3 DEF Abandon, Disconnect
    <3>2. StepsLeft' = 0
      BY <3>1 DEF StepsLeft
    <3> QED
      BY <2>1, <3>1, <3>2, StepsLeftIs
  <2>4. CASE Done
    BY <2>4 DEF Done
  <2> QED
    BY <2>2, <2>3, <2>4 DEF Next
<1> QED
  BY <1>1, WorkInvariant, PTL DEF Spec, NearerTheEnd

-----------------------------------------------------------------------------
(* Types.                                                                  *)

(* What the other invariants leave to be said. *)
HandlerType ==
  /\ error \in BOOLEAN
  /\ outcome \in {"running", "replied", "timeout", "failed", "disconnected"}
  /\ reply.kind \in {"none", "error", "text", "apology"}

LEMMA NextHandlerType == HandlerType /\ [Next]_vars => HandlerType'
<1> SUFFICES ASSUME HandlerType, [Next]_vars PROVE HandlerType'
  OBVIOUS
<1>1. CASE Deliver
  BY <1>1 DEF Deliver, HandlerType, graph
<1>2. CASE ClassifyIntent \/ BuildContext \/ CallLLM \/ RetryWithoutTools \/ CallLLMFails
           \/ ToolNode \/ FinalResponse \/ Respond \/ ValidateOutput
  <2>1. UNCHANGED handler /\ (error' = error \/ error' = TRUE)
    BY <1>2 DEF ClassifyIntent, BuildContext, CallLLM, RetryWithoutTools, CallLLMFails, ToolNode,
                FinalResponse, Respond, ValidateOutput
  <2> QED
    BY <2>1 DEF HandlerType, handler
<1>3. CASE Abandon \/ Disconnect \/ Done \/ UNCHANGED vars
  BY <1>3 DEF Abandon, Disconnect, Done, HandlerType, vars, graph, handler
<1> QED
  BY <1>1, <1>2, <1>3 DEF Next, GraphStep

LEMMA HandlerTypeInvariant == Spec => []HandlerType
<1>1. Init => HandlerType
  <2> SUFFICES ASSUME Init PROVE HandlerType
    OBVIOUS
  <2>1. reply.kind = "none"
    BY DEF Init
  <2> QED
    BY <2>1 DEF Init, HandlerType
<1> QED
  BY <1>1, NextHandlerType, PTL DEF Spec

(* Every variable of a turn has its type. *)
THEOREM TypeCorrect == Spec => []TypeOK
<1>1. WorkInv /\ CardsInv /\ StreamInv /\ HandlerType => TypeOK
  <2> SUFFICES ASSUME WorkInv, CardsInv, StreamInv, HandlerType PROVE TypeOK
    OBVIOUS
  <2>1. structured_data \in Seq(Courses)
    <3>1. CASE structured_data = << >>
      BY <3>1, NoCards
    <3>2. CASE cited \in SUBSET Courses /\ structured_data = Cards(cited)
      <4>1. \A mentioned \in SUBSET Courses : Cards(mentioned) \in Seq(Courses)
        BY CardsFacts DEF WorkInv, WorkType
      <4> QED
        BY <3>2, <4>1
    <3> QED
      BY <3>1, <3>2 DEF CardsInv
  <2>2. streamed \in Seq([id : Nat, whole : BOOLEAN, segment : Nat])
    BY DEF StreamInv, Piece
  <2> QED
    BY <2>1, <2>2 DEF TypeOK, WorkInv, WorkType, StreamInv, HandlerType
<1> QED
  BY <1>1, WorkInvariant, CardsInvariant, StreamInvariant, HandlerTypeInvariant, PTL
-----------------------------------------------------------------------------
(* The conversation with Anthropic.                                        *)

(* WellFormed, but for the calls of the last message. *)
Open(ms) ==
  /\ \A i \in 1 .. Len(ms) : i # Len(ms) /\ ms[i].kind = "ai" =>
       \A j \in 1 .. ms[i].calls :
         /\ i + j <= Len(ms)
         /\ ms[i + j].kind = "tool"
         /\ ms[i + j].call = << ms[i].id, j >>
  /\ \A i \in 1 .. Len(ms) : ms[i].kind = "tool" =>
       \E k \in 1 .. i - 1 :
         /\ ms[k].kind = "ai"
         /\ ms[i].call = << ms[k].id, i - k >>
         /\ i - k <= ms[k].calls

(* An AI message is told from the others by its kind. *)
LEMMA KindOfMessage ==
  ASSUME NEW m \in Message, m.kind = "ai"
  PROVE  m \in AIMessage /\ m.calls \in Nat
<1>1. m \in AIMessage
  BY DEF Message, Human, ToolResult
<1> QED
  BY <1>1, EngineAssumption DEF AIMessage

(* An answer after a well-formed conversation leaves its own calls open. *)
LEMMA AppendAnswer ==
  ASSUME NEW ms \in Seq(Message), NEW m \in AIMessage, WellFormed(ms)
  PROVE  Open(Append(ms, m))
<1> DEFINE t == Append(ms, m)
<1>1. Len(ms) \in Nat
  BY LenProperties
<1>2. m \in Message /\ m.kind = "ai"
  BY DEF Message, AIMessage
<1>3. /\ Len(t) = Len(ms) + 1
      /\ \A i \in 1 .. Len(ms) : t[i] = ms[i]
      /\ t[Len(ms) + 1] = m
  BY <1>2, AppendProperties
<1> HIDE DEF t
<1>4. ASSUME NEW i \in 1 .. Len(t), i # Len(t), t[i].kind = "ai", NEW j \in 1 .. t[i].calls
      PROVE  i + j <= Len(t) /\ t[i + j].kind = "tool" /\ t[i + j].call = << t[i].id, j >>
  <2>1. i \in 1 .. Len(ms) /\ t[i] = ms[i]
    BY <1>1, <1>3, <1>4
  <2>2. i + j <= Len(ms) /\ ms[i + j].kind = "tool" /\ ms[i + j].call = << ms[i].id, j >>
    BY <1>4, <2>1 DEF WellFormed
  <2>3. ms[i].calls \in Nat
    BY <1>4, <2>1, KindOfMessage, ElementOfSeq
  <2>4. i + j \in 1 .. Len(ms)
    BY <1>1, <1>4, <2>1, <2>2, <2>3
  <2> QED
    BY <1>1, <1>3, <2>1, <2>2, <2>4
<1>5. ASSUME NEW i \in 1 .. Len(t), t[i].kind = "tool"
      PROVE  \E k \in 1 .. i - 1 : /\ t[k].kind = "ai"
                                   /\ t[i].call = << t[k].id, i - k >>
                                   /\ i - k <= t[k].calls
  <2>1. i \in 1 .. Len(ms) /\ t[i] = ms[i]
    BY <1>1, <1>2, <1>3, <1>5
  <2>2. PICK k \in 1 .. i - 1 : /\ ms[k].kind = "ai"
                                /\ ms[i].call = << ms[k].id, i - k >>
                                /\ i - k <= ms[k].calls
    BY <1>5, <2>1 DEF WellFormed
  <2>3. t[k] = ms[k]
    BY <1>1, <1>3, <2>1
  <2> QED
    BY <2>1, <2>2, <2>3
<1> QED
  BY <1>4, <1>5 DEF Open, t

(* When the last message asks for nothing, nothing is open. *)
LEMMA ClosedWithoutCalls ==
  ASSUME NEW ms \in Seq(Message), Open(ms), ms # << >>,
         ms[Len(ms)].kind = "ai" => ms[Len(ms)].calls = 0
  PROVE  WellFormed(ms)
<1>1. ASSUME ms[Len(ms)].kind = "ai", NEW j \in 1 .. ms[Len(ms)].calls
      PROVE  FALSE
  BY <1>1
<1> QED
  BY <1>1 DEF Open, WellFormed

(* The results of a round, one per call and in their order, close it. *)
LEMMA RoundCloses ==
  ASSUME NEW ms \in Seq(Message), ms # << >>, Open(ms),
         NEW last \in AIMessage, ms[Len(ms)] = last,
         NEW t \in Seq(Message), Len(t) = last.calls,
         \A j \in 1 .. last.calls : t[j].kind = "tool" /\ t[j].call = << last.id, j >>
  PROVE  WellFormed(ms \o t)
<1> DEFINE u == ms \o t
           n == Len(ms)
           c == last.calls
<1>1. n \in Nat /\ n > 0 /\ c \in Nat /\ last.kind = "ai"
  BY LenProperties, EmptySeq, EngineAssumption DEF AIMessage
<1>2. /\ Len(u) = n + c
      /\ \A i \in 1 .. n : u[i] = ms[i]
  BY ConcatProperties, LenProperties
<1>3. ASSUME NEW j \in 1 .. c
      PROVE  u[n + j].kind = "tool" /\ u[n + j].call = << last.id, j >>
  <2>1. n + j \in 1 .. Len(ms) + Len(t) /\ ~ (n + j <= n) /\ n + j - n = j
    BY <1>1
  <2>2. u[n + j] = t[j]
    BY <2>1, ConcatProperties
  <2> QED
    BY <2>2
<1>4. u[n] = last /\ n \in 1 .. n
  BY <1>1, <1>2
<1>5. ms[n] = last /\ \A i \in 1 .. n : ms[i] \in Message
  BY ElementOfSeq
<1> HIDE DEF u, n, c
<1>6. ASSUME NEW i \in 1 .. Len(u), u[i].kind = "ai", NEW j \in 1 .. u[i].calls
      PROVE  i + j <= Len(u) /\ u[i + j].kind = "tool" /\ u[i + j].call = << u[i].id, j >>
  <2>1. CASE i \in 1 .. n /\ i # n
    <3>1. u[i] = ms[i]
      BY <1>2, <2>1
    <3>2. i + j <= n /\ ms[i + j].kind = "tool" /\ ms[i + j].call = << ms[i].id, j >>
      BY <1>6, <2>1, <3>1 DEF Open, n
    <3>3. ms[i].calls \in Nat
      BY <1>5, <1>6, <2>1, <3>1, KindOfMessage
    <3>4. i + j \in 1 .. n
      BY <1>1, <2>1, <3>1, <3>2, <3>3
    <3> QED
      BY <1>1, <1>2, <3>1, <3>2, <3>4
  <2>2. CASE i = n
    <3>1. u[i] = last /\ j \in 1 .. c
      BY <1>4, <1>6, <2>2 DEF c
    <3> QED
      BY <1>1, <1>2, <1>3, <2>2, <3>1
  <2>3. CASE i > n
    <3>1. i - n \in 1 .. c /\ n + (i - n) = i
      BY <1>1, <1>2, <2>3
    <3>2. u[i].kind = "tool"
      BY <1>3, <3>1
    <3> QED
      BY <1>6, <3>2
  <2> QED
    BY <1>1, <2>1, <2>2, <2>3
<1>7. ASSUME NEW i \in 1 .. Len(u), u[i].kind = "tool"
      PROVE  \E k \in 1 .. i - 1 : /\ u[k].kind = "ai"
                                   /\ u[i].call = << u[k].id, i - k >>
                                   /\ i - k <= u[k].calls
  <2>1. CASE i \in 1 .. n
    <3>1. u[i] = ms[i]
      BY <1>2, <2>1
    <3>2. PICK k \in 1 .. i - 1 : /\ ms[k].kind = "ai"
                                  /\ ms[i].call = << ms[k].id, i - k >>
                                  /\ i - k <= ms[k].calls
      BY <1>7, <2>1, <3>1 DEF Open, n
    <3>3. k \in 1 .. n
      BY <1>1, <2>1
    <3>4. u[k] = ms[k]
      BY <1>2, <3>3
    <3> QED
      BY <3>1, <3>2, <3>4
  <2>2. CASE i > n
    <3>1. i - n \in 1 .. c /\ n + (i - n) = i /\ n \in 1 .. i - 1
      BY <1>1, <1>2, <2>2
    <3>2. u[i].call = << last.id, i - n >>
      BY <1>3, <3>1
    <3>3. u[n].kind = "ai" /\ u[n].id = last.id /\ i - n <= u[n].calls
      BY <1>1, <1>4, <3>1 DEF c
    <3> QED
      BY <1>4, <3>1, <3>2, <3>3
  <2> QED
    BY <1>1, <2>1, <2>2
<1> QED
  BY <1>6, <1>7 DEF WellFormed, u

(* Redaction opens nothing. *)
LEMMA RedactWellFormed ==
  ASSUME NEW ms \in Seq(Message), NEW id, WellFormed(ms)
  PROVE  WellFormed(Redact(ms, id))
<1> DEFINE r == Redact(ms, id)
<1>1. Len(ms) \in Nat /\ DOMAIN ms = 1 .. Len(ms)
  BY LenProperties
<1>2. /\ Len(r) = Len(ms)
      /\ \A i \in 1 .. Len(ms) :
           /\ r[i].kind = ms[i].kind
           /\ ms[i].kind = "tool" => r[i].call = ms[i].call
           /\ ms[i].kind = "ai" => r[i].id = ms[i].id /\ r[i].calls = ms[i].calls
  BY <1>1, RedactKeeps
<1>3. \A i \in 1 .. Len(ms) : ms[i].kind = "ai" => ms[i].calls \in Nat
  BY ElementOfSeq, KindOfMessage
<1> HIDE DEF r
<1>4. ASSUME NEW i \in 1 .. Len(r), r[i].kind = "ai", NEW j \in 1 .. r[i].calls
      PROVE  i + j <= Len(r) /\ r[i + j].kind = "tool" /\ r[i + j].call = << r[i].id, j >>
  <2>1. /\ i \in 1 .. Len(ms) /\ ms[i].kind = "ai" /\ j \in 1 .. ms[i].calls
        /\ r[i].id = ms[i].id /\ ms[i].calls \in Nat
    BY <1>2, <1>3, <1>4
  <2>2. i + j <= Len(ms) /\ ms[i + j].kind = "tool" /\ ms[i + j].call = << ms[i].id, j >>
    BY <2>1 DEF WellFormed
  <2>3. i + j \in 1 .. Len(ms)
    BY <1>1, <2>1, <2>2
  <2> QED
    BY <1>2, <2>1, <2>2, <2>3
<1>5. ASSUME NEW i \in 1 .. Len(r), r[i].kind = "tool"
      PROVE  \E k \in 1 .. i - 1 : /\ r[k].kind = "ai"
                                   /\ r[i].call = << r[k].id, i - k >>
                                   /\ i - k <= r[k].calls
  <2>1. i \in 1 .. Len(ms) /\ ms[i].kind = "tool" /\ r[i].call = ms[i].call
    BY <1>2, <1>5
  <2>2. PICK k \in 1 .. i - 1 : /\ ms[k].kind = "ai"
                                /\ ms[i].call = << ms[k].id, i - k >>
                                /\ i - k <= ms[k].calls
    BY <2>1 DEF WellFormed
  <2>3. k \in 1 .. Len(ms)
    BY <1>1, <2>1
  <2> QED
    BY <1>2, <2>1, <2>2, <2>3
<1> QED
  BY <1>4, <1>5 DEF WellFormed, r

(* Calls are open only while a node is about to answer them, or after       *)
(* final_response failed; every request was well formed; and after the      *)
(* last node that talks to the model its last answer asks for nothing.      *)
ExchangeInv ==
  /\ WorkInv
  /\ Open(messages)
  /\ node \in {"classify_intent", "build_context", "call_llm"} => WellFormed(messages)
  /\ error => node \in {"respond", "validate_output", "end"}
  /\ node \in {"respond", "validate_output", "end"} /\ ~ error =>
       LastMessage.kind = "ai" /\ LastMessage.calls = 0
  /\ WellFormed(request)
  /\ outcome = "replied" => node = "end"

(* The well-formed conversation is open in particular. *)
LEMMA WellFormedIsOpen ==
  ASSUME NEW ms, WellFormed(ms)
  PROVE  Open(ms)
BY DEF WellFormed, Open

(* The user's message alone asks for no tool. *)
LEMMA HumanWellFormed == WellFormed(<< Human >>)
<1>1. Len(<< Human >>) = 1 /\ << Human >>[1] = Human
  OBVIOUS
<1> QED
  BY <1>1 DEF WellFormed, Human

LEMMA InitExchange == Init => ExchangeInv
<1> SUFFICES ASSUME Init PROVE ExchangeInv
  OBVIOUS
<1>1. WellFormed(<< >>)
  BY EmptySeq DEF WellFormed
<1> QED
  BY <1>1, HumanWellFormed, InitWork, WellFormedIsOpen DEF Init, ExchangeInv

(* A step that leaves the conversation alone. *)
LEMMA SameExchange ==
  ASSUME ExchangeInv, WorkInv', UNCHANGED << messages, error >>,
         request' = request \/ WellFormed(request'),
         \/ node' = node
         \/ node' \in {"build_context", "call_llm"} /\ node \in {"classify_intent", "build_context"}
         \/ node' \in {"validate_output", "end"} /\ node \in {"respond", "validate_output"},
         outcome' = "replied" => node' = "end"
  PROVE  ExchangeInv'
<1>1. WellFormed(request')
  BY DEF ExchangeInv
<1>2. LastMessage' = LastMessage
  BY DEF LastMessage
<1> QED
  BY <1>1, <1>2 DEF ExchangeInv

LEMMA CallLLMExchange ==
  ASSUME ExchangeInv, WorkInv', CallLLM
  PROVE  ExchangeInv'
<1>1. PICK calls \in 0 .. MaxFanout, text \in BOOLEAN :
        /\ messages' = Append(messages, AI(NextId, calls, text))
        /\ node' = AfterAnswer(AI(NextId, calls, text))
  BY DEF CallLLM
<1> DEFINE answer == AI(NextId, calls, text)
<1>2. messages \in Seq(Message) /\ WellFormed(messages) /\ ~ error /\ node = "call_llm"
  BY DEF ExchangeInv, WorkInv, WorkType, CallLLM, At
<1>3. NextId \in Nat
  BY <1>2, LenProperties DEF NextId
<1>4. answer \in AIMessage /\ answer \in Message /\ answer.kind = "ai" /\ answer.calls = calls
  BY <1>3, AnswerIsMessage DEF AI
<1>5. node' \in {"tool_node", "final_response", "respond"} /\ (node' = "respond" => calls = 0)
  BY <1>1, <1>4, EngineAssumption DEF AfterAnswer, HasToolCalls
<1> HIDE DEF answer
<1>6. LastMessage' = answer
  BY <1>1, <1>2, <1>4, LastOfAppend DEF answer
<1>7. Open(messages')
  BY <1>1, <1>2, <1>4, AppendAnswer DEF answer
<1>8. /\ request' = messages
      /\ UNCHANGED << error, outcome >>
      /\ outcome = "running"
  BY DEF CallLLM, Requested, handler, At
<1> QED
  BY <1>2, <1>4, <1>5, <1>6, <1>7, <1>8 DEF ExchangeInv

LEMMA ToolNodeExchange ==
  ASSUME ExchangeInv, WorkInv', ToolNode
  PROVE  ExchangeInv'
<1>1. /\ node = "tool_node" /\ node' = "call_llm"
      /\ LastMessage \in AIMessage
      /\ UNCHANGED << error, outcome, request >>
      /\ outcome = "running"
      /\ ~ error
  BY DEF ToolNode, At, ExchangeInv, WorkInv, handler
<1>2. LastMessage.calls \in Nat /\ LastMessage.id \in Nat
  BY <1>1 DEF AIMessage
<1>3. PICK found \in [1 .. LastMessage.calls -> Courses \cup {NoCourse}] :
        messages' = messages \o
          [i \in 1 .. LastMessage.calls |-> ToolMessage(LastMessage.id, i, found[i])]
  BY DEF ToolNode
<1> DEFINE t == [i \in 1 .. LastMessage.calls |-> ToolMessage(LastMessage.id, i, found[i])]
<1>4. \A i \in 1 .. LastMessage.calls : ToolMessage(LastMessage.id, i, found[i]) \in Message
  BY <1>2, ResultIsMessage
<1>5. t \in Seq(Message) /\ Len(t) = LastMessage.calls
  BY <1>2, <1>4, ListOfLength
<1>6. \A j \in 1 .. LastMessage.calls : t[j].kind = "tool" /\ t[j].call = << LastMessage.id, j >>
  BY DEF ToolMessage
<1> HIDE DEF t
<1>7. WellFormed(messages \o t)
  BY <1>1, <1>5, <1>6, RoundCloses DEF ExchangeInv, WorkInv, WorkType, LastMessage
<1>8. WellFormed(messages')
  BY <1>3, <1>7 DEF t
<1>9. Open(messages')
  BY <1>8, WellFormedIsOpen
<1> QED
  BY <1>1, <1>8, <1>9 DEF ExchangeInv

LEMMA FinalResponseExchange ==
  ASSUME ExchangeInv, WorkInv', FinalResponse
  PROVE  ExchangeInv'
<1>1. /\ node = "final_response" /\ node' = "respond"
      /\ LastMessage \in AIMessage
      /\ UNCHANGED outcome
      /\ outcome = "running"
      /\ ~ error
      /\ request' = messages \o Stubs
      /\ messages \in Seq(Message) /\ messages # << >>
  BY DEF FinalResponse, Requested, At, ExchangeInv, WorkInv, WorkType, handler
<1>2. LastMessage.calls \in Nat /\ LastMessage.id \in Nat
  BY <1>1 DEF AIMessage
<1>3. NoCourse \in Courses \cup {NoCourse}
  OBVIOUS
<1>4. \A i \in 1 .. LastMessage.calls : ToolMessage(LastMessage.id, i, NoCourse) \in Message
  BY <1>2, <1>3, ResultIsMessage
<1>5. Stubs \in Seq(Message) /\ Len(Stubs) = LastMessage.calls
  BY <1>2, <1>4, ListOfLength DEF Stubs
<1>6. \A j \in 1 .. LastMessage.calls :
        Stubs[j].kind = "tool" /\ Stubs[j].call = << LastMessage.id, j >>
  BY DEF Stubs, ToolMessage
<1>7. WellFormed(messages \o Stubs) /\ messages \o Stubs \in Seq(Message)
  BY <1>1, <1>5, <1>6, RoundCloses, ConcatProperties DEF ExchangeInv, LastMessage
<1>8. CASE error' = TRUE /\ UNCHANGED messages
  BY <1>1, <1>7, <1>8 DEF ExchangeInv
<1>9. ASSUME NEW text \in BOOLEAN, UNCHANGED error,
             messages' = Append(messages \o Stubs, AI(NextId + LastMessage.calls, 0, text))
      PROVE  ExchangeInv'
  <2> DEFINE answer == AI(NextId + LastMessage.calls, 0, text)
  <2>1. NextId + LastMessage.calls \in Nat
    BY <1>1, <1>2, LenProperties DEF NextId
  <2>2. answer \in AIMessage /\ answer \in Message /\ answer.kind = "ai" /\ answer.calls = 0
    BY <2>1, AnswerIsMessage, EngineAssumption DEF AI
  <2> HIDE DEF answer
  <2>3. Open(messages')
    BY <1>7, <1>9, <2>2, AppendAnswer DEF answer
  <2>4. messages'[Len(messages')] = answer
    <3>1. Len(messages \o Stubs) \in Nat
      BY <1>7, LenProperties
    <3> QED
      BY <1>7, <1>9, <2>2, <3>1, AppendProperties DEF answer
  <2>5. LastMessage' = answer
    BY <2>4 DEF LastMessage
  <2> QED
    BY <1>1, <1>7, <1>9, <2>2, <2>3, <2>5 DEF ExchangeInv
<1> QED
  BY <1>8, <1>9 DEF FinalResponse

LEMMA RedactExchange ==
  ASSUME ExchangeInv, WorkInv', NEW id, ~ error, messages' = Redact(messages, id),
         node = "validate_output", node' = "end", UNCHANGED << error, request, outcome >>
  PROVE  ExchangeInv'
<1>1. messages \in Seq(Message) /\ messages # << >>
  BY DEF ExchangeInv, WorkInv, WorkType
<1>2. Len(messages) \in DOMAIN messages
  BY <1>1, LenProperties, EmptySeq
<1>3. LastMessage'.kind = "ai" /\ LastMessage'.calls = 0
  BY <1>1, <1>2, RedactKeeps DEF LastMessage, ExchangeInv
<1>4. WellFormed(messages)
  BY <1>1, ClosedWithoutCalls DEF ExchangeInv, LastMessage
<1>5. WellFormed(messages')
  BY <1>1, <1>4, RedactWellFormed
<1>6. Open(messages')
  BY <1>5, WellFormedIsOpen
<1> QED
  BY <1>3, <1>6 DEF ExchangeInv

LEMMA NextExchange == ExchangeInv /\ [Next]_vars => ExchangeInv'
<1> SUFFICES ASSUME ExchangeInv, [Next]_vars PROVE ExchangeInv'
  OBVIOUS
<1>1. WorkInv'
  BY NextWork DEF ExchangeInv
<1>2. CASE ClassifyIntent \/ BuildContext \/ RetryWithoutTools \/ Respond
  <2>1. /\ UNCHANGED << messages, error, outcome >>
        /\ outcome = "running"
        /\ \/ request' = request
           \/ request' = messages /\ node = "call_llm"
           \/ request' = << Human >>
        /\ \/ node' = node
           \/ node' \in {"build_context", "call_llm"}
              /\ node \in {"classify_intent", "build_context"}
           \/ node' \in {"validate_output", "end"} /\ node \in {"respond", "validate_output"}
    BY <1>2 DEF ClassifyIntent, Classified, BuildContext, RetryWithoutTools, Respond, At, Requested, history,
                handler
  <2>2. request' = request \/ WellFormed(request')
    BY <2>1, HumanWellFormed DEF ExchangeInv
  <2> QED
    BY <1>1, <2>1, <2>2, SameExchange
<1>3. CASE CallLLM
  BY <1>1, <1>3, CallLLMExchange
<1>4. CASE CallLLMFails
  <2>1. /\ UNCHANGED << messages, outcome >>
        /\ outcome = "running"
        /\ node = "call_llm" /\ node' = "respond" /\ error' = TRUE
        /\ request' = messages
    BY <1>4 DEF CallLLMFails, At, Requested, handler
  <2> QED
    BY <1>1, <2>1 DEF ExchangeInv
<1>5. CASE ToolNode
  BY <1>1, <1>5, ToolNodeExchange
<1>6. CASE FinalResponse
  BY <1>1, <1>6, FinalResponseExchange
<1>7. CASE ValidateOutput
  <2>1. /\ node = "validate_output" /\ node' = "end"
        /\ UNCHANGED << error, request, outcome >>
        /\ outcome = "running"
        /\ messages' = messages \/ (~ error /\ messages' = Redact(messages, LastAI.id))
    BY <1>7 DEF ValidateOutput, At, history, handler
  <2>2. CASE messages' = messages
    BY <1>1, <2>1, <2>2, SameExchange
  <2>3. CASE ~ error /\ messages' = Redact(messages, LastAI.id)
    BY <1>1, <2>1, <2>3, RedactExchange
  <2> QED
    BY <2>1, <2>2, <2>3
<1>8. CASE Deliver \/ Abandon \/ Disconnect \/ Done \/ UNCHANGED vars
  <2>1. /\ UNCHANGED << node, messages, error, request >>
        /\ outcome' = "replied" => node' = "end"
    BY <1>8 DEF Deliver, Abandon, Disconnect, Done, At, vars, graph, handler, history, ExchangeInv
  <2> QED
    BY <1>1, <2>1, SameExchange
<1> QED
  BY <1>2, <1>3, <1>4, <1>5, <1>6, <1>7, <1>8 DEF Next, GraphStep

LEMMA ExchangeInvariant == Spec => []ExchangeInv
BY InitExchange, NextExchange, PTL DEF Spec

(* In every request to Anthropic each call is followed by its result and    *)
(* no result answers nothing (tool_node, the stubs of final_response),      *)
(* whatever the caps, the fan-out and the rounds that failed.               *)
THEOREM RequestsAreWellFormed == Spec => []RequestsWellFormed
<1>1. ExchangeInv => RequestsWellFormed
  BY DEF ExchangeInv, RequestsWellFormed
<1> QED
  BY <1>1, ExchangeInvariant, PTL

(* A turn that replied without error left no call open: its last message is *)
(* an answer that asks for nothing more.                                    *)
THEOREM ExchangesClose == Spec => []ExchangeClosed
<1>1. ExchangeInv => ExchangeClosed
  <2> SUFFICES ASSUME ExchangeInv, outcome = "replied", ~ error
               PROVE  WellFormed(messages) /\ LastMessage.kind = "ai" /\ LastMessage.calls = 0
    BY DEF ExchangeClosed
  <2>1. LastMessage.kind = "ai" /\ LastMessage.calls = 0
    BY DEF ExchangeInv
  <2>2. WellFormed(messages)
    BY <2>1, ClosedWithoutCalls DEF ExchangeInv, WorkInv, WorkType, LastMessage
  <2> QED
    BY <2>1, <2>2
<1> QED
  BY <1>1, ExchangeInvariant, PTL
=============================================================================
