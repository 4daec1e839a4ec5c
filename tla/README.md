# A verification project for the CU student AI assistant

TLA+ models of the core of this repository, the TLC configurations that check
them on small instances, and theorems about them that TLAPS proves for every
value of the constants. Paths below are relative to the repository's root;
`chat_service/` stands for `services/chat-service/chat_service/`.

Contents: [the system](#1-the-system) · [the modules](#2-the-modules) ·
[the runs](#3-the-runs) · [the proofs](#4-the-proofs) ·
[disagreements found](#5-disagreements-between-code-and-documentation) ·
[what is not modelled](#6-what-is-not-modelled) · [the plan](#7-the-plan)

## 1. The system

A Vue client talks to two FastAPI services. The **course search API** answers
REST requests (log-in, profile, courses, programmes) from PostgreSQL. The
**chat service** serves a WebSocket per chat session: each message of the
student is one *turn*, run through a LangGraph conversation engine that calls
Anthropic's model, whose tool calls read Neo4j and PostgreSQL and write the
student's decisions. Conversation memory is in Redis. An **ingestion pipeline**
fills PostgreSQL and Neo4j from JSON files.

| Component | State it keeps | Operations | Talks to |
|---|---|---|---|
| WebSocket handler, `chat_service/routes/chat.py` | per connection: rate window; per turn: snapshot of memory, `streamed_reply`, segment flags | accept, guard, sanitize, load, stream, extract, persist, send, start a summary task | client (frames), memory (awaits), graph (stream), background tasks |
| Conversation memory, `core/memory.py`, `services/redis_service.py` | Redis: `messages:{user}:{session}` list, `summary:{user}:{session}` string, a TTL each | load both, append a pair, length check, replace the summary and trim | handler, summary task, Anthropic |
| Conversation engine, `core/llm_engine.py` | per turn: messages, call and round counters, error, cards | seven nodes and a conditional edge | Anthropic, tool executor, context builder, validator |
| Tool executor, `core/tool_executor.py` | none of its own; `tool_audit_log` rows | check, dispatch, invoke, audit | tools, PostgreSQL |
| Student decisions, `services/postgres_service.py`, `core/tools.py` | `student_decisions` rows | insert, delete, read; schedule conflicts (pure) | PostgreSQL |
| Output validator, context builder, intent classifier, sanitizer | none | text to text | engine, handler |
| Chat client, `frontend/src/composables/useChat.ts`, `stores/chatStore.ts` | socket, reconnection timer, flags, transcript | connect, route frames, send, disconnect, clear | handler |
| Course search client, `useCourses.ts`, `courseStore.ts` | result page, offset, filters | fetch, next and previous page | search API |
| Student and account API, `services/course-search-api` | users, completed courses | register, log in, replace courses, set programme | PostgreSQL |
| Ingestion, `data/ingest` | both databases | wipe, four upsert steps, validate, retry | PostgreSQL, Neo4j, Ollama |

What is hard in it, and what makes each part correct:

* **Memory.** Every `await` lets another coroutine in. The summary task of a
  turn runs beside the next turns of the session; after a reconnection a second
  handler serves the same session while the first still waits for its graph;
  calls fail with their effect done or not; each key expires alone. Correct
  means: the list is a gapless tail of what was said, the model's history
  alternates, nothing said is lost from both tiers, the list stays bounded.
* **Engine.** The model decides how often the loop goes round, how many tools a
  message asks for, when a request fails and after how many tokens. Correct
  means: every turn ends, the caps hold, every request is one Anthropic
  accepts, cards are grounded, the student gets the answer.
* **Tools.** Calls of a round run concurrently, sessions of one user overlap, a
  timeout or a dropped socket cancels at any `await`, a commit may have happened
  although its caller was never told. Correct means: only the owner's rows are
  touched, nothing is done twice, audit rows and answers tell the truth.
* **Client.** A socket closes long after it was replaced, a reply goes on while
  the conversation is cleared or the student logs out, reconnections are timed.
  Correct means: the transcript is what was said to this student in this session,
  in order, no flag is stuck, and a connection comes back or the student is told
  why not.
* **Account API.** Requests of one student run in transactions of their own at
  READ COMMITTED, two registrations may use one address, a commit's answer may be
  lost. Correct means: a replacement is visible as a whole or not at all, an
  answered request ended what was answered before it, one address is one account,
  nobody waits for ever.
* **Ingestion.** Two databases without a common transaction, retries of whole
  steps, kills between any two parts, sources that change between runs. Correct
  means: a load that ends well leaves what an undisturbed load leaves, readers
  never see half of it, and nothing is lost without the operator's confirmation.
* **Pure functions.** Day and time parsing, the context budget, the grammar of
  requirement rows, paging, prerequisite chains: each is right when it says what
  its input means, told without the function.

`PROJECT.json` lists every component, every hazard at its line with the
properties that cover it, and the source lines each definition translates.

## 2. The modules

| Module | Models |
|---|---|
| `SessionMemory` | abstract: what the memory promises |
| `ConversationMemory` | the two Redis keys of one session, its handlers, its summary tasks |
| `TurnEngine` | one turn of the graph and of the handler that streams it |
| `ToolExecutor` | concurrent tool calls of several sessions against PostgreSQL |
| `StudentApi` | concurrent account and profile requests against PostgreSQL |
| `ChatSystem` | the chat panel, its sockets, and the handler at the other end |
| `IngestPipeline` | runs of the ingestion job over PostgreSQL and Neo4j |
| `Schedule`, `ContextBuilder`, `CatalogParsing`, `CourseQueries` | pure functions |
| `ReadSide` | a state machine that asks one of those functions per step |
| `ConversationMemoryProofs`, `TurnEngineProofs`, `ToolExecutorProofs`, `StudentApiProofs`, `IngestPipelineProofs`, `ChatSystemProofs`, `ReadSideProofs` | theorems about the module each is named after; `ReadSideProofs` those about the four modules of functions too |
| `SequenceLemmas` | induction, recursion, concatenation and order, for the proofs of `ReadSideProofs` |
| `MC...` | model values and inputs for TLC |

`ChatSystem` composes client and handler; it reduces a turn to the frames it sends,
which `TurnEngine` produces and `ConversationMemory` brackets with memory calls.
`ReadSide` extends `ContextBuilder` and instantiates the other three.

In the modules, an operator whose comment begins with *Mutant* is a plausible
bug in the operation it precedes. No behaviour uses one; substituted for the
real operation it makes the property named in `PROJECT.json` fail, which shows
that the property says something about that code.

### ConversationMemory

State: `buffer` and `msgTTL` are the messages key, `summary` and `sumTTL` the
summary key; per handler, `pc` and the locals that live across awaits
(`history` and `prior` are `conv_state`, `needs` is `needs_summary`); `tasks`
holds what each background task was given.

| Code | Actions |
|---|---|
| handshake; a frame that passes the guards | `Connect`, `Receive` |
| `get_conversation_state`: LRANGE, then GET | `LoadHistory`, `LoadHistoryFails`, `LoadSummary`, `LoadSummaryFails` |
| the graph ends; `append_messages` (MULTI/EXEC) | `SaveTurn`, `SaveTurnFails`; `AbandonTurn` for a timeout or an exception |
| `llen` after the append | `CheckLength`, `CheckLengthFails` |
| send, then `create_task` without an await | `Respond` |
| `WebSocketDisconnect` at a receive or a send | `Disconnect` |
| `_summarize_and_save`: model call, then SET + LTRIM | `SaveSummary`, `SaveSummaryFails` |
| the process dies; Redis expires keys | `Crash`, `Tick` |

A summary is abstracted to the set of messages folded into it: `generate_summary`
gets the prior summary and a list and is taken to keep what it is given. How
well a model summarizes is no question of this code; which messages it is shown
is. `log`, `expired` and `seen` are history variables for the properties.
A failure of a write leaves it done or not done, since a timeout of EXEC cannot
tell.

`Prompt` selects environments: with `Prompt = TRUE` a turn is persisted only
when no summary task is under way. The code does not guarantee this: it is the
assumption under which the two-tier design works, and `memory_overlap` shows
what happens without it.

`SessionMemory` is the promise: a conversation grows by whole turns, each at most
once, and what has been said can be recalled. `RemembersEverything` is the
refinement, with `said <- log` and `recalled <- summary \cup Range(buffer)`.

### TurnEngine

State: the fields of `ConversationState` that the control depends on, the node
about to run, what was forwarded to the client (`streamed`, a sequence of pieces
that name their message, and say whether they are all of its text, and the
segment they are in), and the `reply`.

| Code | Actions |
|---|---|
| `classify_intent_node` with `classify_intent`, which may ask the model; `build_context_node` | `ClassifyIntent` with `Classified`, `BuildContext` (never fail) |
| `call_llm_node`, `should_continue`, the token branch of `_run_stream` | `CallLLM`, `RetryWithoutTools`, `CallLLMFails`, with `AfterAnswer` and `Segment` |
| `tool_node` | `ToolNode` |
| `final_response_node` | `FinalResponse` with `Stubs` |
| `respond_node`, `_extract_course_cards` | `Respond` with `Cards` |
| `validate_output_node` | `ValidateOutput` with `Redact` |
| reply extraction, persist and send | `Deliver` |
| `wait_for` timeout, exception, dropped socket | `Abandon`, `Disconnect` |

A text is the message it belongs to; which courses it cites is chosen when
`respond` looks, whether it holds personal data when `validate_output` does. A
tool result carries one course or none. `requests` counts the calls that the service's code makes
of its Anthropic clients, the classifier's included; what a client sends again on
its own (`max_retries`) is inside such a call. Courses have a code and a title, so the
schema check of the validator keeps every card. The tokens of a failed first
attempt have the id of the answer that the retry gives.

### ToolExecutor

State: `rows` (`student_decisions`), `audit` (`tool_audit_log`), each session's
turn, counter and round of calls, and `orphans`: commits that were on their way
when their caller was cancelled. Each call is at the await it waits on: `body`
(the tool), `refresh`, `commit`, `audit`, or has `returned`.

| Code | Actions |
|---|---|
| `tool_node`'s `gather`, the counter | `StartRound`, `FinishRound`; `BeginTurn`, `EndTurn` |
| `execute` up to its first await; its answer to a call past the cap, of an unknown tool or with invalid arguments | `Dispatch`, `Told` |
| `save_student_decision` | `SaveCommits`, `Refresh`, `BodyRejects` |
| `remove_student_decision` | `DeleteExecutes`, `DeleteCommits`, `BodyRejects` |
| the six tools that read | `Reads` |
| any other exception of the body | `BodyFails` |
| `_write_audit_log` | `WriteAudit`, `AuditFails` |
| `CancelledError`; what the database makes of a commit in flight | `Cancel`, `Settle` |

PostgreSQL is external and modelled as the code uses it: transactions at READ
COMMITTED, an INSERT seen from its commit on, a DELETE that removes what is
committed when it executes and waits for rows another transaction is deleting.
A course code is the course and whether it is spelled in upper case, which is
all `save_decision` and `remove_decision` differ in. `told` is a history variable: every
answer the model was given, those of `Dispatch` too, and with a removal's the table
its DELETE saw.

### ChatSystem

State: `panel` is the closure of `useChat` with `chatStore`; `storage` is the browser's
sessionStorage, per user; `sockets` holds both ends of every socket opened so far:
the browser's state, the frames on their way up and down, and the handler's
position, rate counter and turn.

| Code | Actions |
|---|---|
| `authStore` log-in and log-out, watched by the panel | `LogIn`, `LogOut` |
| `clearConversation`; a page reload | `ClearConversation`, `Reload` |
| `sendMessage`, from the input or from an action of an answer | `Send` |
| `onopen`, `onmessage` | `Deliver` with `OnMessage`, `AppendToken`, `ApplyFinalAssistant` |
| `onclose`, also of a socket that was replaced | `CloseEvent` with `OnClose` |
| the reconnection timer | `Reconnect` |
| accept and token check; receive with size, rate and emptiness guards | `Accept`, `Receive` |
| frames of `_run_stream`; the reply or an apology | `Stream`, `Finish` |
| the network or an instance goes away | `Drop` |

A frame is its type and, for text, which piece of which turn, session and socket
it is; sizes and rates are the outcome of their guards. Once the browser has
called `close()` no frame of that socket reaches the panel, so the handler at its
other end is left out from there on; what that handler still does to memory is
in `ConversationMemory`. The back-off of the timer is its order only.

### StudentApi

State: the tables `users` and `rows` (`completed_courses`), and per request where it
is and what its transaction holds: the snapshot its DELETE works on, the rows it
has deleted and inserted and not committed.

| Code | Actions |
|---|---|
| `get_current_user` | `GetCurrentUser` |
| `update_completed_courses` | `CheckCourses`, `DeleteExecutes`, `InsertRow`, `CommitCourses`, `ReadCourses` |
| `update_program` | `SetProgram`, `ReadProgram` |
| `register`, `login` | `LookUp`, `CreateUser`, `RefreshUser`; `LogIn` |
| a database call fails; a commit's answer is lost; a deadlock is resolved | `CallFails`, `ReplyLost`, `DeadlockDetected` |
| a request arrives; an administrator closes an account | `Arrive`, `Deactivate` |

PostgreSQL is external and modelled as the code uses it, at READ COMMITTED: a DELETE
sees what was committed when it began, waits for rows others are deleting and
skips those that went, an INSERT waits for the key another is inserting or
deleting, and a cycle of waits is broken by an error for one of them.

### IngestPipeline

State: both stores, the accounts beside them, the source file's version, and the
run under way: its steps, the part of the step, the attempt, and the courses still
to be embedded. Each *part* is one transaction.

| Code | Actions |
|---|---|
| `main`, `run_all.py`, `--dry-run`, the confirmation flag | `Start` |
| `_wipe` | `WipePostgres`, `WipeAborts`, `WipeNeo4j` |
| `ingest_courses` | `WritePostgresCourses`, `Departments`, `CourseNodes`, `SectionNodes`, `AttributeEdges` |
| `parse_prerequisites` | `PrerequisiteEdges` |
| `ingest_requirements` | `WritePostgresRequirements`, `ProgramNodes`, `RequirementNodes`, `SatisfiedBy`, `OrAlternatives` |
| `build_all_embeddings` | `VectorIndex`, `SelectMissing`, `Embed`, `EmbedFails`, `EmbeddingsDone` |
| the validators | `ValidateCounts`, `ValidateRequirements`, `ValidateExtras` |
| an exception, with `with_retry`; a kill | `StepRaises` with `Raises`; `Killed` |
| a new scrape; students meanwhile | `NewSource`, `Register` |

`Upsert` is `INSERT ... ON CONFLICT DO UPDATE` and `MERGE ... SET`: rows that agree with
a new one on the key's columns give way. `loaded` is a history variable for the
properties.

### Pure functions and ReadSide

| Module | Functions |
|---|---|
| `Schedule` | `_parse_days`, `_to_24h`, `_parse_meets_slot`, `_time_overlaps`, `get_schedule_conflicts` |
| `ContextBuilder` | the formatters, the retrieval by intent, `_wrap_section`, `_assemble_with_budget` |
| `CatalogParsing` | `classify_requirement`, `parse_course_codes`, or-predecessors, prerequisite prose, listings to courses and sections |
| `CourseQueries` | `list_courses` and the search page's paging, `lookup_course`, `search_courses`, prerequisite chains, degree requirements, the student page |

What a text means is its data: a time is an hour, minutes and a marker or none; a
course id is its segments and parts with a department, a number or both; the name of a
department is a sequence of pieces, `<< "CS", "CI" >>`, so that a filter can be a prefix of it;
an entry of a context section is one character, while tags, separators and the
truncation remark keep their real lengths. Where a query has no ORDER BY, PostgreSQL
may visit the rows in any order and in another one at the next request: a
catalogue has a set of such orders, `scans`, and each request of a listing takes one of
them, `input.orders`.

`ReadSide` asks one function for an input and keeps its answer; each invariant
compares the answer with the meaning of the input, defined without the function
(minutes of the week a class occupies, the department nearest to the left of a
number, reachability in *k* steps).

## 3. The runs

| Run | Expected | Question |
|---|---|---|
| `memory_patient` | pass | Does the two-tier design keep what it promises when nothing fails and summaries are prompt? |
| `memory_faults` | pass | What survives every failure and interleaving? |
| `memory_overlap` | violation | Does the promise survive slow summaries? No. |
| `turn` | pass | Is a turn bounded, well formed, grounded and finite, whatever the model does? |
| `turn_final_answer` | violation | Does the closing answer reach the student? Not always. |
| `tools` | pass | Are effects owned, accounted for, truthfully audited and answered? |
| `chat` | pass | Is the transcript faithful, and do client and handler recover, whatever is dropped, cleared or late? |
| `chat_input` | violation | Is the input enabled whenever no reply is under way? Not after a reply was cut off. |
| `accounts` | pass | Are concurrent profile and account requests whole, truthful and answered? |
| `accounts_union` | violation | Is the list replaced atomically? Two overlapping replacements are merged. |
| `ingest` | pass | Do interrupted, repeated and mixed runs converge, without loss in between? |
| `read_side` | pass | Do the pure functions say what their inputs mean? |

**Properties of the passing runs**, and why each is worth its run:

* `NothingForgotten`, `WindowCovered`: the task trims what the turn that started
  it, and the turn that runs now, may both rely on; the history and the summary
  are read one after the other. `RemembersEverything` adds that a message once
  recalled is never lost later, and that turns appear whole.
* `BufferBounded`, `OverflowCompressed`: one task per overflow suffices, and an
  overflow always gets one.
* `BufferIsRecentLog`, `RecentKept`, `HistoryAlternates`: what remains true when
  tasks overlap, replies are lost and handlers share the session.
* `RequestsWellFormed`, `ExchangeClosed`, `WorkBounded`, `TurnEnds`: the loop that
  the model drives. `CardsGrounded`: cards against results of all rounds and the
  last text. `SegmentsApart`: the flag that two kinds of events set.
* `EffectsAreOwn`, `RowsAccounted`, `AuditTruthful`, `AnswersTrue`: relate the table,
  the audit log and what the model was told, across cancellation and failure. An
  unflagged audit row of a save means that it was done; the converse is false, since a
  save whose refresh fails after its commit is done, flagged and answered with an
  error, and `AuditTruthful` does not claim it. What a removal promises is stated of
  the rows its DELETE saw: none that spells the course in capitals is left, however the
  removal spells it.
* `TranscriptFaithful`: tokens are appended to whatever answer is last, and sockets,
  sessions and users change under them. `TypingEnds`, `Reconnects`: flags and the
  timer are set and cleared by different events of different sockets.
* `SupersededGone`, `AllOrNothing`: what snapshots and row locks leave of two
  replacements of one list. `AccountsTruthful`: look-up, insert and log-in with an
  address in two spellings. `EveryRequestAnswered`: transactions wait for each other.
* `SuccessIsExact`, `SuccessIsCurrent`: parts of two stores, written or not by runs
  before. `NeverHalfLoaded`: what a reader sees during a run.
  `NothingLostUnconfirmed`: modes, retries and cascades. `RunEnds`: retries end.
* `ConflictsExact`, `ContextFits`, `CatalogueRead`, `QueriesExact`: the four modules of
  functions against their meaning; each is a conjunction of named parts. `CatalogueRead`
  demands of every row exactly the courses its id names; `GivesNone` lists the forms that give
  none, by the id and not by how the code classifies it, and two of them, which do name
  courses, are a finding. `QueriesExact` demands of a listing that each page holds
  only what matches and, without a status, is full, and that all of it is shown as long as the
  requests visit the courses in one order, which nothing in the code ensures (a finding).

**Bounds.**

* Memory: `MaxRecent` 4 and `Keep` 2 stand for 20 and 10; both even, `Keep` at
  least one turn and at least one turn below `MaxRecent`, as in the code, which
  is what `MemoryAssumption` asks. `memory_patient` has seven turns, enough for
  three overflows, the third built on a summary of a summary.
  `memory_faults` has two handlers, four turns (one overflow, a second task from a second
  handler), two faults and two ticks, which is one whole TTL. `memory_overlap` uses 6
  and 4 to show that the loss needs no tight threshold.
* Turn: two rounds, three calls and at most two calls a message make both caps
  bind, in either order, the call cap in the middle of a round included; one
  card and two courses make the card cap bind.
* Tools: two sessions, owners chosen freely (one user or two), three calls in
  two turns with a cap of two: a session can run two calls at once beside
  another's one, and a turn can exceed its cap. One fault at any await. The
  requests name one course, in upper or lower case, both writers, a read, an
  argument rejected by the body and by the schema, and a tool that does not exist.
* Chat: two disturbances (drop, log-out, clear, reload) give up to five sockets
  and every pair of them; two messages with a limit of one exercise the rate
  guard; two users share a browser; three messages in a transcript make its cap
  bind; a reply has one frame before its last one. `chat_input` needs one
  disturbance.
* Accounts: three requests, so that a third may see what two left; lists that
  overlap in either order, an empty one, too long, repeated and unknown ones; one
  fault: a failed call, a lost answer or an account closed meanwhile. One student: rows
  of two students never meet in any statement.
* Ingestion: three versions of the source (a text changed, a prerequisite's type
  and a program's requirements changed, a course replaced and a program left without
  requirements), three runs in any modes, a kill or exception at any part. `MaxAttempts` is 2 for 5, and
  `ToleratedPct` 50 for 5 because the sources have two courses.
* Read side: the code's own tag lengths (29, 45, 39), remark (15) and depth (5),
  with prerequisite chains of six edges and cycles; budgets around every
  threshold of the sections; times around noon and midnight; `MaxShown` 2 for
  500 and `MaxHits` 3 for 10, with up to four decisions, and five courses of three departments, two
  of which begin alike. Each catalogue has two orders, the one of the ids and any other, and
  each request takes either.

`memory_faults` and `tools` use symmetry, of handlers or sessions, and check safety
only; no definition distinguishes them. `CHECK_DEADLOCK FALSE` is set where the
bounds on turns, calls, requests, runs and faults make the model stop. `turn` and
`read_side` check deadlock: a turn that is over may stay over, and nothing else may
stop.

**Fairness.** `ConversationMemory` asks weak fairness of each handler's steps and
of summary tasks: the event loop resumes every coroutine whose await is over,
and every call of a turn has a timeout (the graph's is `GRAPH_TIMEOUT_SECONDS`).
`TurnEngine` asks weak fairness of the graph's steps for the same reason.
`ChatSystem` asks it of the timer and, socket by socket, of the delivery of events
and of the handler: browsers fire timers and deliver frames and close events, and
a turn ends within its timeout. `StudentApi` asks it of each request: its thread
goes on when a call returns, and the database answers waiting transactions once
they need not wait, or detects the cycle. `IngestPipeline` asks it of the run under
way: the job is one sequential process whose clients have timeouts. Nothing is
asked of students, operators, the clock, failures, or the model's choices:
`TurnEnds` holds because of the caps, `RunEnds` because of the attempts.
`ToolExecutor` and `ReadSide` have no liveness property and no fairness.

## 4. The proofs

All theorems hold for every value of the constants that the modules' named
assumptions allow (`MemoryAssumption`, `EngineAssumption`, `ExecutorAssumption`,
`ApiAssumption`, `AccountsAssumption`, `ChatAssumption`, `IngestAssumption`,
`ContextAssumption`, `ReadAssumption`, `TimetableAssumption`, `CatalogueAssumption`,
`QueryAssumption`), which TLC evaluates in each run. Besides types
of parameters they say:

* `MemoryAssumption`: `Keep` and `MaxRecent` are even and at least one turn apart, as the
  code's 10 and 20 are. An odd limit would cut a pair.
* `AccountsAssumption`: the accounts that are there to begin with are what the code
  would have made: numbered, one lower-case address each; completed courses refer to
  them and to the catalogue.
* `IngestAssumption`: what the parsers give is consistent in itself: a section, an
  attribute, a requirement and an edge refer to a course, a program or a
  requirement of the same file. They do not promise that a course named by a
  prerequisite or a requirement exists, or that a program has a requirement, and no
  theorem assumes it.
* `ReadAssumption`: a text is a sequence of lines, and no text is the absence of one.
* `TimetableAssumption`: a section's schedule is what the catalogue can write down: days of
  the week and times on a clock, each possibly missing. `CatalogueAssumption`: what is
  scraped is listed in sequences, and a mention of a course has a number (the
  pattern that finds it demands one).
* `QueryAssumption`: tables are finite and have their keys (each course stands once in each scan,
  decisions have ids of their own, a program's requirements each a `sort_order`, the key
  the graph merges them by), and limits are at least 1 (`ge=1`). Nothing is
  assumed of edges: prerequisites may form cycles and be infinitely many.

| Theorem | Statement | Argument |
|---|---|---|
| **`ConversationMemoryProofs`** | | |
| `TypeCorrect` | `Spec => []TypeOK` | inductive as it stands |
| `BufferCorrect` | `Spec => []BufferIsRecentLog` | `SuffixInv`: the buffer is a `SubSeq` of the log that ends at its end, holds at least `Keep` messages or all since the last expiry |
| `RecentMessagesKept` | `Spec => []RecentKept` | the second half of `SuffixInv` |
| `HistoriesAlternate` | `Spec => []HistoryAlternates` | `AlternateInv`: the buffer too alternates from a user message on, which a cut at an even place keeps |
| `NothingForgottenWhenPatient` | `Patient /\ Spec => []NothingForgotten` (one handler, no faults, no ticks, `Prompt`) | `PatientInv`: each task, and the snapshot of a turn about to start one, cover all but the last two messages, which `Keep >= 2` spares; a turn that is going to overflow the list has loaded all of it, because a list that long had no task to trim it |
| `WindowCoveredWhenPatient` | `Patient /\ Spec => []WindowCovered` | `WindowInv`: between the two reads of a turn a task may move messages to the summary that is read next, all but the last two, which the history has |
| `BufferBoundedWhenPatient` | `Patient /\ Spec => []BufferBounded` | `WindowInv`, with `PatientInv` on the task that an overflow starts |
| `RemembersEverythingWhenPatient` | `Patient /\ Spec => RemembersEverything` | refinement of `SessionMemory`: `RefinementInv` adds that both tiers and all copies of them hold messages of the log, and that a turn not yet persisted is new to it; each step maps to `Remember` or to a stutter |
| **`TurnEngineProofs`** | | |
| `TypeCorrect` | `Spec => []TypeOK` | from `CardsInv`, `StreamInv` and the handler's fields |
| `WorkIsBounded` | `Spec => []WorkBounded` | `WorkInv`: `tool_node` is entered below both caps; executed calls are the counted ones cut at the cap; requests are the classifier's, at most two a round and two for the answer past the last round, and the closing one: `2 * MaxRounds + 4` |
| `RequestsAreWellFormed`, `ExchangesClose` | `Spec => []RequestsWellFormed`, `[]ExchangeClosed` | `ExchangeInv`: calls are open only while a node is about to answer them, or after `final_response` failed |
| `CardsAreGrounded` | `Spec => []CardsGrounded` | `CardsInv`: the cards are those of the final text; a lemma on ranks: the n-th of a finite set of positions exists, is one and grows with n |
| `SegmentsStayApart` | `Spec => []SegmentsApart` | `StreamInv`: the last piece is of the latest segment, and while `call_llm` has sent something, of the answer still to come |
| `EveryStepCounts` | `Spec => NearerTheEnd` (an action property: each step lowers `StepsLeft`, a number) | the steps left are three a round, with the retry of its request, and those before and after the rounds: `WorkInv` gives that `tool_node` is entered below the cap and only from a first attempt |
| **`ToolExecutorProofs`** | | |
| `TypeCorrect` | `Spec => []TypeOK` | inductive as it stands |
| `OwnRowsOnly` | `Spec => []EffectsAreOwn` | `OwnInv`: every call in flight, and every orphaned commit, carries its session owner's id, and dooms only that user's rows |
| `RowsAreAccounted`, `AuditTellsTheTruth`, `AnswersAreTrue` | `Spec => []RowsAccounted`, `[]AuditTruthful`, `[]AnswersTrue` | `ToolInv`: names are not used again; of each call under way, cancelled ones included, exactly what its place in `execute` says is recorded, and, of the table a removal's DELETE saw, what it is to remove is doomed before the commit and gone after it; no two are deleting one row. Each step is reduced to what it records of one call |
| **`StudentApiProofs`** | | |
| `TypeCorrect` | `Spec => []TypeOK` | from `AccountsInv` |
| `ReplacementsWhole` | `Spec => []AllOrNothing` | `IInv`: the rows of one replacement stand and fall together in the table, in every snapshot and in every set of deleted rows, since all are one student's; a request's uncommitted keys meet no other's and none of the table's that it has not deleted |
| `SupersededListsGone` | `Spec => []SupersededGone` | `AccountsInv`: the rows to be put an end to are in the snapshot, then among those being deleted, then gone; a program is the one loaded or one set since |
| `AccountsTellTheTruth` | `Spec => []AccountsTruthful` | `AccountsInv`: stored addresses are lower-case and one an account; two registrations that made an account made two |
| **`ChatSystemProofs`** | | |
| `TypeCorrect` | `Spec => []TypeOK` | `CountInv`: each socket but the first was paid for with a disturbance |
| `TranscriptsAreFaithful` | `Spec => []TranscriptFaithful` | `ChatInv`: the panel's socket is the only one alive and is of the panel's student and session; what is on its way comes after all that is shown; what sessionStorage would give back is in order too |
| **`IngestPipelineProofs`** | | |
| `TypeCorrect` | `Spec => []TypeOK` | from `LoadInv` |
| `ReadersSeeWholes` | `Spec => []NeverHalfLoaded` | `ReadersInv`: besides, the requirements table holds nothing of a program that is not in the programs table |
| `SuccessCurrent`, `SuccessExact` | `Spec => []SuccessIsCurrent`, `[]SuccessIsExact` | `LoadInv`: the stores hold nothing but what loaded sources said, and, of the run under way, all that the parts before its present one write; no part takes back what an earlier one wrote |
| `NothingLost` | `Spec => NothingLostUnconfirmed` (an action property) | `LoadInv`: the wipe's parts belong to a full run, which was confirmed; every other write keeps keys |
| `EveryMoveCounts` | `Spec => RunAdvances` (an action property: each move of a run leads to a `Later` one) | a lexicographic order: steps left, then attempts, then parts, then courses to embed, which are finitely many (`TodoInv`) since the graph's courses are (`LoadInv`); in the wipe parts come before attempts, which each part counts anew |
| **`ReadSideProofs`** | | |
| `ParsedWithinDay` | a slot that parses lies within a day and begins before it ends | cases of the two markers |
| `OverlapIsCommonMinute` | two slots of a day overlap iff they share a minute | witness: the later start |
| `OverlapDaysExact` | the days reported for two sections are those on which they share a minute | from the former |
| `ConflictsAreExact` | `Spec => []ConflictsExact` | the written days are read back as the days that were written: no day's second letter begins a day, so by induction over the days each begins where the one before it ends; each slot is then read as the minutes it means, and `OverlapDaysExact` gives the answer |
| `ContextsFit` | `Spec => []ContextFits` | section by section: what is there takes at most what is counted; the count is exactly what is asked for as long as that fits; after a cut it is at the limit, so nothing is added any more |
| `CatalogueIsRead` | `Spec => []CatalogueRead` | in a regular segment the nearest department before a part is the last full code's; the code that splits and concatenates keeps each course; of the places where a section stands, ordered by listing and position, there is a first one. Rows by the form of the id: those of `GivesNone` are shown to be taken for a total, a choice or an elective, or not to be split; all others are split as they are named |
| `QueriesAreExact` | `Spec => []QueriesExact` | chain: a course's nearest way follows no edge twice, as each edge takes it one step further, so a trail within the depth reaches it (`ChainShown`); paging: a page is cut from one visit of the matching rows and so is full (`RequestShows`); the next page begins within the one before it and further on, so by induction every row of one order is on a page (`OffsetsCover`); search: a code begins with a department iff they agree piece by piece (`PrefixAgrees`); sorted answers: a finite ranked set has one order, by induction on its size |

Hardly one of these properties is inductive. `NothingForgotten` needs what each
task and each turn at each of its awaits still holds of the log; `EffectsAreOwn` and
`RowsAccounted` need the calls in flight and the orphans, whose commits come after the
turn; `TranscriptFaithful` needs every frame that is still on its way; `SuccessIsExact`
needs, for each of the nineteen parts of the job, what the ones before it have
left in two stores. `ReadSide` is the exception: a step asks and answers at once, so
its invariants say of each function what it returns, and the work is in the lemmas on
the functions; `JustAsked` tells which function an answer came from.

**Induction.** The prover cannot instantiate a theorem with an operator parameter, such as
the library's induction rules. `SequenceLemmas` states induction for a *set* of
numbers instead (`Induction`: a set with 0 in it and, with each number, the next one, has
all), from the library's theorem on minimal elements, and likewise that a
function can be defined by recursion over values of a set (`Recursion`). From these it
derives where each part of a concatenation stands (`FlattenPlaces`, `FlattenElements`) and
that a finite ranked set can be put in order in one way (`OrderExists`, `OrderUnique`),
which is what the proofs about texts, listings, trails and pages of any length rest
on.

**Model-checked only.** The liveness properties `OverflowCompressed`, `TurnEnds`,
`TypingEnds`, `Reconnects`, `EveryRequestAnswered` and `RunEnds`: the prover handles
neither fairness nor ENABLED. Every safety invariant, the action property and the
refinement that the runs check are proved. Of `TurnEnds` and `RunEnds` the part that
is safety is proved too, for every cap, answer and source: `NearerTheEnd` and
`RunAdvances`, stated in the proof modules, say that a turn or a run cannot go on for
ever; what remains to TLC is that it is not stuck before its end and is scheduled.

## 5. Disagreements between code and documentation

Four are shown by a run each, with the quotation in `PROJECT.json`:

1. `memory_overlap`: two summary tasks under way lose messages from both tiers.
   Turn *n* overflows the list and starts a task; before it writes, turn *n+1*
   loads the same snapshot, appends, overflows and starts another. The tasks
   write in either order, each replacing the summary and trimming the list.
2. `turn_final_answer`: text streamed before the cap was hit becomes the reply, and
   the closing answer is dropped.
3. `accounts_union`: two overlapping replacements of the completed courses without a
   common course are both answered 200 and both kept.
4. `chat_input`: a socket that drops, or a conversation that is cleared, during a
   reply leaves the streaming flag set and the input disabled.

The others are read off the models' definitions, and listed without a run:

* Memory: each write refreshes its own key's TTL, not both (`memory.py:171`).
* Engine: a streamed reply is sent and persisted unredacted (`chat.py:362`); a turn
  can make twelve requests rather than five (`tool_executor.py:57`); the cap leads
  to `final_response`, not `respond` (`llm_engine.py:590`).
* Tools: a call cancelled between commit and audit leaves no audit row
  (`tool_executor.py:236`); a code saved in lower case cannot be removed
  (`postgres_service.py:387`); a `ValueError` of a tool is not retry-eligible
  (`postgres_service.py:342`).
* Handler and client: the rate window is fixed, not rolling (`chat.py:169`); an apology
  after streamed tokens is dropped (`chatStore.ts:58`).
* Context: the remark on truncation exceeds the budget by up to 14 characters
  (`context_builder.py:357`).
* API: pages are cut from rows that no ORDER BY orders, so a course can be on two of them
  and another on none; with a section status, rows are counted as courses, which loses
  some in one order, too (`courses.py:77`).
* Ingestion: embeddings computed before a later load are stale for good
  (`build_embeddings.py:60`); a wipe cascades to accounts (`__main__.py:33`); a row
  that is one id like `ECEN 4322/5322` gives no codes (`ingest_requirements.py:41`); a
  requirement with several courses is offered as one course, which the API rejects (`ingest_requirements.py:273`).

## 6. What is not modelled

* Text: prompts, keyword lists, sanitizing and redaction patterns, wording. No
  property is about them.
* Thin wrappers of Anthropic, Ollama and Neo4j: the outcome of a call is a
  nondeterministic choice where it is made.
* Start-up wiring, settings, the OpenAPI surface, log-in tokens, rendering
  components, Terraform, scripts and workflows: no interacting state.
* Of modelled components: a tool result with several courses is modelled by
  several results; a Redis entry that is not JSON by a failed load; a typing
  frame that cannot be sent by a disconnection; the API's per-address rate
  limiter is left out, as is the handler of a socket after the browser closed it.
* Overlapping answers of the search page: the code orders nothing and says
  nothing of what should be shown. The two-step registration form: two calls of
  the API, each modelled, joined by what the student does.

## 7. The plan

Done: the three core modules, the client, the account API, ingestion and the pure
functions; every safety property of every module, and the refinement of
`SessionMemory`, are proved. What is left:

1. Models: the two-step registration form over `StudentApi`, and the search page's
   overlapping requests.
2. The measures behind `TypingEnds`, `Reconnects`, `EveryRequestAnswered` and
   `OverflowCompressed`, as there are for `TurnEnds` and `RunEnds`.

No module with theorems reaches a RECURSIVE operator; recursion is written as
functions or folds.
