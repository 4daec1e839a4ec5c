------------------------- MODULE ConversationMemory -------------------------
(***************************************************************************)
(* Two-tier conversation memory of ONE chat session, that is of the two    *)
(* Redis keys messages:{user}:{session} and summary:{user}:{session}       *)
(* (chat_service/core/memory.py, services/redis_service.py), together with *)
(* everything that reads or writes them: the turns of the WebSocket        *)
(* handlers serving the session (routes/chat.py) and the background        *)
(* summary tasks those turns leave behind.                                 *)
(*                                                                         *)
(* A handler is sequential, but two of them can serve one session at once: *)
(* the client reconnects with the session id it had, while the handler of  *)
(* the dropped socket still waits for its graph.  A summary task runs      *)
(* beside every handler.  Each await of the code is a step boundary here.  *)
(*                                                                         *)
(* What a summary says is abstracted to the set of messages folded into    *)
(* it: generate_summary is given the prior summary and a list of messages  *)
(* and is taken to keep what it was given.                                 *)
(***************************************************************************)
EXTENDS Integers, Sequences, FiniteSets, Functions

CONSTANTS
  Conns,      \* handlers that may serve the session at the same time
  MaxRecent,  \* MAX_RECENT_MESSAGES (20 in the code)
  Keep,       \* _POST_SUMMARY_KEEP (10 in the code)
  TTL,        \* SESSION_TTL_SECONDS, in ticks of the abstract clock
  Prompt,     \* TRUE: environments in which a summary task ends before the
              \* next turn of the session is persisted
  MaxTurns,   \* bound: messages the users of the session send
  MaxFaults,  \* bound: failed calls, disconnections and server crashes
  MaxTicks    \* bound: ticks of the clock

ASSUME MemoryAssumption ==
  /\ MaxRecent \in Nat
  /\ Keep \in Nat
  /\ 2 <= Keep
  /\ Keep + 2 <= MaxRecent
  /\ Keep % 2 = 0
  /\ MaxRecent % 2 = 0
  /\ TTL \in Nat \ {0}
  /\ Prompt \in BOOLEAN
  /\ MaxTurns \in Nat
  /\ MaxFaults \in Nat
  /\ MaxTicks \in Nat

Turns == 1 .. MaxTurns
Role == {"user", "assistant"}
Message == [turn : Turns, role : Role]

(* The two messages one turn appends. *)
Pair(n) == << [turn |-> n, role |-> "user"], [turn |-> n, role |-> "assistant"] >>

(* LRANGE key -n -1, which is also what LTRIM key -n -1 leaves. *)
LastN(s, n) == SubSeq(s, IF Len(s) > n THEN Len(s) - n + 1 ELSE 1, Len(s))

VARIABLES
  buffer,    \* the list under the messages key (<<>> when there is no key)
  summary,   \* messages folded into the summary key ({} when there is none)
  msgTTL,    \* ticks left before the messages key expires, 0: no key
  sumTTL,    \* ticks left before the summary key expires, 0: no key
  pc,        \* where each handler is
  turn,      \* the turn it works on
  history,   \* conv_state["messages"] of that turn
  prior,     \* conv_state["summary"] of that turn
  needs,     \* needs_summary of that turn
  tasks,     \* summary tasks under way
  turns, faults, ticks,   \* counters for the bounds
  log,       \* history variable: every message ever persisted, in order
  expired,   \* history variable: how many of them were lost to expiry
  seen       \* history variable: Len(log) when the turn loaded its history

keys == << buffer, summary, msgTTL, sumTTL >>
handler == << pc, turn, history, prior, needs, seen >>
counters == << turns, faults, ticks >>
vars == << keys, handler, tasks, counters, log, expired >>

PC ==
  {"closed", "idle", "loading", "loadingSummary", "running", "checking", "responding"}

(* A summary task holds what it will fold: its messages argument, the turn's *)
(* snapshot, and its existing_summary argument.                              *)
Task == [turn : Turns, covers : SUBSET Message]

TypeOK ==
  /\ buffer \in Seq(Message)
  /\ summary \in SUBSET Message
  /\ msgTTL \in 0 .. TTL
  /\ sumTTL \in 0 .. TTL
  /\ pc \in [Conns -> PC]
  /\ turn \in [Conns -> 0 .. MaxTurns]
  /\ \A c \in Conns : pc[c] \notin {"closed", "idle"} => turn[c] \in Turns
  /\ history \in [Conns -> Seq(Message)]
  /\ prior \in [Conns -> SUBSET Message]
  /\ needs \in [Conns -> BOOLEAN]
  /\ tasks \in SUBSET Task
  /\ turns \in 0 .. MaxTurns
  /\ faults \in 0 .. MaxFaults
  /\ ticks \in 0 .. MaxTicks
  /\ log \in Seq(Message)
  /\ expired \in 0 .. Len(log)
  /\ seen \in [Conns -> Nat]

Init ==
  /\ buffer = << >>
  /\ summary = {}
  /\ msgTTL = 0
  /\ sumTTL = 0
  /\ pc = [c \in Conns |-> "closed"]
  /\ turn = [c \in Conns |-> 0]
  /\ history = [c \in Conns |-> << >>]
  /\ prior = [c \in Conns |-> {}]
  /\ needs = [c \in Conns |-> FALSE]
  /\ tasks = {}
  /\ turns = 0
  /\ faults = 0
  /\ ticks = 0
  /\ log = << >>
  /\ expired = 0
  /\ seen = [c \in Conns |-> 0]

Goto(c, from, to) ==
  /\ pc[c] = from
  /\ pc' = [pc EXCEPT ![c] = to]

(* One call fails, within the bound on failures. *)
Fault ==
  /\ faults < MaxFaults
  /\ faults' = faults + 1
  /\ UNCHANGED << turns, ticks >>

-----------------------------------------------------------------------------
(* The handler: one turn.                                                  *)

Connect(c) ==
  /\ Goto(c, "closed", "idle")
  /\ UNCHANGED << keys, turn, history, prior, needs, seen, tasks, counters, log, expired >>

(* A frame that passes every guard and still has text after sanitization.  *)
Receive(c) ==
  /\ Goto(c, "idle", "loading")
  /\ turns < MaxTurns
  /\ turns' = turns + 1
  /\ turn' = [turn EXCEPT ![c] = turns']
  /\ UNCHANGED << keys, history, prior, needs, seen, tasks, faults, ticks, log, expired >>

(* Mutant: the history is read with the wrong limit. *)
LoadHistoryShort(c) ==
  /\ Goto(c, "loading", "loadingSummary")
  /\ history' = [history EXCEPT ![c] = LastN(buffer, Keep)]
  /\ seen' = [seen EXCEPT ![c] = Len(log)]
  /\ UNCHANGED << keys, turn, prior, needs, tasks, counters, log, expired >>

(* get_conversation_state awaits LRANGE, then GET: other handlers and tasks *)
(* may run in between.                                                      *)
LoadHistory(c) ==
  /\ Goto(c, "loading", "loadingSummary")
  /\ history' = [history EXCEPT ![c] = LastN(buffer, MaxRecent)]
  /\ seen' = [seen EXCEPT ![c] = Len(log)]
  /\ UNCHANGED << keys, turn, prior, needs, tasks, counters, log, expired >>

(* LRANGE raises RedisError: the turn proceeds with neither tier. *)
LoadHistoryFails(c) ==
  /\ Goto(c, "loading", "running")
  /\ Fault
  /\ history' = [history EXCEPT ![c] = << >>]
  /\ prior' = [prior EXCEPT ![c] = {}]
  /\ seen' = [seen EXCEPT ![c] = Len(log)]
  /\ UNCHANGED << keys, turn, needs, tasks, log, expired >>

LoadSummary(c) ==
  /\ Goto(c, "loadingSummary", "running")
  /\ prior' = [prior EXCEPT ![c] = summary]
  /\ UNCHANGED << keys, turn, history, needs, seen, tasks, counters, log, expired >>

(* A failed GET is swallowed: no summary, but the history stays. *)
LoadSummaryFails(c) ==
  /\ Goto(c, "loadingSummary", "running")
  /\ Fault
  /\ prior' = [prior EXCEPT ![c] = {}]
  /\ UNCHANGED << keys, turn, history, needs, seen, tasks, log, expired >>

(* Mutant: the key's expiry is pushed back by the TTL, not set to it. *)
AppendPairExtends(n) ==
  /\ buffer' = buffer \o Pair(n)
  /\ log' = log \o Pair(n)
  /\ msgTTL' = msgTTL + TTL

(* RPUSH user, RPUSH assistant, EXPIRE in one MULTI/EXEC pipeline. *)
AppendPair(n) ==
  /\ buffer' = buffer \o Pair(n)
  /\ log' = log \o Pair(n)
  /\ msgTTL' = TTL

(* The graph has produced a reply and append_messages succeeds. *)
SaveTurn(c) ==
  /\ Goto(c, "running", "checking")
  /\ Prompt => tasks = {}
  /\ AppendPair(turn[c])
  /\ UNCHANGED << summary, sumTTL, turn, history, prior, needs, seen, tasks, counters, expired >>

(* Mutant: two RPUSHes of their own, as append_message would do it. *)
SaveTurnFailsHalfway(c) ==
  /\ Goto(c, "running", "responding")
  /\ Fault
  /\ needs' = [needs EXCEPT ![c] = FALSE]
  /\ \/ AppendPair(turn[c])
     \/ buffer' = Append(buffer, Pair(turn[c])[1]) /\ log' = Append(log, Pair(turn[c])[1]) /\ msgTTL' = TTL
  /\ UNCHANGED << summary, sumTTL, turn, history, prior, seen, tasks, expired >>

(* append_messages raises RedisError.  When the reply to EXEC timed out or  *)
(* was lost the pair is in the list all the same.                           *)
SaveTurnFails(c) ==
  /\ Goto(c, "running", "responding")
  /\ Prompt => tasks = {}
  /\ Fault
  /\ needs' = [needs EXCEPT ![c] = FALSE]
  /\ \/ AppendPair(turn[c])
     \/ UNCHANGED << buffer, log, msgTTL >>
  /\ UNCHANGED << summary, sumTTL, turn, history, prior, seen, tasks, expired >>

(* The graph timed out or raised: an apology is sent, nothing is persisted. *)
AbandonTurn(c) ==
  /\ Goto(c, "running", "idle")
  /\ UNCHANGED << keys, turn, history, prior, needs, seen, tasks, counters, log, expired >>

(* Mutant: the threshold is one turn too high. *)
CheckLengthLate(c) ==
  /\ Goto(c, "checking", "responding")
  /\ needs' = [needs EXCEPT ![c] = Len(buffer) > MaxRecent + 2]
  /\ UNCHANGED << keys, turn, history, prior, seen, tasks, counters, log, expired >>

(* The LLEN that follows the append, an await of its own. *)
CheckLength(c) ==
  /\ Goto(c, "checking", "responding")
  /\ needs' = [needs EXCEPT ![c] = Len(buffer) > MaxRecent]
  /\ UNCHANGED << keys, turn, history, prior, seen, tasks, counters, log, expired >>

CheckLengthFails(c) ==
  /\ Goto(c, "checking", "responding")
  /\ Fault
  /\ needs' = [needs EXCEPT ![c] = FALSE]
  /\ UNCHANGED << keys, turn, history, prior, seen, tasks, log, expired >>

(* Mutant: the prior summary is not folded into the next one. *)
RespondWithoutPrior(c) ==
  /\ Goto(c, "responding", "idle")
  /\ tasks' = IF needs[c]
              THEN tasks \cup {[turn |-> turn[c], covers |-> Range(history[c])]}
              ELSE tasks
  /\ UNCHANGED << keys, turn, history, prior, needs, seen, counters, log, expired >>

(* Mutant: only the first overflow of a session starts a task. *)
RespondOnce(c) ==
  /\ Goto(c, "responding", "idle")
  /\ tasks' = IF needs[c] /\ prior[c] = {}
              THEN tasks \cup {[turn |-> turn[c], covers |-> prior[c] \cup Range(history[c])]}
              ELSE tasks
  /\ UNCHANGED << keys, turn, history, prior, needs, seen, counters, log, expired >>

(* The response is sent; create_task follows with no await in between.  The *)
(* task is given the turn's SNAPSHOT of both tiers, taken when it loaded.   *)
Respond(c) ==
  /\ Goto(c, "responding", "idle")
  /\ tasks' = IF needs[c]
              THEN tasks \cup {[turn |-> turn[c], covers |-> prior[c] \cup Range(history[c])]}
              ELSE tasks
  /\ UNCHANGED << keys, turn, history, prior, needs, seen, counters, log, expired >>

(* A disconnection shows at receive_text or at a send: before the typing    *)
(* frame, at a token or at the response.  The handler returns; whatever it  *)
(* had left to do, creating the summary task included, is not done.         *)
Disconnect(c) ==
  /\ pc[c] \in {"idle", "loading", "running", "responding"}
  /\ pc' = [pc EXCEPT ![c] = "closed"]
  /\ Fault
  /\ UNCHANGED << keys, turn, history, prior, needs, seen, tasks, log, expired >>

-----------------------------------------------------------------------------
(* The background task _summarize_and_save, and the environment.           *)

(* Mutant: LTRIM 0 Keep-1, which keeps the oldest messages. *)
WriteSummaryKeepFirst(t) ==
  /\ summary' = t.covers
  /\ sumTTL' = TTL
  /\ buffer' = SubSeq(buffer, 1, IF Len(buffer) < Keep THEN Len(buffer) ELSE Keep)
  /\ UNCHANGED msgTTL

(* Mutant: the list is emptied once it is summarized. *)
WriteSummaryKeepNone(t) ==
  /\ summary' = t.covers
  /\ sumTTL' = TTL
  /\ buffer' = << >>
  /\ UNCHANGED msgTTL

(* SET summary EX ttl; LTRIM messages -Keep -1: one MULTI/EXEC pipeline. *)
WriteSummary(t) ==
  /\ summary' = t.covers
  /\ sumTTL' = TTL
  /\ buffer' = LastN(buffer, Keep)
  /\ UNCHANGED msgTTL

(* The LLM call touches nothing shared, so it is one step with the write. *)
SaveSummary(t) ==
  /\ t \in tasks
  /\ WriteSummary(t)
  /\ tasks' = tasks \ {t}
  /\ UNCHANGED << handler, counters, log, expired >>

(* The LLM or Redis raised: logged and swallowed.  As with the append, a    *)
(* pipeline whose reply was lost has run.                                   *)
SaveSummaryFails(t) ==
  /\ t \in tasks
  /\ Fault
  /\ tasks' = tasks \ {t}
  /\ \/ WriteSummary(t)
     \/ UNCHANGED keys
  /\ UNCHANGED << handler, log, expired >>

(* The process dies: handlers and tasks are gone, Redis keeps its keys. *)
Crash ==
  /\ Fault
  /\ pc' = [c \in Conns |-> "closed"]
  /\ tasks' = {}
  /\ UNCHANGED << keys, turn, history, prior, needs, seen, log, expired >>

(* Time passes in Redis: each key lives and dies by its own TTL. *)
Tick ==
  /\ ticks < MaxTicks
  /\ ticks' = ticks + 1
  /\ msgTTL' = IF msgTTL > 0 THEN msgTTL - 1 ELSE 0
  /\ sumTTL' = IF sumTTL > 0 THEN sumTTL - 1 ELSE 0
  /\ IF msgTTL' = 0
     THEN buffer' = << >> /\ expired' = Len(log)
     ELSE UNCHANGED << buffer, expired >>
  /\ summary' = IF sumTTL' = 0 THEN {} ELSE summary
  /\ UNCHANGED << handler, tasks, turns, faults, log >>

HandlerStep(c) ==
  \/ LoadHistory(c)
  \/ LoadSummary(c)
  \/ SaveTurn(c)
  \/ CheckLength(c)
  \/ Respond(c)

HandlerFails(c) ==
  \/ LoadHistoryFails(c)
  \/ LoadSummaryFails(c)
  \/ SaveTurnFails(c)
  \/ CheckLengthFails(c)
  \/ Disconnect(c)

Next ==
  \/ \E c \in Conns : Connect(c) \/ Receive(c) \/ AbandonTurn(c)
  \/ \E c \in Conns : HandlerStep(c)
  \/ \E c \in Conns : HandlerFails(c)
  \/ \E t \in tasks : SaveSummary(t) \/ SaveSummaryFails(t)
  \/ Crash
  \/ Tick

(* The event loop resumes every coroutine whose await is over, and every   *)
(* call of a turn has a timeout: handlers and tasks do not stop half-way.  *)
(* Nothing makes a client connect or send, a call fail, or time pass.      *)
Fairness ==
  /\ \A c \in Conns : WF_vars(HandlerStep(c))
  /\ WF_vars(\E t \in tasks : SaveSummary(t))

Spec == Init /\ [][Next]_vars /\ Fairness
-----------------------------------------------------------------------------
(* Properties.                                                             *)

(* Whatever fails, and however turns, tasks and expiry interleave, the      *)
(* messages key holds a suffix of what was persisted, in order and with no  *)
(* gap: LTRIM only ever cuts old messages off and RPUSH never reorders.     *)
BufferIsRecentLog ==
  /\ Len(buffer) <= Len(log)
  /\ buffer = LastN(log, Len(buffer))

(* Even when two tasks trim one after the other, the last Keep messages     *)
(* persisted since the key was created are there (_POST_SUMMARY_KEEP).      *)
RecentKept ==
  Len(buffer) >= Keep \/ Len(buffer) >= Len(log) - expired

(* The history handed to the model starts with the user and alternates,     *)
(* each reply directly after the message of its own turn: what the atomic   *)
(* append and the even limits are for (docs/decisions.md, ADR-38).          *)
Alternates(s) ==
  /\ Len(s) % 2 = 0
  /\ \A i \in 1 .. Len(s) :
       s[i].role = IF i % 2 = 1 THEN "user" ELSE "assistant"
  /\ \A i \in 1 .. Len(s) : i % 2 = 1 => s[i].turn = s[i + 1].turn

HistoryAlternates == \A c \in Conns : Alternates(history[c])

Recalled == summary \cup Range(buffer)

(* Nothing persisted is forgotten: it is in the buffer or in the summary.   *)
(* This is what save_summary's pipeline and the two tiers are for.          *)
NothingForgotten == \A i \in 1 .. Len(log) : log[i] \in Recalled

(* A turn is given the last MaxRecent messages persisted before it loaded,  *)
(* each in its history or in its summary, although the two are read one     *)
(* after the other and a task may trim in between.                          *)
WindowCovered ==
  \A c \in Conns : pc[c] = "running" =>
     \A i \in 1 .. seen[c] :
        i > seen[c] - MaxRecent => log[i] \in prior[c] \cup Range(history[c])

(* The list never grows past the threshold by more than one turn.           *)
BufferBounded == Len(buffer) <= MaxRecent + 2

(* A list over the threshold is compressed in the end.                      *)
OverflowCompressed == Len(buffer) > MaxRecent ~> Len(buffer) <= MaxRecent

Memory == INSTANCE SessionMemory WITH said <- log, recalled <- Recalled

(* The two tiers implement the abstract memory, with the log for what was   *)
(* said: a message once recalled stays recalled, and every save is recalled *)
(* at once, whatever moves between buffer and summary underneath.           *)
RemembersEverything == Memory!Spec
=============================================================================
