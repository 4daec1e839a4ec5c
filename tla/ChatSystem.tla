----------------------------- MODULE ChatSystem -----------------------------
(***************************************************************************)
(* The chat panel (useChat.ts, chatStore.ts) and the WebSocket handler     *)
(* (routes/chat.py) with the sockets between them.  A turn is reduced to   *)
(* the frames it sends: what happens inside it is in TurnEngine and        *)
(* ConversationMemory.  A socket is a pair of FIFO channels that may break *)
(* anywhere, and the panel may be cleared, logged out or reloaded while a  *)
(* reply streams.                                                          *)
(*                                                                         *)
(* The browser is external: it delivers no frame once close() was called,  *)
(* and fires one close event per socket.                                   *)
(***************************************************************************)
EXTENDS Integers, Sequences, FiniteSets, SequencesExt

CONSTANTS
  Users,
  MaxMessages,       \* MAX_MESSAGES of chatStore.ts
  RateLimit,         \* RATE_LIMIT_MESSAGES
  MaxSends,          \* bound: messages the students send
  MaxPieces,         \* bound: frames of one reply before its chat_response
  MaxDisturbances,   \* bound: drops, logouts, clears and reloads
  None

ASSUME ChatAssumption ==
  /\ MaxMessages \in Nat \ {0} /\ RateLimit \in Nat \ {0}
  /\ MaxSends \in Nat /\ MaxPieces \in Nat /\ MaxDisturbances \in Nat
  /\ None \notin Users

VARIABLES
  user,       \* authStore: who is logged in
  panel,      \* useChat's closure and chatStore
  storage,    \* sessionStorage: per user, the session id and the transcript
  sockets,    \* both ends of every socket that was opened
  sids,       \* counter: session ids given so far
  sends, disturbances

vars == << user, panel, storage, sockets, sids, sends, disturbances >>

Text == { "text", "controls", "large" }
NoReconnect == { 4001, 4002, 1008, 1009 }

EmptyPanel ==
  [ws |-> 0, timer |-> FALSE, sid |-> 0, persist |-> None, messages |-> << >>,
   typing |-> FALSE, streaming |-> FALSE, tool |-> FALSE, error |-> FALSE,
   connected |-> FALSE, reconnecting |-> FALSE]

Init ==
  /\ user = None
  /\ panel = EmptyPanel
  /\ storage = [u \in Users |-> [sid |-> 0, messages |-> << >>]]
  /\ sockets = << >>
  /\ sids = 0 /\ sends = 0 /\ disturbances = 0

-----------------------------------------------------------------------------
(* chatStore *)

Question(n) == [role |-> "user", reply |-> << n >>, actions |-> FALSE]
System == [role |-> "system", reply |-> << >>, actions |-> FALSE]
Answer(pieces, actions) == [role |-> "assistant", reply |-> pieces, actions |-> actions]

(* Every change of the messages is followed by persistMessages. *)
Add(p, message) ==
  LET all == Append(p.messages, message) IN
  [p EXCEPT !.messages =
     IF Len(all) > MaxMessages THEN SubSeq(all, Len(all) - MaxMessages + 1, Len(all)) ELSE all]

LastIsAnswer(p) == p.messages # << >> /\ Last(p.messages).role = "assistant"

AppendToken(p, piece) ==
  IF LastIsAnswer(p)
    THEN [p EXCEPT !.messages[Len(p.messages)].reply = Append(@, piece)]
    ELSE [p EXCEPT !.messages = Append(@, Answer(<< piece >>, FALSE))]

ApplyFinalAssistant(p, piece, actions) ==
  IF LastIsAnswer(p) /\ Last(p.messages).reply # << >>
    THEN [p EXCEPT !.messages[Len(p.messages)].actions = actions]
    ELSE Add(p, Answer(<< piece >>, actions))

Persist(p) ==
  storage' = IF p.persist = None THEN storage
             ELSE [storage EXCEPT ![p.persist].messages = p.messages]

(* initSession: the session id the panel has, or the stored one with its      *)
(* transcript, or a fresh one.                                                *)
InitSession(p, u) ==
  LET q == [p EXCEPT !.persist = u] IN
  CASE p.sid # 0 -> q
    [] p.sid = 0 /\ storage[u].sid # 0 ->
         [q EXCEPT !.sid = storage[u].sid,
                   !.messages = IF storage[u].messages = << >> THEN @ ELSE storage[u].messages]
    [] OTHER -> [q EXCEPT !.sid = sids + 1]

(* Mutant: a logout leaves the key the transcript is stored under. *)
ResetKeepsKey(p) ==
  [p EXCEPT !.messages = << >>, !.sid = 0, !.typing = FALSE, !.streaming = FALSE,
            !.tool = FALSE, !.error = FALSE, !.reconnecting = FALSE]

Reset(p) ==
  [p EXCEPT !.messages = << >>, !.sid = 0, !.typing = FALSE, !.streaming = FALSE,
            !.tool = FALSE, !.error = FALSE, !.reconnecting = FALSE, !.persist = None]

-----------------------------------------------------------------------------
(* Sockets: `state' is the browser's, `handler' the server's *)

Socket(u, sid) ==
  [state |-> "connecting", of |-> u, sid |-> sid, up |-> << >>, down |-> << >>,
   handler |-> "none", turn |-> 0, pieces |-> 0, count |-> 0]

Frame(t) == [t |-> t, piece |-> None, code |-> 0]
CloseFrame(code) == [t |-> "close", piece |-> None, code |-> code]

(* Mutant: a panel that had a socket never opens another. *)
NeverConnected(p) == p.ws = 0

(* connect() returns early while its socket is connecting or open. *)
MayConnect(p) == p.ws = 0 \/ sockets[p.ws].state \notin { "connecting", "open" }

(* The last lines of connect(), on a panel whose session is initialized. *)
Opened(p) == [p EXCEPT !.ws = Len(sockets) + 1]

Connect(p, u) ==
  IF MayConnect(p)
    THEN LET q == InitSession(p, u) IN
         /\ panel' = Opened(q)
         /\ sockets' = Append(sockets, Socket(u, q.sid))
         /\ sids' = IF q.sid > sids THEN q.sid ELSE sids
         /\ storage' = [storage EXCEPT ![u].sid = q.sid]
    ELSE /\ panel' = p
         /\ UNCHANGED << sockets, sids, storage >>

(* Mutant: the socket is forgotten and not closed. *)
Forgotten(s) == s

(* close(): no frame of this socket reaches the panel any more, so its        *)
(* handler is left out from here on (ConversationMemory follows its turn).    *)
Closing(s) ==
  IF s.state \in { "connecting", "open" }
    THEN [s EXCEPT !.state = "closing", !.handler = "ended", !.up = << >>, !.down = << >>]
    ELSE s

Disconnected(p) == [p EXCEPT !.timer = FALSE, !.ws = 0]
WithClosed(n) == IF n = 0 THEN sockets ELSE [sockets EXCEPT ![n] = Closing(@)]

Disturb == disturbances < MaxDisturbances /\ disturbances' = disturbances + 1

-----------------------------------------------------------------------------
(* What the student does *)

LogIn(u) ==
  /\ user = None
  /\ user' = u
  /\ Connect(panel, u)
  /\ UNCHANGED << sends, disturbances >>

(* authStore.logout resets the store; the panel's watcher disconnects.  *)
LogOut ==
  /\ user # None /\ Disturb
  /\ user' = None
  /\ panel' = Disconnected(Reset(panel))
  /\ sockets' = WithClosed(panel.ws)
  /\ UNCHANGED << storage, sids, sends >>

(* clearConversation: disconnect, newSession, connect. *)
ClearConversation ==
  /\ user # None /\ Disturb
  /\ sids' = sids + 1
  /\ storage' = [storage EXCEPT ![user] = [sid |-> sids', messages |-> << >>]]
  /\ LET p == [Disconnected(panel) EXCEPT !.sid = sids', !.messages = << >>, !.persist = user] IN
     panel' = Opened(p)
  /\ sockets' = Append(WithClosed(panel.ws), Socket(user, sids'))
  /\ UNCHANGED << user, sends >>

(* The page is reloaded: the sockets end, sessionStorage stays, and the      *)
(* panel is mounted anew.                                                    *)
Reload ==
  /\ user # None /\ Disturb
  /\ panel' = Opened(InitSession(EmptyPanel, user))
  /\ sockets' = Append([s \in DOMAIN sockets |->
                           [Closing(sockets[s]) EXCEPT !.state = "closed", !.down = << >>]],
                       Socket(user, panel'.sid))
  /\ UNCHANGED << user, storage, sids, sends >>

(* The input is enabled, or an action of an earlier answer is clicked, which *)
(* is never disabled.                                                        *)
MaySend == ~panel.typing /\ ~panel.streaming /\ ~panel.error
MayClick == \E i \in DOMAIN panel.messages : panel.messages[i].actions

Send(text) ==
  /\ panel.ws # 0 /\ sockets[panel.ws].state = "open"
  /\ (MaySend \/ (text = "text" /\ MayClick)) /\ sends < MaxSends
  /\ sends' = sends + 1
  /\ panel' = Add(panel, Question(sends'))
  /\ Persist(panel')
  /\ sockets' = [sockets EXCEPT ![panel.ws].up = Append(@, Frame(text))]
  /\ UNCHANGED << user, sids, disturbances >>

-----------------------------------------------------------------------------
(* What the panel is told *)

OnMessage(p, f) ==
  CASE f.t = "open" -> [p EXCEPT !.connected = TRUE, !.reconnecting = FALSE, !.error = FALSE]
    [] f.t = "token" -> AppendToken([p EXCEPT !.streaming = TRUE, !.tool = FALSE], f.piece)
    [] f.t = "typing" -> [p EXCEPT !.typing = TRUE]
    [] f.t = "progress" -> [p EXCEPT !.tool = TRUE]
    [] f.t = "response" ->
         ApplyFinalAssistant([p EXCEPT !.typing = FALSE, !.streaming = FALSE, !.tool = FALSE],
                             f.piece, f.code = 200)
    [] f.t = "error" -> Add([p EXCEPT !.typing = FALSE], System)

Deliver(s) ==
  /\ sockets[s].state \in { "connecting", "open" }
  /\ sockets[s].down # << >> /\ Head(sockets[s].down).t # "close"
  /\ panel' = OnMessage(panel, Head(sockets[s].down))
  /\ Persist(panel')
  /\ sockets' = [sockets EXCEPT ![s].down = Tail(@), ![s].state = "open"]
  /\ UNCHANGED << user, sids, sends, disturbances >>

(* Mutant: the typing flag is left to chat_response. *)
ClosedKeepsTyping(p) == [p EXCEPT !.connected = FALSE]

Closed(p) == [p EXCEPT !.connected = FALSE, !.typing = FALSE]

OnClose(p, s, code) ==
  CASE p.ws # s -> Closed(p)
    [] p.ws = s /\ code \in NoReconnect -> Add([Closed(p) EXCEPT !.error = TRUE], System)
    [] OTHER -> [Closed(p) EXCEPT !.reconnecting = TRUE, !.timer = TRUE]

CloseEvent(s) ==
  /\ \/ sockets[s].state = "closing"
     \/ /\ sockets[s].state \in { "connecting", "open" }
        /\ sockets[s].down # << >> /\ Head(sockets[s].down).t = "close"
  /\ LET code == IF sockets[s].state = "closing" THEN 1005 ELSE Head(sockets[s].down).code IN
     panel' = OnClose(panel, s, code)
  /\ Persist(panel')
  /\ sockets' = [sockets EXCEPT ![s].state = "closed", ![s].down = << >>]
  /\ UNCHANGED << user, sids, sends, disturbances >>

Reconnect ==
  /\ panel.timer
  /\ Connect([panel EXCEPT !.timer = FALSE], user)
  /\ UNCHANGED << user, sends, disturbances >>

-----------------------------------------------------------------------------
(* The handler *)

Sends(s, frames) == [s EXCEPT !.down = @ \o frames]
Ended(s, frames) == [Sends(s, frames) EXCEPT !.handler = "ended", !.up = << >>]

Serve(s, after) ==
  /\ sockets' = [sockets EXCEPT ![s] = after]
  /\ UNCHANGED << user, panel, storage, sids, sends, disturbances >>

(* accept(), then the token: it may have expired since the log-in. *)
Accept(s, valid) ==
  /\ sockets[s].handler = "none"
  /\ Serve(s, IF valid THEN [Sends(sockets[s], << Frame("open") >>) EXCEPT !.handler = "waiting"]
              ELSE Ended(sockets[s], << Frame("open"), CloseFrame(4001) >>))

(* Size, rate, emptiness, in this order.  The window of the rate limit may   *)
(* have passed since it began.                                               *)
Receive(s, window_passed) ==
  /\ sockets[s].handler = "waiting" /\ sockets[s].up # << >>
  /\ LET text == Head(sockets[s].up).t
         count == IF window_passed THEN 1 ELSE sockets[s].count + 1
         next == [sockets[s] EXCEPT !.up = Tail(@), !.count = count]
     IN Serve(s,
          CASE text = "large" -> Ended(next, << Frame("error"), CloseFrame(1009) >>)
            [] text \in { "text", "controls" } /\ count > RateLimit ->
                 Ended(next, << Frame("error"), CloseFrame(1008) >>)
            [] text = "controls" /\ count <= RateLimit -> next
            [] text = "text" /\ count <= RateLimit ->
                 [Sends(next, << Frame("typing") >>) EXCEPT !.handler = "turn",
                                                            !.turn = @ + 1, !.pieces = 0])

Piece(s, n) ==
  [sid |-> sockets[s].sid, of |-> sockets[s].of, socket |-> s, turn |-> sockets[s].turn, n |-> n]

(* _run_stream: labels of tool calls, and text. *)
Stream(s, t) ==
  /\ sockets[s].handler = "turn" /\ sockets[s].pieces < MaxPieces
  /\ LET n == sockets[s].pieces + 1 IN
     Serve(s, [Sends(sockets[s], << [t |-> t, piece |-> Piece(s, n), code |-> 0] >>)
                 EXCEPT !.pieces = n])

(* The turn ends with its reply, or with an apology for a failure or a       *)
(* timeout; the reply may carry actions.                                     *)
Finish(s, code) ==
  /\ sockets[s].handler = "turn"
  /\ Serve(s, [Sends(sockets[s], << [t |-> "response", piece |-> Piece(s, MaxPieces + 1), code |-> code] >>)
                 EXCEPT !.handler = "waiting"])

-----------------------------------------------------------------------------
(* The network, or an instance of the service, goes away: what was on its    *)
(* way down arrives up to some frame, what was on its way up is lost.        *)
Drop(s) ==
  /\ sockets[s].state \in { "connecting", "open" } /\ sockets[s].handler # "ended"
  /\ Disturb
  /\ \E k \in 0..Len(sockets[s].down) :
       sockets' = [sockets EXCEPT ![s].down = Append(SubSeq(@, 1, k), CloseFrame(1006)),
                                  ![s].up = << >>, ![s].handler = "ended"]
  /\ UNCHANGED << user, panel, storage, sids, sends >>

HandlerStep(s) ==
  \/ \E valid \in BOOLEAN : Accept(s, valid)
  \/ \E window_passed \in BOOLEAN : Receive(s, window_passed)
  \/ \E t \in { "token", "progress" } : Stream(s, t)
  \/ \E code \in { 200, 500 } : Finish(s, code)

Next ==
  \/ \E u \in Users : LogIn(u)
  \/ LogOut \/ ClearConversation \/ Reload
  \/ \E text \in Text : Send(text)
  \/ Reconnect
  \/ \E s \in DOMAIN sockets : Deliver(s) \/ CloseEvent(s) \/ HandlerStep(s) \/ Drop(s)

(* Sockets that can be opened: one a log-in, a clear, a reload or a reconnection. *)
SocketIds == 1..(2 * MaxDisturbances + 1)

(* Events are delivered, timers fire, and the handler's calls end (the turn   *)
(* itself within GRAPH_TIMEOUT_SECONDS).  Nothing is asked of students.       *)
Fairness ==
  /\ WF_vars(Reconnect)
  /\ \A s \in SocketIds :
       WF_vars(s \in DOMAIN sockets /\ (Deliver(s) \/ CloseEvent(s) \/ HandlerStep(s)))

Spec == Init /\ [][Next]_vars /\ Fairness

-----------------------------------------------------------------------------
(* Properties *)

TypeOK ==
  /\ user \in Users \cup {None}
  /\ Len(sockets) \in {0} \cup SocketIds
  /\ panel.ws \in 0..Len(sockets) /\ panel.sid \in 0..sids
  /\ panel.persist \in {user, None}
  /\ \A s \in DOMAIN sockets :
       /\ sockets[s].state \in { "connecting", "open", "closing", "closed" }
       /\ sockets[s].handler \in { "none", "waiting", "turn", "ended" }
       /\ sockets[s].count \in 0..(RateLimit + 1) /\ sockets[s].pieces \in 0..MaxPieces

(* What a message of the panel shows of what the handler said. *)
Pieces(message) == IF message.role = "assistant" THEN message.reply ELSE << >>

Before(p, q) ==
  \/ p.socket < q.socket
  \/ p.socket = q.socket /\ p.turn < q.turn
  \/ p.socket = q.socket /\ p.turn = q.turn /\ p.n < q.n

(* What the panel shows was all said to the student who is logged in, in the        *)
(* session the panel is in, each piece once and in the order it was sent, whatever *)
(* was cleared, logged out, reloaded, dropped or delivered late in between.        *)
TranscriptFaithful ==
  LET shown(i) == Pieces(panel.messages[i]) IN
  /\ \A i \in DOMAIN panel.messages : \A m \in DOMAIN shown(i) :
       shown(i)[m].of = user /\ shown(i)[m].sid = panel.sid
  /\ \A i, j \in DOMAIN panel.messages : \A m \in DOMAIN shown(i), n \in DOMAIN shown(j) :
       i < j \/ (i = j /\ m < n) => Before(shown(i)[m], shown(j)[n])
  /\ user = None => panel.messages = << >>

(* The typing indicator is never left on: the answer or the end of the socket it   *)
(* belongs to turns it off.                                                        *)
TypingEnds == panel.typing ~> ~panel.typing

(* A student who stays logged in gets a connection again, or is told why not.      *)
Reconnects ==
  user # None ~> (user = None \/ panel.error \/ (panel.ws # 0 /\ sockets[panel.ws].state = "open"))

(* "Input disabled + shows 'AI is thinking...' while typing indicator is active"    *)
(* (jira-epics-and-stories.md:621): it is not disabled by a reply that is over.    *)
InputFollowsTurn ==
  panel.ws # 0 /\ sockets[panel.ws].state = "open" /\ panel.streaming =>
    \/ sockets[panel.ws].handler # "waiting"
    \/ sockets[panel.ws].down # << >>
    \/ sockets[panel.ws].up # << >>
=============================================================================
