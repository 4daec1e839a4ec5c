-------------------------- MODULE ChatSystemProofs --------------------------
(***************************************************************************)
(* Whatever is dropped, reconnected, cleared, logged out or reloaded while *)
(* replies stream, for any users, limits and bounds: the panel shows the   *)
(* student who is logged in what was said to them in this session, in the  *)
(* order it was said.                                                      *)
(***************************************************************************)
EXTENDS ChatSystem, SequenceTheorems, TLAPS

PieceSet == [sid : Nat, of : Users, socket : Nat, turn : Nat, n : Nat]

Message ==
  [role : { "user", "system" }, reply : Seq(Nat), actions : BOOLEAN] \cup
    [role : { "assistant" }, reply : Seq(PieceSet), actions : BOOLEAN]

SpokenFrame == [t : { "token", "progress", "response" }, piece : PieceSet, code : { 0, 200, 500 }]

DownFrame ==
  ([t : { "open", "typing", "error" }, piece : {None}, code : {0}] \cup
    [t : { "close" }, piece : {None}, code : { 1006, 1008, 1009, 4001 }]) \cup SpokenFrame

UpFrame == [t : Text, piece : {None}, code : {0}]

SocketSet ==
  [state : { "connecting", "open", "closing", "closed" }, of : Users, sid : Nat,
   up : Seq(UpFrame), down : Seq(DownFrame),
   handler : { "none", "waiting", "turn", "ended" }, turn : Nat, pieces : 0..MaxPieces,
   count : 0..(RateLimit + 1)]

-----------------------------------------------------------------------------
(* What a transcript holds *)

(* The pieces that a transcript shows. *)
Heard(messages) ==
  UNION { { Pieces(messages[i])[m] : m \in DOMAIN Pieces(messages[i]) } : i \in DOMAIN messages }

InOrder(messages) ==
  \A i, j \in DOMAIN messages :
    \A m \in DOMAIN Pieces(messages[i]), n \in DOMAIN Pieces(messages[j]) :
      i < j \/ (i = j /\ m < n) => Before(Pieces(messages[i])[m], Pieces(messages[j])[n])

LEMMA PiecesAre ==
  ASSUME NEW x \in Message
  PROVE  /\ Pieces(x) \in Seq(PieceSet)
         /\ x.role # "assistant" => Pieces(x) = << >>
         /\ x.role = "assistant" => Pieces(x) = x.reply
BY DEF Pieces, Message

LEMMA HeardIs ==
  ASSUME NEW messages
  PROVE  /\ \A q \in Heard(messages) : \E i \in DOMAIN messages : \E m \in DOMAIN Pieces(messages[i]) :
              q = Pieces(messages[i])[m]
         /\ \A i \in DOMAIN messages : \A m \in DOMAIN Pieces(messages[i]) :
              Pieces(messages[i])[m] \in Heard(messages)
BY DEF Heard

LEMMA HeardArePieces ==
  ASSUME NEW messages \in Seq(Message)
  PROVE  Heard(messages) \subseteq PieceSet
BY PiecesAre, HeardIs

(* A message is added that shows nothing, or one piece after all others.      *)
LEMMA Appended ==
  ASSUME NEW messages \in Seq(Message), NEW x \in Message, Len(Pieces(x)) <= 1, InOrder(messages),
         \A q \in Heard(messages) : \A m \in DOMAIN Pieces(x) : Before(q, Pieces(x)[m])
  PROVE  /\ Append(messages, x) \in Seq(Message) /\ InOrder(Append(messages, x))
         /\ \A q \in Heard(Append(messages, x)) :
              q \in Heard(messages) \/ \E m \in DOMAIN Pieces(x) : q = Pieces(x)[m]
<1> DEFINE all == Append(messages, x)
           n == Len(messages)
<1>1. /\ all \in Seq(Message) /\ Len(all) = n + 1 /\ n \in Nat
      /\ \A i \in 1..n : all[i] = messages[i]
      /\ all[n + 1] = x /\ DOMAIN messages = 1..n /\ DOMAIN all = 1..(n + 1)
  BY AppendProperties
<1> HIDE DEF all
<1> HIDE DEF n
<1>2. \A i \in DOMAIN all : i \in 1..n \/ i = n + 1
  BY <1>1
<1>3. \A q \in Heard(all) : q \in Heard(messages) \/ \E m \in DOMAIN Pieces(x) : q = Pieces(x)[m]
  BY <1>1, <1>2, HeardIs
<1>4. ASSUME NEW i \in DOMAIN all, NEW j \in DOMAIN all,
             NEW k \in DOMAIN Pieces(all[i]), NEW l \in DOMAIN Pieces(all[j]),
             i < j \/ (i = j /\ k < l)
      PROVE  Before(Pieces(all[i])[k], Pieces(all[j])[l])
  <2>1. CASE i \in 1..n /\ j \in 1..n
    BY <1>1, <1>4, <2>1 DEF InOrder
  <2>2. CASE i \in 1..n /\ j = n + 1
    BY <1>1, <2>2, HeardIs
  <2>3. CASE i = n + 1 /\ j = n + 1
    <3>1. k \in 1..Len(Pieces(x)) /\ l \in 1..Len(Pieces(x)) /\ Len(Pieces(x)) \in Nat
      BY <1>1, <2>3, PiecesAre
    <3> QED
      BY <1>1, <1>4, <2>3, <3>1
  <2>4. CASE i = n + 1 /\ j \in 1..n
    BY <1>1, <1>4, <2>4
  <2> QED
    BY <1>2, <2>1, <2>2, <2>3, <2>4
<1> QED
  BY <1>1, <1>3, <1>4 DEF InOrder, all

(* The oldest messages are left out.                                          *)
LEMMA Suffix ==
  ASSUME NEW messages \in Seq(Message), NEW k \in 1..Len(messages), InOrder(messages)
  PROVE  LET rest == SubSeq(messages, k, Len(messages)) IN
         rest \in Seq(Message) /\ InOrder(rest) /\ Heard(rest) \subseteq Heard(messages)
<1> DEFINE rest == SubSeq(messages, k, Len(messages))
           n == Len(messages)
<1>1. /\ n \in Nat /\ k \in Nat /\ k >= 1 /\ k <= n /\ DOMAIN messages = 1..n
      /\ \A i \in k..n : messages[i] \in Message
  OBVIOUS
<1>2. /\ rest \in Seq(Message) /\ Len(rest) = n - k + 1
      /\ \A i \in 1..(n - k + 1) : rest[i] = messages[k + i - 1]
  BY <1>1, SubSeqProperties
<1> HIDE DEF rest, n
<1>3. DOMAIN rest = 1..(n - k + 1) /\ \A i \in 1..(n - k + 1) : k + i - 1 \in 1..n
  BY <1>1, <1>2
<1>4. \A i \in DOMAIN rest : k + i - 1 \in DOMAIN messages /\ rest[i] = messages[k + i - 1]
  BY <1>1, <1>2, <1>3
<1>5. Heard(rest) \subseteq Heard(messages)
  BY <1>4, HeardIs
<1>6. \A i, j \in DOMAIN rest : (i < j => k + i - 1 < k + j - 1) /\ (i = j => k + i - 1 = k + j - 1)
  BY <1>1, <1>3
<1>7. InOrder(rest)
  BY <1>4, <1>6 DEF InOrder
<1> QED
  BY <1>2, <1>5, <1>7 DEF rest, n

(* The last answer gets one more piece, after all others.                     *)
LEMMA Extended ==
  ASSUME NEW messages \in Seq(Message), messages # << >>, messages[Len(messages)].role = "assistant",
         NEW p \in PieceSet, InOrder(messages), \A q \in Heard(messages) : Before(q, p)
  PROVE  LET after == [messages EXCEPT ![Len(messages)].reply = Append(@, p)] IN
         /\ after \in Seq(Message) /\ InOrder(after) /\ Heard(after) \subseteq Heard(messages) \cup {p}
<1> DEFINE n == Len(messages)
           old == messages[n]
           reply == Append(old.reply, p)
           x == [old EXCEPT !.reply = reply]
           after == [messages EXCEPT ![n] = x]
<1>1. n \in Nat /\ n >= 1 /\ DOMAIN messages = 1..n /\ old \in Message /\ n \in 1..n
  BY EmptySeq
<1>2. old \in [role : { "assistant" }, reply : Seq(PieceSet), actions : BOOLEAN]
  BY <1>1 DEF Message
<1>3. /\ reply \in Seq(PieceSet) /\ Len(reply) = Len(old.reply) + 1
      /\ \A i \in 1..Len(old.reply) : reply[i] = old.reply[i]
      /\ reply[Len(old.reply) + 1] = p
  BY <1>2, AppendProperties
<1>4. x \in Message /\ Pieces(x) = reply /\ Pieces(old) = old.reply
  <2> HIDE DEF reply
  <2>1. x \in [role : { "assistant" }, reply : Seq(PieceSet), actions : BOOLEAN] /\ x.reply = reply
    BY <1>2, <1>3
  <2> QED
    BY <1>2, <2>1 DEF Pieces, Message
<1>5. /\ after \in Seq(Message) /\ Len(after) = n /\ DOMAIN after = 1..n
      /\ after[n] = x /\ \A i \in 1..n : i # n => after[i] = messages[i]
  BY <1>1, <1>4, ExceptSeq
<1>6. [messages EXCEPT ![Len(messages)].reply = Append(@, p)] = after
  OBVIOUS
<1> HIDE DEF after, x, reply, old
<1>7. /\ DOMAIN Pieces(old) = 1..Len(old.reply) /\ DOMAIN Pieces(x) = 1..(Len(old.reply) + 1)
      /\ \A m \in DOMAIN Pieces(x) : m \in DOMAIN Pieces(old) \/ m = Len(old.reply) + 1
      /\ \A m \in DOMAIN Pieces(old) : Pieces(x)[m] = Pieces(old)[m] /\ m < Len(old.reply) + 1
      /\ Pieces(x)[Len(old.reply) + 1] = p
  BY <1>2, <1>3, <1>4
<1>8. \A i \in DOMAIN after : \A m \in DOMAIN Pieces(after[i]) :
        \/ m \in DOMAIN Pieces(messages[i]) /\ Pieces(after[i])[m] = Pieces(messages[i])[m]
        \/ i = n /\ m = Len(old.reply) + 1 /\ Pieces(after[i])[m] = p
  BY <1>5, <1>7 DEF old
<1>9. ASSUME NEW q \in Heard(after) PROVE q \in Heard(messages) \cup {p}
  <2>1. PICK i \in DOMAIN after : \E m \in DOMAIN Pieces(after[i]) : q = Pieces(after[i])[m]
    BY HeardIs
  <2>2. PICK m \in DOMAIN Pieces(after[i]) : q = Pieces(after[i])[m]
    BY <2>1
  <2>3. i \in DOMAIN messages
    BY <1>1, <1>5
  <2> QED
    BY <1>8, <2>2, <2>3, HeardIs
<1>10. InOrder(after)
  <2> SUFFICES ASSUME NEW i \in DOMAIN after, NEW j \in DOMAIN after,
                      NEW k \in DOMAIN Pieces(after[i]), NEW l \in DOMAIN Pieces(after[j]),
                      i < j \/ (i = j /\ k < l)
               PROVE  Before(Pieces(after[i])[k], Pieces(after[j])[l])
    BY DEF InOrder
  <2>1. i \in 1..n /\ j \in 1..n
    BY <1>5
  <2>2. CASE j = n /\ l = Len(old.reply) + 1 /\ Pieces(after[j])[l] = p
    <3>1. k \in DOMAIN Pieces(messages[i]) /\ Pieces(after[i])[k] = Pieces(messages[i])[k]
      <4>1. ~(i = n /\ k = Len(old.reply) + 1)
        BY <1>1, <1>2, <2>1, <2>2
      <4> QED
        BY <1>8, <4>1
    <3> QED
      BY <1>1, <2>1, <2>2, <3>1, HeardIs
  <2>3. CASE l \in DOMAIN Pieces(messages[j]) /\ Pieces(after[j])[l] = Pieces(messages[j])[l]
    <3>1. l \in DOMAIN Pieces(old) \/ j # n
      BY <2>3 DEF old
    <3>2. ~(i = n /\ k = Len(old.reply) + 1)
      BY <1>1, <1>2, <1>7, <2>1, <3>1
    <3>3. k \in DOMAIN Pieces(messages[i]) /\ Pieces(after[i])[k] = Pieces(messages[i])[k]
      BY <1>8, <3>2
    <3> QED
      BY <1>1, <2>1, <2>3, <3>3 DEF InOrder
  <2> QED
    BY <1>8, <2>2, <2>3
<1> QED
  BY <1>5, <1>6, <1>9, <1>10

(* The last answer gets its actions.                                          *)
LEMMA WithActions ==
  ASSUME NEW messages \in Seq(Message), messages # << >>, NEW actions \in BOOLEAN, InOrder(messages)
  PROVE  LET after == [messages EXCEPT ![Len(messages)].actions = actions] IN
         after \in Seq(Message) /\ InOrder(after) /\ Heard(after) \subseteq Heard(messages)
<1> DEFINE n == Len(messages)
           old == messages[n]
           x == [old EXCEPT !.actions = actions]
           after == [messages EXCEPT ![n] = x]
<1>1. n \in Nat /\ n >= 1 /\ DOMAIN messages = 1..n /\ old \in Message /\ n \in 1..n
  BY EmptySeq
<1>2. x \in Message /\ Pieces(x) = Pieces(old)
  BY <1>1 DEF Message, Pieces
<1>3. /\ after \in Seq(Message) /\ Len(after) = n /\ DOMAIN after = 1..n
      /\ after[n] = x /\ \A i \in 1..n : i # n => after[i] = messages[i]
  BY <1>1, <1>2, ExceptSeq
<1>4. [messages EXCEPT ![Len(messages)].actions = actions] = after
  OBVIOUS
<1> HIDE DEF after, x
<1>5. \A i \in DOMAIN after : i \in DOMAIN messages /\ Pieces(after[i]) = Pieces(messages[i])
  BY <1>1, <1>2, <1>3
<1>6. Heard(after) \subseteq Heard(messages) /\ InOrder(after)
  BY <1>5, HeardIs DEF InOrder
<1> QED
  BY <1>3, <1>4, <1>6

-----------------------------------------------------------------------------
(* What the store makes of a frame *)

PanelFields ==
  { "ws", "timer", "sid", "persist", "messages", "typing", "streaming", "tool", "error",
    "connected", "reconnecting" }

PanelOK(p) == DOMAIN p = PanelFields /\ p.messages \in Seq(Message) /\ InOrder(p.messages)

(* The panel shows no piece more than these.                                  *)
Shows(r, p, more) ==
  /\ PanelOK(r) /\ r.ws = p.ws /\ r.timer = p.timer /\ r.sid = p.sid /\ r.persist = p.persist
  /\ Heard(r.messages) \subseteq Heard(p.messages) \cup more

LEMMA ShowsOn ==
  ASSUME NEW r, NEW q, NEW p, NEW more, Shows(r, q, more), Shows(q, p, {})
  PROVE  Shows(r, p, more)
BY DEF Shows

LEMMA AddShows ==
  ASSUME NEW p, PanelOK(p), NEW x \in Message, Len(Pieces(x)) <= 1,
         NEW more, \A m \in DOMAIN Pieces(x) : Pieces(x)[m] \in more,
         \A q \in Heard(p.messages) : \A m \in DOMAIN Pieces(x) : Before(q, Pieces(x)[m])
  PROVE  Shows(Add(p, x), p, more)
<1> DEFINE all == Append(p.messages, x)
           cut == IF Len(all) > MaxMessages THEN SubSeq(all, Len(all) - MaxMessages + 1, Len(all)) ELSE all
<1>1. /\ all \in Seq(Message) /\ InOrder(all)
      /\ \A q \in Heard(all) : q \in Heard(p.messages) \/ \E m \in DOMAIN Pieces(x) : q = Pieces(x)[m]
  BY Appended DEF PanelOK
<1>2. Heard(all) \subseteq Heard(p.messages) \cup more
  BY <1>1
<1>3. cut \in Seq(Message) /\ InOrder(cut) /\ Heard(cut) \subseteq Heard(all)
  <2> HIDE DEF all
  <2>1. CASE Len(all) > MaxMessages
    <3>1. Len(all) - MaxMessages + 1 \in 1..Len(all)
      <4>1. Len(all) \in Nat /\ MaxMessages \in Nat /\ MaxMessages >= 1
        BY <1>1, ChatAssumption
      <4> QED
        BY <2>1, <4>1
    <3> QED
      BY <1>1, <2>1, <3>1, Suffix
  <2>2. CASE ~(Len(all) > MaxMessages)
    BY <1>1, <2>2
  <2> QED
    BY <2>1, <2>2
<1>4. Add(p, x) = [p EXCEPT !.messages = cut]
  BY DEF Add
<1> HIDE DEF cut, all
<1>5. /\ DOMAIN Add(p, x) = PanelFields /\ Add(p, x).messages = cut
      /\ Add(p, x).ws = p.ws /\ Add(p, x).timer = p.timer /\ Add(p, x).sid = p.sid
      /\ Add(p, x).persist = p.persist
  BY <1>4 DEF PanelOK, PanelFields
<1> QED
  BY <1>2, <1>3, <1>5 DEF Shows, PanelOK

LEMMA SystemShows ==
  ASSUME NEW p, PanelOK(p)
  PROVE  Shows(Add(p, System), p, {})
<1>1. System \in Message /\ Pieces(System) = << >>
  BY EmptySeq DEF System, Message, Pieces
<1>2. Len(Pieces(System)) <= 1 /\ \A m \in DOMAIN Pieces(System) : FALSE
  BY <1>1
<1> QED
  BY <1>1, <1>2, AddShows

LEMMA QuestionShows ==
  ASSUME NEW p, PanelOK(p), NEW n \in Nat
  PROVE  Shows(Add(p, Question(n)), p, {})
<1>1. << n >> \in Seq(Nat)
  OBVIOUS
<1>2. Question(n) \in Message /\ Pieces(Question(n)) = << >>
  BY <1>1 DEF Question, Message, Pieces
<1>3. Len(Pieces(Question(n))) <= 1 /\ \A m \in DOMAIN Pieces(Question(n)) : FALSE
  BY <1>2
<1> QED
  BY <1>2, <1>3, AddShows

LEMMA AnswerIs ==
  ASSUME NEW piece \in PieceSet, NEW actions \in BOOLEAN, NEW x, x = Answer(<< piece >>, actions)
  PROVE  /\ x \in Message /\ Len(Pieces(x)) <= 1
         /\ \A m \in DOMAIN Pieces(x) : Pieces(x)[m] = piece
<1>1. PICK reply : reply = << piece >>
  OBVIOUS
<1>2. reply \in Seq(PieceSet) /\ Len(reply) = 1 /\ DOMAIN reply = 1..1 /\ reply[1] = piece
  BY <1>1
<1>3. x = Answer(reply, actions)
  BY <1>1
<1>4. x \in Message /\ Pieces(x) = reply
  BY <1>2, <1>3 DEF Answer, Message, Pieces
<1>5. \A m \in DOMAIN reply : reply[m] = piece
  BY <1>2
<1>6. Len(Pieces(x)) <= 1
  <2>1. Len(reply) <= 1
    BY <1>2
  <2> QED
    BY ONLY <1>4, <2>1
<1>7. \A m \in DOMAIN Pieces(x) : Pieces(x)[m] = piece
  BY ONLY <1>4, <1>5
<1> QED
  BY <1>4, <1>6, <1>7

LEMMA TokenShows ==
  ASSUME NEW p, PanelOK(p), NEW piece \in PieceSet, \A q \in Heard(p.messages) : Before(q, piece)
  PROVE  Shows(AppendToken(p, piece), p, {piece})
<1>1. PICK x : x = Answer(<< piece >>, FALSE)
  OBVIOUS
<1>2. CASE LastIsAnswer(p)
  <2> DEFINE after == [p.messages EXCEPT ![Len(p.messages)].reply = Append(@, piece)]
  <2>1. after \in Seq(Message) /\ InOrder(after) /\ Heard(after) \subseteq Heard(p.messages) \cup {piece}
    BY <1>2, Extended DEF LastIsAnswer, Last, PanelOK
  <2>2. AppendToken(p, piece) = [p EXCEPT !.messages = after]
    BY <1>2 DEF AppendToken, PanelOK, PanelFields
  <2> HIDE DEF after
  <2> QED
    BY <2>1, <2>2 DEF Shows, PanelOK, PanelFields
<1>3. CASE ~LastIsAnswer(p)
  <2>1. x \in Message /\ Len(Pieces(x)) <= 1 /\ \A m \in DOMAIN Pieces(x) : Pieces(x)[m] = piece
    BY <1>1, AnswerIs
  <2>2. AppendToken(p, piece) = [p EXCEPT !.messages = Append(p.messages, x)]
    BY <1>3, <1>1 DEF AppendToken
  <2>3. PICK after : after = Append(p.messages, x)
    OBVIOUS
  <2>4. after \in Seq(Message) /\ InOrder(after) /\ Heard(after) \subseteq Heard(p.messages) \cup {piece}
    BY <2>1, <2>3, Appended DEF PanelOK
  <2> QED
    BY <2>2, <2>3, <2>4 DEF Shows, PanelOK, PanelFields
<1> QED
  BY <1>2, <1>3

LEMMA FinalShows ==
  ASSUME NEW p, PanelOK(p), NEW piece \in PieceSet, NEW actions \in BOOLEAN,
         \A q \in Heard(p.messages) : Before(q, piece)
  PROVE  Shows(ApplyFinalAssistant(p, piece, actions), p, {piece})
<1>1. PICK x : x = Answer(<< piece >>, actions)
  OBVIOUS
<1>2. CASE LastIsAnswer(p) /\ Last(p.messages).reply # << >>
  <2> DEFINE after == [p.messages EXCEPT ![Len(p.messages)].actions = actions]
  <2>1. after \in Seq(Message) /\ InOrder(after) /\ Heard(after) \subseteq Heard(p.messages)
    BY <1>2, WithActions DEF LastIsAnswer, PanelOK
  <2>2. ApplyFinalAssistant(p, piece, actions) = [p EXCEPT !.messages = after]
    BY <1>2 DEF ApplyFinalAssistant, PanelOK, PanelFields
  <2> HIDE DEF after
  <2> QED
    BY <2>1, <2>2 DEF Shows, PanelOK, PanelFields
<1>3. CASE ~(LastIsAnswer(p) /\ Last(p.messages).reply # << >>)
  <2>1. x \in Message /\ Len(Pieces(x)) <= 1 /\ \A m \in DOMAIN Pieces(x) : Pieces(x)[m] = piece
    BY <1>1, AnswerIs
  <2>2. ApplyFinalAssistant(p, piece, actions) = Add(p, x)
    BY <1>3, <1>1 DEF ApplyFinalAssistant
  <2> QED
    BY <2>1, <2>2, AddShows
<1> QED
  BY <1>2, <1>3

(* Every frame but the close.                                                 *)
LEMMA MessageShows ==
  ASSUME NEW p, PanelOK(p), NEW f \in DownFrame, f.t # "close",
         f \in SpokenFrame => \A q \in Heard(p.messages) : Before(q, f.piece)
  PROVE  Shows(OnMessage(p, f), p, IF f \in SpokenFrame THEN {f.piece} ELSE {})
<1>1. CASE f.t = "open"
  BY <1>1 DEF OnMessage, Shows, PanelOK, PanelFields
<1>2. CASE f.t = "typing"
  BY <1>2 DEF OnMessage, Shows, PanelOK, PanelFields
<1>3. CASE f.t = "progress"
  BY <1>3 DEF OnMessage, Shows, PanelOK, PanelFields
<1>4. CASE f.t = "error"
  <2>1. Shows([p EXCEPT !.typing = FALSE], p, {})
    BY DEF Shows, PanelOK, PanelFields
  <2>2. OnMessage(p, f) = Add([p EXCEPT !.typing = FALSE], System)
    BY <1>4 DEF OnMessage
  <2>3. Shows(OnMessage(p, f), p, {})
    BY <2>1, <2>2, SystemShows, ShowsOn DEF Shows
  <2> QED
    BY <2>3 DEF Shows
<1>5. CASE f.t = "token"
  <2>1. PICK q : q = [p EXCEPT !.streaming = TRUE, !.tool = FALSE]
    OBVIOUS
  <2>2. Shows(q, p, {}) /\ q.messages = p.messages
    BY <2>1 DEF Shows, PanelOK, PanelFields
  <2>3. f \in SpokenFrame /\ f.piece \in PieceSet
    BY <1>5 DEF DownFrame, SpokenFrame
  <2>4. OnMessage(p, f) = AppendToken(q, f.piece)
    BY <1>5, <2>1 DEF OnMessage
  <2>5. Shows(AppendToken(q, f.piece), q, {f.piece})
    BY <2>2, <2>3, TokenShows DEF Shows
  <2> QED
    BY <2>2, <2>3, <2>4, <2>5, ShowsOn
<1>6. CASE f.t = "response"
  <2>1. PICK q : q = [p EXCEPT !.typing = FALSE, !.streaming = FALSE, !.tool = FALSE]
    OBVIOUS
  <2>2. Shows(q, p, {}) /\ q.messages = p.messages
    BY <2>1 DEF Shows, PanelOK, PanelFields
  <2>3. f \in SpokenFrame /\ f.piece \in PieceSet
    BY <1>6 DEF DownFrame, SpokenFrame
  <2> DEFINE actions == f.code = 200
  <2>4. OnMessage(p, f) = ApplyFinalAssistant(q, f.piece, actions)
    BY <1>6, <2>1 DEF OnMessage
  <2>5. actions \in BOOLEAN
    OBVIOUS
  <2> HIDE DEF actions
  <2>6. Shows(ApplyFinalAssistant(q, f.piece, actions), q, {f.piece})
    BY <2>2, <2>3, <2>5, FinalShows DEF Shows
  <2> QED
    BY <2>2, <2>3, <2>4, <2>6, ShowsOn
<1> QED
  BY <1>1, <1>2, <1>3, <1>4, <1>5, <1>6 DEF DownFrame, SpokenFrame

-----------------------------------------------------------------------------
(* What a socket still has to tell *)

(* The handler is past this piece.                                            *)
Behind(q, k, s) ==
  \/ q.socket < s
  \/ q.socket = s /\ q.turn < k.turn
  \/ q.socket = s /\ q.turn = k.turn /\ (k.handler = "turn" => q.n <= k.pieces)

Says(k, i) == i \in DOMAIN k.down /\ k.down[i] \in SpokenFrame

(* What is on its way to the panel continues what the panel shows.            *)
Continues(k, s, messages) ==
  /\ \A q \in Heard(messages) : Behind(q, k, s)
  /\ \A i \in DOMAIN k.down : Says(k, i) =>
       /\ k.down[i].piece.of = k.of /\ k.down[i].piece.sid = k.sid /\ k.down[i].piece.socket = s
       /\ Behind(k.down[i].piece, k, s)
       /\ \A q \in Heard(messages) : Before(q, k.down[i].piece)
       /\ \A j \in DOMAIN k.down : j < i /\ Says(k, j) => Before(k.down[j].piece, k.down[i].piece)

SocketOK(k) ==
  /\ k \in SocketSet
  /\ k.state \in { "closing", "closed" } => k.handler = "ended" /\ k.down = << >>
  /\ k.handler # "ended" => k.count <= RateLimit /\ \A i \in DOMAIN k.down : k.down[i].t # "close"

(* The network took it down, and the panel has not been told.                 *)
Dropped(k) ==
  /\ k.state \in { "connecting", "open" }
  /\ \E i \in DOMAIN k.down : k.down[i].t = "close" /\ k.down[i].code = 1006

(* The handler sends frames, of which at most the first is a piece: one that  *)
(* comes after all it said before.                                            *)
Utters(k, k2, s, frames) ==
  /\ k2.of = k.of /\ k2.sid = k.sid /\ k2.down = k.down \o frames
  /\ \A q \in PieceSet : Behind(q, k, s) => Behind(q, k2, s)
  /\ \A i \in DOMAIN frames : frames[i] \in SpokenFrame =>
       /\ i = 1 /\ frames[i].piece.of = k.of /\ frames[i].piece.sid = k.sid
       /\ frames[i].piece.socket = s /\ Behind(frames[i].piece, k2, s)
       /\ \A q \in PieceSet : Behind(q, k, s) => Before(q, frames[i].piece)

(* A student's entry of sessionStorage.                                       *)
Stored(entry, u, top, last) ==
  /\ DOMAIN entry = { "sid", "messages" } /\ entry.sid \in 0..top
  /\ entry.messages \in Seq(Message) /\ InOrder(entry.messages)
  /\ entry.sid = 0 => entry.messages = << >>
  /\ \A q \in Heard(entry.messages) : q.of = u /\ q.sid = entry.sid /\ q.socket <= last

ShapeInv ==
  /\ user \in Users \cup {None} /\ sids \in Nat /\ sends \in Nat
  /\ PanelOK(panel) /\ panel.ws \in { 0, Len(sockets) } /\ panel.sid \in 0..sids
  /\ sockets \in Seq(SocketSet) /\ \A s \in DOMAIN sockets : SocketOK(sockets[s])
  /\ DOMAIN storage = Users /\ \A u \in Users : Stored(storage[u], u, sids, Len(sockets))

(* The panel's socket is the only one alive, and of the student and session   *)
(* the panel is in.                                                           *)
SessionInv ==
  /\ user = None => /\ panel.ws = 0 /\ panel.timer = FALSE /\ panel.sid = 0
                    /\ panel.messages = << >> /\ panel.persist = None
  /\ user # None => panel.sid # 0 /\ panel.persist = user /\ storage[user].sid = panel.sid
  /\ \A s \in DOMAIN sockets : s # panel.ws => sockets[s].state \in { "closing", "closed" }
  /\ panel.ws # 0 => LET k == sockets[panel.ws] IN
                     k.state # "closing" /\ k.of = user /\ k.sid = panel.sid
  /\ panel.timer = TRUE => panel.ws # 0 /\ sockets[panel.ws].state = "closed"

TalkInv ==
  /\ \A q \in Heard(panel.messages) : q.of = user /\ q.sid = panel.sid /\ q.socket <= Len(sockets)
  /\ panel.ws # 0 => Continues(sockets[panel.ws], panel.ws, panel.messages)

(* Every socket but the first was paid for with a disturbance.                *)
CountInv ==
  /\ disturbances \in 0..MaxDisturbances /\ Len(sockets) <= disturbances + 1
  /\ (user = None \/ panel.timer = TRUE) => Len(sockets) <= disturbances
  /\ (panel.ws # 0 /\ Dropped(sockets[panel.ws])) => Len(sockets) <= disturbances

ChatInv == ShapeInv /\ SessionInv /\ TalkInv /\ CountInv

(* No piece of the socket is ahead of its counters.                           *)
LEMMA SaysPieces ==
  ASSUME NEW k, SocketOK(k), NEW i \in DOMAIN k.down, Says(k, i)
  PROVE  k.down[i].piece \in PieceSet
BY DEF Says, SpokenFrame

(* The handler sends frames: what it says comes first among them and after    *)
(* everything it said before.                                                 *)
LEMMA Goes ==
  ASSUME NEW messages \in Seq(Message), NEW k, SocketOK(k), NEW s, Continues(k, s, messages),
         NEW frames \in Seq(DownFrame), NEW k2, Utters(k, k2, s, frames)
  PROVE  Continues(k2, s, messages)
<1>1. /\ k2.of = k.of /\ k2.sid = k.sid /\ k2.down = k.down \o frames
      /\ \A q \in PieceSet : Behind(q, k, s) => Behind(q, k2, s)
      /\ \A i \in DOMAIN frames : frames[i] \in SpokenFrame =>
           /\ i = 1 /\ frames[i].piece.of = k.of /\ frames[i].piece.sid = k.sid
           /\ frames[i].piece.socket = s /\ Behind(frames[i].piece, k2, s)
           /\ \A q \in PieceSet : Behind(q, k, s) => Before(q, frames[i].piece)
  BY DEF Utters
<1> DEFINE n == Len(k.down)
<1>2. k.down \in Seq(DownFrame)
  BY DEF SocketOK, SocketSet
<1>3. n \in Nat /\ Len(frames) \in Nat /\ DOMAIN k.down = 1..n /\ DOMAIN frames = 1..Len(frames)
  BY <1>2
<1>4. /\ DOMAIN k2.down = 1..(n + Len(frames))
      /\ \A i \in 1..(n + Len(frames)) :
           k2.down[i] = IF i <= n THEN k.down[i] ELSE frames[i - n]
  BY <1>1, <1>2, <1>3, ConcatProperties
<1> HIDE DEF n
<1>5. ASSUME NEW i \in DOMAIN k2.down, Says(k2, i)
      PROVE  \/ i \in DOMAIN k.down /\ Says(k, i) /\ k2.down[i] = k.down[i]
             \/ i = n + 1 /\ 1 \in DOMAIN frames /\ frames[1] \in SpokenFrame /\ k2.down[i] = frames[1]
  <2>1. CASE i <= n
    BY <1>3, <1>4, <1>5, <2>1 DEF Says
  <2>2. CASE ~(i <= n)
    <3>1. i - n \in DOMAIN frames /\ k2.down[i] = frames[i - n] /\ frames[i - n] \in SpokenFrame
      BY <1>3, <1>4, <1>5, <2>2 DEF Says
    <3>2. i - n = 1
      BY <1>1, <3>1
    <3>3. i = n + 1
      BY <1>3, <1>4, <3>2
    <3> QED
      BY <3>1, <3>2, <3>3
  <2> QED
    BY <2>1, <2>2
<1>6. \A q \in Heard(messages) : q \in PieceSet
  BY HeardArePieces
<1>7. \A q \in Heard(messages) : Behind(q, k2, s)
  BY <1>1, <1>6 DEF Continues
<1>8. ASSUME NEW i \in DOMAIN k2.down, Says(k2, i)
      PROVE  /\ k2.down[i].piece.of = k2.of /\ k2.down[i].piece.sid = k2.sid
             /\ k2.down[i].piece.socket = s /\ Behind(k2.down[i].piece, k2, s)
             /\ \A q \in Heard(messages) : Before(q, k2.down[i].piece)
             /\ \A j \in DOMAIN k2.down : j < i /\ Says(k2, j) =>
                  Before(k2.down[j].piece, k2.down[i].piece)
  <2>1. CASE i \in DOMAIN k.down /\ Says(k, i) /\ k2.down[i] = k.down[i]
    <3>1. \A j \in DOMAIN k2.down : j < i /\ Says(k2, j) => Says(k, j) /\ k2.down[j] = k.down[j]
      BY <1>3, <1>4, <1>5, <2>1
    <3> QED
      BY <1>1, <2>1, <3>1, SaysPieces DEF Continues, Says
  <2>2. CASE /\ i = n + 1 /\ 1 \in DOMAIN frames /\ frames[1] \in SpokenFrame
             /\ k2.down[i] = frames[1]
    <3>1. ASSUME NEW j \in DOMAIN k2.down, j < i, Says(k2, j)
          PROVE  Before(k2.down[j].piece, k2.down[i].piece)
      <4>1. j \in DOMAIN k.down /\ Says(k, j) /\ k2.down[j] = k.down[j]
        BY <1>3, <1>4, <1>5, <2>2, <3>1
      <4>2. Behind(k.down[j].piece, k, s) /\ k.down[j].piece \in PieceSet
        BY <4>1, SaysPieces DEF Continues
      <4> QED
        BY <1>1, <2>2, <4>1, <4>2
    <3> QED
      BY <1>1, <1>6, <2>2, <3>1 DEF Continues
  <2> QED
    BY <1>5, <1>8, <2>1, <2>2
<1> QED
  BY <1>7, <1>8 DEF Continues

(* Some of what was under way stays under way.                                *)
LEMMA Fewer ==
  ASSUME NEW messages \in Seq(Message), NEW more \in Seq(Message), Heard(more) \subseteq Heard(messages),
         NEW k, SocketOK(k), NEW s, Continues(k, s, messages),
         NEW k2, k2.of = k.of, k2.sid = k.sid, \A q \in PieceSet : Behind(q, k, s) => Behind(q, k2, s),
         \A i \in DOMAIN k2.down : Says(k2, i) =>
           i \in DOMAIN k.down /\ Says(k, i) /\ k2.down[i] = k.down[i]
  PROVE  Continues(k2, s, more)
<1>1. \A q \in Heard(more) : q \in PieceSet
  BY HeardArePieces
<1>2. \A q \in Heard(more) : Behind(q, k2, s)
  BY <1>1 DEF Continues
<1> QED
  BY <1>2, SaysPieces DEF Continues

(* The first of the frames reaches the panel.                                 *)
LEMMA Reaches ==
  ASSUME NEW messages \in Seq(Message), NEW more \in Seq(Message),
         NEW k, SocketOK(k), NEW s, Continues(k, s, messages), k.down # << >>,
         NEW k2, k2.of = k.of, k2.sid = k.sid, k2.down = Tail(k.down),
         \A q \in PieceSet : Behind(q, k, s) => Behind(q, k2, s),
         Heard(more) \subseteq Heard(messages) \cup
           (IF Head(k.down) \in SpokenFrame THEN { Head(k.down).piece } ELSE {})
  PROVE  Continues(k2, s, more)
<1>1. k.down \in Seq(DownFrame)
  BY DEF SocketOK, SocketSet
<1>2. /\ Len(k.down) \in Nat /\ Len(k.down) >= 1 /\ DOMAIN k.down = 1..Len(k.down)
      /\ Head(k.down) = k.down[1] /\ Tail(k.down) \in Seq(DownFrame)
      /\ Len(Tail(k.down)) = Len(k.down) - 1
      /\ \A i \in 1..Len(Tail(k.down)) : Tail(k.down)[i] = k.down[i + 1]
  BY <1>1, HeadTailProperties, EmptySeq
<1>3. DOMAIN k2.down = 1..(Len(k.down) - 1)
  BY <1>2
<1>4. \A i \in DOMAIN k2.down :
        /\ i + 1 \in DOMAIN k.down /\ k2.down[i] = k.down[i + 1] /\ 1 < i + 1
        /\ Says(k2, i) => Says(k, i + 1)
  BY <1>2, <1>3 DEF Says
<1>5. ASSUME NEW q \in Heard(more)
      PROVE  /\ q \in PieceSet
             /\ q \in Heard(messages) \/ (Says(k, 1) /\ 1 \in DOMAIN k.down /\ q = k.down[1].piece)
  BY <1>2, HeardArePieces DEF Says
<1>6. \A q \in Heard(more) : Behind(q, k2, s)
  BY <1>5 DEF Continues
<1>7. ASSUME NEW i \in DOMAIN k2.down, Says(k2, i)
      PROVE  /\ k2.down[i].piece.of = k2.of /\ k2.down[i].piece.sid = k2.sid
             /\ k2.down[i].piece.socket = s /\ Behind(k2.down[i].piece, k2, s)
             /\ \A q \in Heard(more) : Before(q, k2.down[i].piece)
             /\ \A j \in DOMAIN k2.down : j < i /\ Says(k2, j) =>
                  Before(k2.down[j].piece, k2.down[i].piece)
  <2>1. /\ i + 1 \in DOMAIN k.down /\ k2.down[i] = k.down[i + 1] /\ Says(k, i + 1) /\ 1 < i + 1
        /\ k.down[i + 1].piece \in PieceSet
    BY <1>4, <1>7, SaysPieces
  <2>2. \A q \in Heard(more) : Before(q, k2.down[i].piece)
    BY <1>5, <2>1 DEF Continues
  <2>3. \A j \in DOMAIN k2.down : j < i => j + 1 < i + 1
    BY <1>3
  <2>4. \A j \in DOMAIN k2.down : j < i /\ Says(k2, j) => Before(k2.down[j].piece, k2.down[i].piece)
    BY <1>4, <2>1, <2>3 DEF Continues
  <2> QED
    BY <2>1, <2>2, <2>4 DEF Continues
<1> QED
  BY <1>6, <1>7 DEF Continues

-----------------------------------------------------------------------------
(* Steps in general *)

LEMMA StoredOn ==
  ASSUME NEW entry, NEW u, NEW top \in Nat, NEW last \in Nat, Stored(entry, u, top, last),
         NEW top2 \in Nat, NEW last2 \in Nat, top <= top2, last <= last2
  PROVE  Stored(entry, u, top2, last2)
<1>1. \A q \in Heard(entry.messages) : q.socket \in Nat
  BY HeardArePieces DEF Stored, PieceSet
<1> QED
  BY <1>1 DEF Stored

(* persistMessages writes under the student who is logged in.                 *)
LEMMA PersistKeeps ==
  ASSUME ChatInv, Persist(panel'), PanelOK(panel'), panel'.persist = panel.persist,
         panel'.sid = panel.sid,
         \A q \in Heard(panel'.messages) : q.of = user /\ q.sid = panel.sid /\ q.socket <= Len(sockets)
  PROVE  /\ DOMAIN storage' = Users /\ \A u \in Users : Stored(storage'[u], u, sids, Len(sockets))
         /\ \A u \in Users : storage'[u].sid = storage[u].sid
<1>1. CASE panel.persist = None
  BY <1>1 DEF Persist, ChatInv, ShapeInv
<1>2. CASE panel.persist # None
  <2>1. user \in Users /\ panel.persist = user /\ panel.sid # 0 /\ storage[user].sid = panel.sid
    BY <1>2 DEF ChatInv, ShapeInv, SessionInv
  <2>2. storage' = [storage EXCEPT ![user].messages = panel'.messages]
    BY <1>2, <2>1 DEF Persist
  <2>3. DOMAIN storage = Users /\ \A u \in Users : Stored(storage[u], u, sids, Len(sockets))
    BY DEF ChatInv, ShapeInv
  <2>4. /\ DOMAIN storage' = Users /\ \A u \in Users : u # user => storage'[u] = storage[u]
        /\ DOMAIN storage'[user] = { "sid", "messages" } /\ storage'[user].sid = storage[user].sid
        /\ storage'[user].messages = panel'.messages
    BY <2>1, <2>2, <2>3 DEF Stored
  <2>5. Stored(storage'[user], user, sids, Len(sockets))
    BY <2>1, <2>3, <2>4 DEF Stored, PanelOK
  <2> QED
    BY <2>3, <2>4, <2>5
<1> QED
  BY <1>1, <1>2

(* Something happens to one socket, and to the panel what the socket told it. *)
LEMMA SocketMoves ==
  ASSUME ChatInv, NEW s \in DOMAIN sockets, NEW k, SocketOK(k),
         sockets' = [sockets EXCEPT ![s] = k], k.of = sockets[s].of, k.sid = sockets[s].sid,
         s # panel.ws => k.state \in { "closing", "closed" },
         s = panel.ws => k.state # "closing",
         sockets[s].state = "closed" => k.state = "closed",
         Dropped(k) => Dropped(sockets[s]) \/ Len(sockets) <= disturbances',
         PanelOK(panel'), panel'.ws = panel.ws, panel'.sid = panel.sid, panel'.persist = panel.persist,
         \/ panel'.timer = panel.timer
         \/ s = panel.ws /\ k.state = "closed" /\ Dropped(sockets[s]),
         user = None => panel'.messages = << >>,
         \A q \in Heard(panel'.messages) : q.of = user /\ q.sid = panel.sid /\ q.socket <= Len(sockets),
         s # panel.ws => Heard(panel'.messages) \subseteq Heard(panel.messages),
         s = panel.ws => Continues(k, s, panel'.messages),
         storage' = storage \/ Persist(panel'),
         user' = user, sids' = sids, sends' \in Nat,
         disturbances' \in 0..MaxDisturbances, disturbances <= disturbances'
  PROVE  ChatInv'
<1>1. /\ sockets \in Seq(SocketSet) /\ s \in 1..Len(sockets) /\ Len(sockets) \in Nat
      /\ k \in SocketSet /\ DOMAIN sockets = 1..Len(sockets)
  BY DEF ChatInv, ShapeInv, SocketOK
<1>2. /\ sockets' \in Seq(SocketSet) /\ Len(sockets') = Len(sockets) /\ DOMAIN sockets' = DOMAIN sockets
      /\ sockets'[s] = k /\ \A r \in DOMAIN sockets : r # s => sockets'[r] = sockets[r]
  BY <1>1, ExceptSeq
<1>3. /\ DOMAIN storage' = Users /\ \A u \in Users : Stored(storage'[u], u, sids, Len(sockets))
      /\ \A u \in Users : storage'[u].sid = storage[u].sid
  BY PersistKeeps DEF ChatInv, ShapeInv
<1>4. ShapeInv'
  BY <1>2, <1>3 DEF ChatInv, ShapeInv
<1>5. panel.ws # 0 => panel.ws \in DOMAIN sockets
  BY <1>1 DEF ChatInv, ShapeInv
<1>6. SessionInv'
  <2>1. user' = None => /\ panel'.ws = 0 /\ panel'.timer = FALSE /\ panel'.sid = 0
                        /\ panel'.messages = << >> /\ panel'.persist = None
    BY <1>1 DEF ChatInv, SessionInv
  <2>2. user' # None => panel'.sid # 0 /\ panel'.persist = user' /\ storage'[user'].sid = panel'.sid
    BY <1>3 DEF ChatInv, SessionInv, ShapeInv
  <2>3. \A r \in DOMAIN sockets' : r # panel'.ws => sockets'[r].state \in { "closing", "closed" }
    BY <1>2 DEF ChatInv, SessionInv
  <2>4. panel'.ws # 0 => /\ sockets'[panel'.ws].state # "closing" /\ sockets'[panel'.ws].of = user'
                         /\ sockets'[panel'.ws].sid = panel'.sid
    BY <1>2, <1>5 DEF ChatInv, SessionInv
  <2>5. panel'.timer = TRUE => panel'.ws # 0 /\ sockets'[panel'.ws].state = "closed"
    BY <1>1, <1>2, <1>5 DEF ChatInv, SessionInv
  <2> QED
    BY <2>1, <2>2, <2>3, <2>4, <2>5 DEF SessionInv
<1>7. TalkInv'
  <2>1. panel'.messages \in Seq(Message) /\ panel.messages \in Seq(Message)
    BY DEF PanelOK, ChatInv, ShapeInv
  <2>2. ASSUME panel.ws # 0, panel.ws # s
        PROVE  Continues(sockets[panel.ws], panel.ws, panel'.messages)
    <3>1. /\ Continues(sockets[panel.ws], panel.ws, panel.messages) /\ SocketOK(sockets[panel.ws])
          /\ Heard(panel'.messages) \subseteq Heard(panel.messages)
      BY <1>5, <2>2 DEF ChatInv, TalkInv, ShapeInv
    <3> QED
      BY <2>1, <3>1, Fewer
  <2>3. panel'.ws # 0 => Continues(sockets'[panel'.ws], panel'.ws, panel'.messages)
    BY <1>2, <1>5, <2>2
  <2> QED
    BY <1>2, <2>3 DEF TalkInv
<1>8. CountInv'
  <2>1. disturbances \in Nat /\ disturbances' \in Nat
    BY ChatAssumption DEF ChatInv, CountInv
  <2>2. Dropped(sockets[s]) /\ s = panel.ws => Len(sockets) <= disturbances
    BY <1>1 DEF ChatInv, CountInv
  <2>3. Len(sockets') <= disturbances' + 1
    BY <1>1, <1>2, <2>1 DEF ChatInv, CountInv
  <2>4. user' = None \/ panel'.timer = TRUE => Len(sockets') <= disturbances'
    BY <1>1, <1>2, <2>1, <2>2 DEF ChatInv, CountInv
  <2>5. panel'.ws # 0 /\ Dropped(sockets'[panel'.ws]) => Len(sockets') <= disturbances'
    BY <1>1, <1>2, <1>5, <2>1, <2>2 DEF ChatInv, CountInv
  <2> QED
    BY <2>3, <2>4, <2>5 DEF CountInv
<1> QED
  BY <1>4, <1>6, <1>7, <1>8 DEF ChatInv

(* A socket is opened for a session, after the others were closed.            *)
LEMMA Opens ==
  ASSUME ChatInv, NEW u \in Users, NEW q, NEW closed \in Seq(SocketSet),
         user' = u, panel' = Opened(q), PanelOK(q), q.sid # 0, q.persist = u, q.timer = FALSE,
         \A x \in Heard(q.messages) : x.of = u /\ x.sid = q.sid /\ x.socket <= Len(sockets),
         Len(closed) = Len(sockets),
         \A i \in DOMAIN closed : SocketOK(closed[i]) /\ closed[i].state \in { "closing", "closed" },
         sockets' = Append(closed, Socket(u, q.sid)),
         DOMAIN storage' = Users, storage'[u].sid = q.sid,
         \A v \in Users : Stored(storage'[v], v, sids', Len(sockets)),
         sids' \in Nat, q.sid \in 0..sids', sends' \in Nat,
         disturbances' \in 0..MaxDisturbances, Len(sockets) <= disturbances'
  PROVE  ChatInv'
<1> DEFINE n == Len(sockets)
           new == Socket(u, q.sid)
<1>1. n \in Nat /\ n + 1 \in Nat /\ n <= n + 1 /\ u # None
  BY ChatAssumption DEF ChatInv, ShapeInv
<1>2. new \in SocketSet /\ new.down = << >> /\ new.handler = "none" /\ new.count = 0
      /\ new.state = "connecting" /\ new.of = u /\ new.sid = q.sid
  <2>1. q.sid \in Nat /\ MaxPieces \in Nat /\ RateLimit + 1 \in Nat
    BY ChatAssumption
  <2>2. << >> \in Seq(DownFrame) /\ << >> \in Seq(UpFrame)
    BY EmptySeq
  <2> QED
    BY <2>1, <2>2 DEF Socket, SocketSet
<1>3. SocketOK(new)
  <2>1. 0 <= RateLimit /\ \A i \in DOMAIN << >> : FALSE
    BY ChatAssumption
  <2> QED
    BY <1>2, <2>1 DEF SocketOK
<1> HIDE DEF new
<1>4. /\ sockets' \in Seq(SocketSet) /\ Len(sockets') = n + 1 /\ DOMAIN sockets' = 1..(n + 1)
      /\ sockets'[n + 1] = new /\ DOMAIN closed = 1..n
      /\ \A i \in 1..n : sockets'[i] = closed[i]
  BY <1>2, AppendProperties DEF new
<1>5. \A i \in DOMAIN sockets' : i \in DOMAIN closed \/ i = n + 1
  BY <1>1, <1>4
<1>6. /\ PanelOK(panel') /\ panel'.ws = n + 1 /\ panel'.sid = q.sid /\ panel'.persist = u
      /\ panel'.timer = FALSE /\ panel'.messages = q.messages
  BY DEF Opened, PanelOK, PanelFields
<1> HIDE DEF n
<1>7. ShapeInv'
  <2>1. \A v \in Users : Stored(storage'[v], v, sids', n + 1)
    BY <1>1, StoredOn DEF n
  <2>2. \A i \in DOMAIN sockets' : SocketOK(sockets'[i])
    BY <1>3, <1>4, <1>5
  <2>3. panel'.ws \in { 0, Len(sockets') } /\ panel'.sid \in 0..sids'
    BY <1>4, <1>6
  <2> QED
    BY <1>4, <1>6, <2>1, <2>2, <2>3 DEF ShapeInv
<1>8. SessionInv'
  <2>1. \A i \in DOMAIN sockets' : i # panel'.ws => sockets'[i].state \in { "closing", "closed" }
    BY <1>4, <1>5, <1>6
  <2> QED
    BY <1>1, <1>2, <1>4, <1>6, <2>1 DEF SessionInv
<1>9. TalkInv'
  <2>1. \A x \in Heard(q.messages) : x.socket \in Nat
    BY HeardArePieces DEF PanelOK, PieceSet
  <2>2. \A x \in Heard(q.messages) : x.socket < n + 1 /\ x.socket <= n + 1
    BY <1>1, <2>1 DEF n
  <2>3. Continues(new, n + 1, q.messages)
    <3>1. \A i \in DOMAIN new.down : FALSE
      BY <1>2
    <3> QED
      BY <2>2, <3>1 DEF Continues, Behind
  <2> QED
    BY <1>4, <1>6, <2>2, <2>3 DEF TalkInv
<1>10. CountInv'
  <2>1. n + 1 <= disturbances' + 1
    BY <1>1, ChatAssumption DEF n
  <2>2. ~Dropped(new)
    <3>1. \A i \in DOMAIN new.down : FALSE
      BY <1>2
    <3> QED
      BY <3>1 DEF Dropped
  <2> QED
    BY <1>1, <1>4, <1>6, <2>1, <2>2 DEF CountInv
<1> QED
  BY <1>7, <1>8, <1>9, <1>10 DEF ChatInv

-----------------------------------------------------------------------------
(* What the student does *)

LEMMA NothingHeard == << >> \in Seq(Message) /\ InOrder(<< >>) /\ Heard(<< >>) = {}
<1>1. \A i \in DOMAIN << >> : FALSE
  OBVIOUS
<1> QED
  BY <1>1, EmptySeq, HeardIs DEF InOrder

LEMMA InitChat == Init => ChatInv
<1> SUFFICES ASSUME Init PROVE ChatInv
  OBVIOUS
<1>1. /\ user = None /\ sids = 0 /\ sends = 0 /\ disturbances = 0 /\ sockets = << >>
      /\ PanelOK(panel) /\ panel.ws = 0 /\ panel.sid = 0 /\ panel.timer = FALSE
      /\ panel.messages = << >> /\ panel.persist = None
      /\ DOMAIN storage = Users
      /\ \A u \in Users : storage[u] = [sid |-> 0, messages |-> << >>]
  BY NothingHeard DEF Init, EmptyPanel, PanelOK, PanelFields
<1>2. sockets \in Seq(SocketSet) /\ Len(sockets) = 0 /\ \A s \in DOMAIN sockets : FALSE
  BY <1>1, EmptySeq
<1>3. ASSUME NEW u \in Users PROVE Stored(storage[u], u, sids, Len(sockets))
  <2>1. DOMAIN storage[u] = { "sid", "messages" } /\ storage[u].sid = 0 /\ storage[u].messages = << >>
    BY <1>1
  <2> QED
    BY <1>1, <2>1, NothingHeard DEF Stored
<1>4. ShapeInv
  BY <1>1, <1>2, <1>3 DEF ShapeInv
<1>5. SessionInv
  BY <1>1, <1>2 DEF SessionInv
<1>6. TalkInv
  BY <1>1, NothingHeard DEF TalkInv
<1>7. CountInv
  BY <1>1, <1>2, ChatAssumption DEF CountInv
<1> QED
  BY <1>4, <1>5, <1>6, <1>7 DEF ChatInv

LEMMA ClosingIs ==
  ASSUME NEW k, SocketOK(k)
  PROVE  /\ SocketOK(Closing(k)) /\ Closing(k).state \in { "closing", "closed" }
         /\ SocketOK([Closing(k) EXCEPT !.state = "closed", !.down = << >>])
         /\ [Closing(k) EXCEPT !.state = "closed", !.down = << >>].state = "closed"
<1>1. << >> \in Seq(DownFrame) /\ << >> \in Seq(UpFrame)
  BY EmptySeq
<1>2. CASE k.state \in { "connecting", "open" }
  <2>1. Closing(k) = [k EXCEPT !.state = "closing", !.handler = "ended", !.up = << >>, !.down = << >>]
    BY <1>2 DEF Closing
  <2> QED
    BY <1>1, <2>1 DEF SocketOK, SocketSet
<1>3. CASE k.state \notin { "connecting", "open" }
  <2>1. Closing(k) = k
    BY <1>3 DEF Closing
  <2> QED
    BY <1>1, <1>3, <2>1 DEF SocketOK, SocketSet
<1> QED
  BY <1>2, <1>3

LEMMA AllClosed ==
  ASSUME ChatInv
  PROVE  /\ WithClosed(panel.ws) \in Seq(SocketSet) /\ Len(WithClosed(panel.ws)) = Len(sockets)
         /\ \A i \in DOMAIN WithClosed(panel.ws) :
              /\ SocketOK(WithClosed(panel.ws)[i])
              /\ WithClosed(panel.ws)[i].state \in { "closing", "closed" }
<1>1. /\ sockets \in Seq(SocketSet) /\ panel.ws \in { 0, Len(sockets) } /\ Len(sockets) \in Nat
      /\ \A s \in DOMAIN sockets : SocketOK(sockets[s])
      /\ \A s \in DOMAIN sockets : s # panel.ws => sockets[s].state \in { "closing", "closed" }
  BY DEF ChatInv, ShapeInv, SessionInv
<1>2. CASE panel.ws = 0
  <2>1. \A s \in DOMAIN sockets : s # 0
    BY <1>1
  <2> QED
    BY <1>1, <1>2, <2>1 DEF WithClosed
<1>3. CASE panel.ws # 0
  <2>1. panel.ws \in 1..Len(sockets) /\ DOMAIN sockets = 1..Len(sockets)
    BY <1>1, <1>3
  <2>2. /\ SocketOK(Closing(sockets[panel.ws]))
        /\ Closing(sockets[panel.ws]).state \in { "closing", "closed" }
        /\ Closing(sockets[panel.ws]) \in SocketSet
    BY <1>1, <2>1, ClosingIs DEF SocketOK
  <2>3. WithClosed(panel.ws) = [sockets EXCEPT ![panel.ws] = Closing(sockets[panel.ws])]
    BY <1>3 DEF WithClosed
  <2> QED
    BY <1>1, <2>1, <2>2, <2>3, ExceptSeq
<1> QED
  BY <1>2, <1>3

LEMMA Session ==
  ASSUME ChatInv, NEW u \in Users, NEW p, PanelOK(p), p.sid \in { 0, storage[u].sid },
         p.sid = 0 => p.messages = << >>,
         \A x \in Heard(p.messages) : x.of = u /\ x.sid = p.sid /\ x.socket <= Len(sockets),
         NEW q, q = InitSession(p, u)
  PROVE  /\ PanelOK(q) /\ q.persist = u /\ q.timer = p.timer
         /\ q.sid # 0 /\ q.sid \in 0..(sids + 1)
         /\ storage[u].sid # 0 => q.sid = storage[u].sid /\ q.sid \in 0..sids
         /\ \A x \in Heard(q.messages) : x.of = u /\ x.sid = q.sid /\ x.socket <= Len(sockets)
<1>1. /\ Stored(storage[u], u, sids, Len(sockets)) /\ sids \in Nat
  BY DEF ChatInv, ShapeInv
<1>2. storage[u].sid \in 0..sids /\ storage[u].messages \in Seq(Message) /\ InOrder(storage[u].messages)
  BY <1>1 DEF Stored
<1>3. CASE p.sid # 0
  <2>1. q = [p EXCEPT !.persist = u]
    BY <1>3 DEF InitSession
  <2>2. PanelOK(q) /\ q.persist = u /\ q.timer = p.timer /\ q.sid = p.sid /\ q.messages = p.messages
    BY <2>1 DEF PanelOK, PanelFields
  <2> QED
    BY <1>1, <1>2, <1>3, <2>2
<1>4. CASE p.sid = 0 /\ storage[u].sid # 0
  <2>1. PICK m : m = IF storage[u].messages = << >> THEN p.messages ELSE storage[u].messages
    OBVIOUS
  <2>2. m = storage[u].messages
    BY <1>4, <2>1
  <2>3. q = [[p EXCEPT !.persist = u] EXCEPT !.sid = storage[u].sid, !.messages = m]
    BY <1>4, <2>1 DEF InitSession, PanelOK, PanelFields
  <2>4. PanelOK(q) /\ q.persist = u /\ q.timer = p.timer /\ q.sid = storage[u].sid /\ q.messages = m
    BY <1>2, <2>2, <2>3 DEF PanelOK, PanelFields
  <2>5. q.sid \in 0..(sids + 1)
    BY <1>1, <1>2, <2>4
  <2> QED
    BY <1>1, <1>2, <1>4, <2>2, <2>4, <2>5 DEF Stored
<1>5. CASE p.sid = 0 /\ storage[u].sid = 0
  <2>1. q = [[p EXCEPT !.persist = u] EXCEPT !.sid = sids + 1]
    BY <1>5 DEF InitSession
  <2>2. PanelOK(q) /\ q.persist = u /\ q.timer = p.timer /\ q.sid = sids + 1 /\ q.messages = << >>
    BY <1>5, <2>1 DEF PanelOK, PanelFields
  <2> QED
    BY <1>1, <1>5, <2>2, NothingHeard
<1> QED
  BY <1>3, <1>4, <1>5

(* connect() when there is no socket: the student logs in, or a timer fires.  *)
LEMMA ConnectStep ==
  ASSUME ChatInv, NEW u \in Users, NEW p, PanelOK(p), p.sid \in { 0, storage[u].sid },
         p.sid = 0 => p.messages = << >>, p.timer = FALSE,
         \A x \in Heard(p.messages) : x.of = u /\ x.sid = p.sid /\ x.socket <= Len(sockets),
         MayConnect(p), Connect(p, u), \A s \in DOMAIN sockets : sockets[s].state \in { "closing", "closed" },
         user' = u, sends' = sends, disturbances' = disturbances, Len(sockets) <= disturbances
  PROVE  ChatInv'
<1>1. PICK q : q = InitSession(p, u)
  OBVIOUS
<1>2. /\ PanelOK(q) /\ q.persist = u /\ q.timer = p.timer
      /\ q.sid # 0 /\ q.sid \in 0..(sids + 1)
      /\ storage[u].sid # 0 => q.sid = storage[u].sid /\ q.sid \in 0..sids
      /\ \A x \in Heard(q.messages) : x.of = u /\ x.sid = q.sid /\ x.socket <= Len(sockets)
  BY <1>1, Session
<1>3. /\ panel' = Opened(q) /\ sockets' = Append(sockets, Socket(u, q.sid))
      /\ sids' = (IF q.sid > sids THEN q.sid ELSE sids)
      /\ storage' = [storage EXCEPT ![u].sid = q.sid]
  BY <1>1 DEF Connect
<1>4. /\ sids \in Nat /\ sids' \in Nat /\ sids <= sids' /\ q.sid \in 0..sids' /\ Len(sockets) \in Nat
  BY <1>2, <1>3 DEF ChatInv, ShapeInv
<1>5. DOMAIN storage = Users /\ \A v \in Users : Stored(storage[v], v, sids, Len(sockets))
  BY DEF ChatInv, ShapeInv
<1>6. /\ DOMAIN storage' = Users /\ \A v \in Users : v # u => storage'[v] = storage[v]
      /\ DOMAIN storage'[u] = { "sid", "messages" } /\ storage'[u].sid = q.sid
      /\ storage'[u].messages = storage[u].messages
  BY <1>3, <1>5 DEF Stored
<1>7. Stored(storage'[u], u, sids', Len(sockets))
  <2>1. CASE storage[u].sid = 0
    BY <1>2, <1>4, <1>5, <1>6, <2>1, NothingHeard DEF Stored
  <2>2. CASE storage[u].sid # 0
    BY <1>2, <1>4, <1>5, <1>6, <2>2 DEF Stored
  <2> QED
    BY <2>1, <2>2
<1>8. \A v \in Users : Stored(storage'[v], v, sids', Len(sockets))
  BY <1>4, <1>5, <1>6, <1>7, StoredOn
<1>9. /\ sockets \in Seq(SocketSet) /\ \A s \in DOMAIN sockets : SocketOK(sockets[s])
      /\ disturbances \in 0..MaxDisturbances /\ sends \in Nat
  BY DEF ChatInv, ShapeInv, CountInv
<1>10. PICK closed : closed = sockets
  OBVIOUS
<1>11. /\ closed \in Seq(SocketSet) /\ Len(closed) = Len(sockets)
       /\ \A i \in DOMAIN closed : SocketOK(closed[i]) /\ closed[i].state \in { "closing", "closed" }
       /\ sockets' = Append(closed, Socket(u, q.sid))
  BY <1>3, <1>9, <1>10
<1>12. q.timer = FALSE /\ sends' \in Nat /\ disturbances' \in 0..MaxDisturbances
       /\ Len(sockets) <= disturbances'
  BY <1>2, <1>9
<1> QED
  BY <1>2, <1>3, <1>4, <1>6, <1>8, <1>11, <1>12, Opens

LEMMA LogInStep ==
  ASSUME ChatInv, NEW u \in Users, LogIn(u)
  PROVE  ChatInv'
<1>1. /\ user = None /\ user' = u /\ Connect(panel, u) /\ UNCHANGED << sends, disturbances >>
  BY DEF LogIn
<1>2. /\ panel.ws = 0 /\ panel.timer = FALSE /\ panel.sid = 0 /\ panel.messages = << >>
      /\ Len(sockets) <= disturbances
      /\ PanelOK(panel)
  BY <1>1 DEF ChatInv, SessionInv, CountInv, ShapeInv
<1>3. MayConnect(panel)
  BY <1>2 DEF MayConnect
<1>4. \A s \in DOMAIN sockets : sockets[s].state \in { "closing", "closed" }
  BY <1>2 DEF ChatInv, SessionInv, ShapeInv
<1> QED
  BY <1>1, <1>2, <1>3, <1>4, ConnectStep, NothingHeard

LEMMA ReconnectStep ==
  ASSUME ChatInv, Reconnect
  PROVE  ChatInv'
<1>1. PICK p : p = [panel EXCEPT !.timer = FALSE]
  OBVIOUS
<1>2. panel.timer = TRUE /\ Connect(p, user) /\ UNCHANGED << user, sends, disturbances >>
  BY <1>1, Zenon DEF Reconnect
<1>3. /\ panel.ws # 0 /\ sockets[panel.ws].state = "closed" /\ user # None /\ user \in Users
      /\ Len(sockets) <= disturbances /\ PanelOK(panel)
      /\ panel.sid # 0 /\ storage[user].sid = panel.sid
  BY <1>2 DEF ChatInv, SessionInv, CountInv, ShapeInv
<1>4. /\ PanelOK(p) /\ p.sid = panel.sid /\ p.messages = panel.messages /\ p.timer = FALSE
      /\ p.ws = panel.ws
  BY <1>1, <1>3 DEF PanelOK, PanelFields
<1>5. MayConnect(p)
  BY <1>3, <1>4 DEF MayConnect
<1>6. \A s \in DOMAIN sockets : sockets[s].state \in { "closing", "closed" }
  BY <1>3 DEF ChatInv, SessionInv
<1>7. \A x \in Heard(p.messages) : x.of = user /\ x.sid = p.sid /\ x.socket <= Len(sockets)
  BY <1>4 DEF ChatInv, TalkInv
<1> QED
  BY <1>2, <1>3, <1>4, <1>5, <1>6, <1>7, ConnectStep

LEMMA LogOutStep ==
  ASSUME ChatInv, LogOut
  PROVE  ChatInv'
<1>1. /\ user' = None /\ panel' = Disconnected(Reset(panel)) /\ sockets' = WithClosed(panel.ws)
      /\ UNCHANGED << storage, sids, sends >>
      /\ disturbances < MaxDisturbances /\ disturbances' = disturbances + 1
  BY DEF LogOut, Disturb
<1>2. /\ PanelOK(panel') /\ panel'.ws = 0 /\ panel'.timer = FALSE /\ panel'.sid = 0
      /\ panel'.messages = << >> /\ panel'.persist = None
  BY <1>1, NothingHeard DEF Disconnected, Reset, ChatInv, ShapeInv, PanelOK, PanelFields
<1>3. /\ sockets' \in Seq(SocketSet) /\ Len(sockets') = Len(sockets)
      /\ \A i \in DOMAIN sockets' : SocketOK(sockets'[i]) /\ sockets'[i].state \in { "closing", "closed" }
  BY <1>1, AllClosed
<1>4. ShapeInv'
  BY <1>1, <1>2, <1>3 DEF ChatInv, ShapeInv
<1>5. SessionInv' /\ TalkInv'
  BY <1>1, <1>2, <1>3, NothingHeard DEF SessionInv, TalkInv
<1>6. CountInv'
  <2>1. disturbances \in Nat /\ disturbances' \in 0..MaxDisturbances /\ Len(sockets) \in Nat
    BY <1>1, ChatAssumption DEF ChatInv, CountInv, ShapeInv
  <2> QED
    BY <1>1, <1>2, <1>3, <2>1 DEF ChatInv, CountInv
<1> QED
  BY <1>4, <1>5, <1>6 DEF ChatInv

LEMMA ClearStep ==
  ASSUME ChatInv, ClearConversation
  PROVE  ChatInv'
<1>1. PICK q : q = [Disconnected(panel) EXCEPT !.sid = sids + 1, !.messages = << >>, !.persist = user]
  OBVIOUS
<1>2. /\ user # None /\ sids' = sids + 1 /\ panel' = Opened(q) /\ user' = user /\ sends' = sends
      /\ storage' = [storage EXCEPT ![user] = [sid |-> sids + 1, messages |-> << >>]]
      /\ sockets' = Append(WithClosed(panel.ws), Socket(user, sids + 1))
      /\ disturbances < MaxDisturbances /\ disturbances' = disturbances + 1
  BY <1>1 DEF ClearConversation, Disturb
<1>3. /\ user \in Users /\ sids \in Nat /\ sends \in Nat /\ Len(sockets) \in Nat
      /\ PanelOK(panel) /\ Len(sockets) <= disturbances + 1 /\ disturbances \in 0..MaxDisturbances
      /\ DOMAIN storage = Users /\ \A v \in Users : Stored(storage[v], v, sids, Len(sockets))
  BY <1>2 DEF ChatInv, ShapeInv, CountInv
<1>4. /\ PanelOK(q) /\ q.sid = sids + 1 /\ q.messages = << >> /\ q.persist = user /\ q.timer = FALSE
  BY <1>1, <1>3, NothingHeard DEF Disconnected, PanelOK, PanelFields
<1>5. /\ DOMAIN storage' = Users /\ \A v \in Users : v # user => storage'[v] = storage[v]
      /\ storage'[user] = [sid |-> sids + 1, messages |-> << >>]
  BY <1>2, <1>3
<1>6. Stored(storage'[user], user, sids', Len(sockets))
  BY <1>2, <1>3, <1>5, NothingHeard DEF Stored
<1>7. sids' \in Nat /\ sids <= sids' /\ q.sid # 0 /\ q.sid \in 0..sids'
  BY <1>2, <1>3, <1>4
<1>8. \A v \in Users : Stored(storage'[v], v, sids', Len(sockets))
  BY <1>3, <1>5, <1>6, <1>7, StoredOn
<1>9. disturbances' \in 0..MaxDisturbances /\ Len(sockets) <= disturbances'
  BY <1>2, <1>3, ChatAssumption
<1>10. PICK closed : closed = WithClosed(panel.ws)
  OBVIOUS
<1>11. /\ closed \in Seq(SocketSet) /\ Len(closed) = Len(sockets)
       /\ \A i \in DOMAIN closed : SocketOK(closed[i]) /\ closed[i].state \in { "closing", "closed" }
  BY <1>10, AllClosed
<1>12. storage'[user].sid = q.sid /\ sockets' = Append(closed, Socket(user, q.sid))
  BY <1>2, <1>4, <1>5, <1>10
<1> QED
  BY <1>2, <1>3, <1>4, <1>5, <1>7, <1>8, <1>9, <1>11, <1>12, NothingHeard, Opens

LEMMA ReloadStep ==
  ASSUME ChatInv, Reload
  PROVE  ChatInv'
<1>1. PICK q : q = InitSession(EmptyPanel, user)
  OBVIOUS
<1>2. PICK closed : closed = [s \in DOMAIN sockets |->
                               [Closing(sockets[s]) EXCEPT !.state = "closed", !.down = << >>]]
  OBVIOUS
<1>3. /\ user # None /\ panel' = Opened(q) /\ UNCHANGED << user, storage, sids, sends >>
      /\ sockets' = Append(closed, Socket(user, panel'.sid))
      /\ disturbances < MaxDisturbances /\ disturbances' = disturbances + 1
  BY <1>1, <1>2 DEF Reload, Disturb
<1>4. /\ user \in Users /\ sids \in Nat /\ sends \in Nat /\ Len(sockets) \in Nat
      /\ Len(sockets) <= disturbances + 1 /\ disturbances \in 0..MaxDisturbances
      /\ DOMAIN storage = Users /\ \A v \in Users : Stored(storage[v], v, sids, Len(sockets))
      /\ storage[user].sid # 0
      /\ sockets \in Seq(SocketSet) /\ \A s \in DOMAIN sockets : SocketOK(sockets[s])
  BY <1>3 DEF ChatInv, ShapeInv, CountInv, SessionInv
<1>5. /\ PanelOK(EmptyPanel) /\ EmptyPanel.sid = 0 /\ EmptyPanel.messages = << >>
      /\ EmptyPanel.timer = FALSE
  BY NothingHeard DEF EmptyPanel, PanelOK, PanelFields
<1>6. /\ PanelOK(q) /\ q.persist = user /\ q.timer = FALSE /\ q.sid # 0
      /\ q.sid = storage[user].sid /\ q.sid \in 0..sids
      /\ \A x \in Heard(q.messages) : x.of = user /\ x.sid = q.sid /\ x.socket <= Len(sockets)
  BY <1>1, <1>4, <1>5, NothingHeard, Session
<1>7. /\ closed \in Seq(SocketSet) /\ Len(closed) = Len(sockets)
      /\ \A i \in DOMAIN closed : SocketOK(closed[i]) /\ closed[i].state \in { "closing", "closed" }
  <2>1. DOMAIN sockets = 1..Len(sockets)
    BY <1>4
  <2>2. ASSUME NEW i \in 1..Len(sockets)
        PROVE  /\ closed[i] \in SocketSet /\ SocketOK(closed[i])
               /\ closed[i].state \in { "closing", "closed" }
    <3>1. closed[i] = [Closing(sockets[i]) EXCEPT !.state = "closed", !.down = << >>]
      BY <1>2, <2>1
    <3>2. SocketOK(sockets[i])
      BY <1>4, <2>1
    <3>3. SocketOK(closed[i]) /\ closed[i].state = "closed"
      BY <3>1, <3>2, ClosingIs
    <3> QED
      BY <3>3 DEF SocketOK
  <2>3. closed \in [1..Len(sockets) -> SocketSet]
    <3>1. closed = [s \in 1..Len(sockets) |-> closed[s]]
      BY <1>2, <2>1, Zenon
    <3> QED
      BY <2>2, <3>1
  <2>4. closed \in Seq(SocketSet) /\ Len(closed) = Len(sockets) /\ DOMAIN closed = 1..Len(sockets)
    BY <1>4, <2>3, SeqDef
  <2> QED
    BY <2>2, <2>4
<1>8. disturbances' \in 0..MaxDisturbances /\ Len(sockets) <= disturbances'
  BY <1>3, <1>4, ChatAssumption
<1>9. panel'.sid = q.sid
  BY <1>3, <1>6 DEF Opened, PanelOK, PanelFields
<1> QED
  BY <1>3, <1>4, <1>6, <1>7, <1>8, <1>9, Opens

LEMMA SendStep ==
  ASSUME ChatInv, NEW text \in Text, Send(text)
  PROVE  ChatInv'
<1> DEFINE s == panel.ws
<1>1. /\ s # 0 /\ s \in DOMAIN sockets /\ sockets[s].state = "open" /\ SocketOK(sockets[s])
      /\ Continues(sockets[s], s, panel.messages) /\ user # None /\ PanelOK(panel)
      /\ sends \in Nat /\ sends' = sends + 1 /\ sends' \in Nat
  BY DEF Send, ChatInv, ShapeInv, SessionInv, TalkInv
<1>2. PICK up : up = Append(sockets[s].up, Frame(text))
  OBVIOUS
<1>3. up \in Seq(UpFrame)
  <2>1. Frame(text) \in UpFrame /\ sockets[s].up \in Seq(UpFrame)
    BY <1>1 DEF Frame, UpFrame, SocketOK, SocketSet
  <2> QED
    BY <1>2, <2>1, AppendProperties
<1>4. PICK k : k = [sockets[s] EXCEPT !.up = up]
  OBVIOUS
<1>5. /\ k \in SocketSet /\ k.down = sockets[s].down /\ k.state = "open" /\ k.of = sockets[s].of
      /\ k.sid = sockets[s].sid /\ k.handler = sockets[s].handler /\ k.count = sockets[s].count
      /\ k.turn = sockets[s].turn /\ k.pieces = sockets[s].pieces
  BY <1>1, <1>3, <1>4 DEF SocketOK, SocketSet
<1>6. SocketOK(k) /\ (Dropped(k) => Dropped(sockets[s])) /\ \A q : Behind(q, sockets[s], s) => Behind(q, k, s)
  BY <1>1, <1>5 DEF SocketOK, Dropped, Behind
<1>7. Shows(panel', panel, {})
  BY <1>1, QuestionShows DEF Send
<1>8. panel'.messages \in Seq(Message) /\ Heard(panel'.messages) \subseteq Heard(panel.messages)
  BY <1>7 DEF Shows, PanelOK
<1>9. Continues(k, s, panel'.messages)
  <2>1. \A i \in DOMAIN k.down : Says(k, i) => i \in DOMAIN sockets[s].down /\ Says(sockets[s], i)
    BY <1>5 DEF Says
  <2> QED
    BY <1>1, <1>5, <1>6, <1>8, <2>1, Fewer DEF PanelOK
<1>10. /\ sockets' = [sockets EXCEPT ![s] = k] /\ Persist(panel')
       /\ UNCHANGED << user, sids, disturbances >>
  BY <1>2, <1>4 DEF Send
<1>11. disturbances' \in 0..MaxDisturbances /\ disturbances <= disturbances'
  BY <1>10, ChatAssumption DEF ChatInv, CountInv
<1>12. \A q \in Heard(panel'.messages) : q.of = user /\ q.sid = panel.sid /\ q.socket <= Len(sockets)
  BY <1>8 DEF ChatInv, TalkInv
<1> HIDE DEF s
<1>13. s = panel.ws
  BY DEF s
<1> QED
  BY <1>1, <1>5, <1>6, <1>7, <1>8, <1>9, <1>10, <1>11, <1>12, <1>13, SocketMoves DEF Shows

-----------------------------------------------------------------------------
(* What the panel is told *)

LEMMA DeliverStep ==
  ASSUME ChatInv, NEW s \in DOMAIN sockets, Deliver(s)
  PROVE  ChatInv'
<1>1. PICK f : f = Head(sockets[s].down)
  OBVIOUS
<1>2. /\ sockets[s].state \in { "connecting", "open" } /\ sockets[s].down # << >> /\ f.t # "close"
      /\ panel' = OnMessage(panel, f) /\ Persist(panel')
      /\ UNCHANGED << user, sids, sends, disturbances >>
  BY <1>1 DEF Deliver
<1>3. /\ s = panel.ws /\ panel.ws # 0 /\ s = Len(sockets) /\ SocketOK(sockets[s]) /\ s \in Nat
      /\ Continues(sockets[s], s, panel.messages) /\ user # None /\ PanelOK(panel)
      /\ sockets[s].of = user /\ sockets[s].sid = panel.sid
  BY <1>2 DEF ChatInv, ShapeInv, SessionInv, TalkInv
<1>4. sockets[s].down \in Seq(DownFrame)
  BY <1>3 DEF SocketOK, SocketSet
<1>5. PICK rest : rest = Tail(sockets[s].down)
  OBVIOUS
<1>6. /\ f \in DownFrame /\ rest \in Seq(DownFrame) /\ Len(sockets[s].down) \in Nat
      /\ Len(rest) = Len(sockets[s].down) - 1
      /\ \A i \in 1..Len(rest) : rest[i] = sockets[s].down[i + 1]
      /\ f = sockets[s].down[1] /\ 1 \in DOMAIN sockets[s].down
      /\ DOMAIN sockets[s].down = 1..Len(sockets[s].down) /\ DOMAIN rest = 1..Len(rest)
  BY <1>1, <1>2, <1>4, <1>5, HeadTailProperties, EmptySeq
<1>7. PICK k : k = [sockets[s] EXCEPT !.down = rest, !.state = "open"]
  OBVIOUS
<1>8. /\ k \in SocketSet /\ k.down = rest /\ k.state = "open" /\ k.of = sockets[s].of
      /\ k.sid = sockets[s].sid /\ k.handler = sockets[s].handler /\ k.count = sockets[s].count
      /\ k.turn = sockets[s].turn /\ k.pieces = sockets[s].pieces
  BY <1>3, <1>6, <1>7 DEF SocketOK, SocketSet
<1>9. \A i \in DOMAIN rest : i + 1 \in DOMAIN sockets[s].down /\ rest[i] = sockets[s].down[i + 1]
  BY <1>6
<1>10. SocketOK(k) /\ (Dropped(k) => Dropped(sockets[s])) /\ \A q : Behind(q, sockets[s], s) => Behind(q, k, s)
  BY <1>2, <1>3, <1>8, <1>9 DEF SocketOK, Dropped, Behind
<1>11. f \in SpokenFrame => /\ f.piece.of = user /\ f.piece.sid = panel.sid /\ f.piece.socket = s
                            /\ \A q \in Heard(panel.messages) : Before(q, f.piece)
  <2>1. f \in SpokenFrame => Says(sockets[s], 1)
    BY <1>6 DEF Says
  <2> QED
    BY <1>3, <1>6, <2>1 DEF Continues
<1>12. Shows(panel', panel, IF f \in SpokenFrame THEN {f.piece} ELSE {})
  BY <1>2, <1>3, <1>6, <1>11, MessageShows
<1>13. /\ panel'.messages \in Seq(Message)
       /\ Heard(panel'.messages) \subseteq Heard(panel.messages) \cup
            (IF f \in SpokenFrame THEN {f.piece} ELSE {})
  BY <1>12 DEF Shows, PanelOK
<1>14. Continues(k, s, panel'.messages)
  BY <1>1, <1>2, <1>3, <1>5, <1>8, <1>10, <1>13, Reaches DEF PanelOK
<1>15. \A q \in Heard(panel'.messages) : q.of = user /\ q.sid = panel.sid /\ q.socket <= Len(sockets)
  BY <1>3, <1>11, <1>13 DEF ChatInv, TalkInv
<1>16. sockets' = [sockets EXCEPT ![s] = k]
  BY <1>5, <1>7 DEF Deliver
<1>17. disturbances' \in 0..MaxDisturbances /\ disturbances <= disturbances' /\ sends' \in Nat
  BY <1>2, ChatAssumption DEF ChatInv, ShapeInv, CountInv
<1> QED
  BY <1>2, <1>3, <1>8, <1>10, <1>12, <1>14, <1>15, <1>16, <1>17, SocketMoves DEF Shows

(* The panel's own socket is closed, or one it had left.                      *)
LEMMA CloseShows ==
  ASSUME NEW p, PanelOK(p), NEW s, NEW code
  PROVE  LET r == OnClose(p, s, code) IN
         /\ PanelOK(r) /\ r.ws = p.ws /\ r.sid = p.sid /\ r.persist = p.persist
         /\ Heard(r.messages) \subseteq Heard(p.messages)
         /\ p.ws # s => r.messages = p.messages /\ r.timer = p.timer
         /\ code \in NoReconnect => r.timer = p.timer
<1>1. CASE p.ws # s
  BY <1>1 DEF OnClose, Closed, PanelOK, PanelFields
<1>2. CASE p.ws = s /\ code \in NoReconnect
  <2>1. PICK q : q = [Closed(p) EXCEPT !.error = TRUE]
    OBVIOUS
  <2>2. Shows(q, p, {})
    BY <2>1 DEF Closed, Shows, PanelOK, PanelFields
  <2>3. OnClose(p, s, code) = Add(q, System)
    BY <1>2, <2>1 DEF OnClose
  <2>4. Shows(Add(q, System), p, {})
    BY <2>2, SystemShows, ShowsOn DEF Shows
  <2> QED
    BY <1>2, <2>3, <2>4 DEF Shows
<1>3. CASE p.ws = s /\ code \notin NoReconnect
  BY <1>3 DEF OnClose, Closed, PanelOK, PanelFields
<1> QED
  BY <1>1, <1>2, <1>3

LEMMA CloseEventStep ==
  ASSUME ChatInv, NEW s \in DOMAIN sockets, CloseEvent(s)
  PROVE  ChatInv'
<1>1. PICK code : code = IF sockets[s].state = "closing" THEN 1005 ELSE Head(sockets[s].down).code
  OBVIOUS
<1>2. /\ panel' = OnClose(panel, s, code) /\ Persist(panel')
      /\ UNCHANGED << user, sids, sends, disturbances >>
      /\ \/ sockets[s].state = "closing"
         \/ /\ sockets[s].state \in { "connecting", "open" }
            /\ sockets[s].down # << >> /\ Head(sockets[s].down).t = "close"
  BY <1>1 DEF CloseEvent
<1>3. /\ SocketOK(sockets[s]) /\ PanelOK(panel) /\ sockets[s].down \in Seq(DownFrame)
      /\ panel.ws = s => (panel.ws # 0 /\ sockets[s].state # "closing")
  <2>1. /\ sockets \in Seq(SocketSet) /\ SocketOK(sockets[s]) /\ PanelOK(panel)
    BY DEF ChatInv, ShapeInv
  <2>2. s # 0
    BY <2>1
  <2>3. panel.ws # 0 => sockets[panel.ws].state # "closing"
    BY DEF ChatInv, SessionInv
  <2>4. sockets[s].down \in Seq(DownFrame)
    BY <2>1 DEF SocketOK, SocketSet
  <2> QED
    BY <2>1, <2>2, <2>3, <2>4
<1>4. sockets[s].state # "closing" =>
        /\ sockets[s].handler = "ended" /\ Head(sockets[s].down) = sockets[s].down[1]
        /\ 1 \in DOMAIN sockets[s].down /\ sockets[s].down[1] \in DownFrame
  BY <1>2, <1>3, HeadTailProperties, EmptySeq DEF SocketOK
<1>5. PICK k : k = [sockets[s] EXCEPT !.state = "closed", !.down = << >>]
  OBVIOUS
<1>6. /\ k \in SocketSet /\ k.down = << >> /\ k.state = "closed" /\ k.of = sockets[s].of
      /\ k.sid = sockets[s].sid /\ k.handler = sockets[s].handler /\ k.handler = "ended"
      /\ k.turn = sockets[s].turn /\ k.pieces = sockets[s].pieces
  <2>1. << >> \in Seq(DownFrame)
    BY EmptySeq
  <2> QED
    BY <1>3, <1>4, <1>5, <2>1 DEF SocketOK, SocketSet
<1>7. SocketOK(k) /\ ~Dropped(k) /\ \A q : Behind(q, sockets[s], s) => Behind(q, k, s)
  BY <1>6 DEF SocketOK, Dropped, Behind
<1>8. /\ PanelOK(panel') /\ panel'.ws = panel.ws /\ panel'.sid = panel.sid
      /\ panel'.persist = panel.persist /\ panel'.messages \in Seq(Message)
      /\ Heard(panel'.messages) \subseteq Heard(panel.messages)
      /\ panel.ws # s => panel'.messages = panel.messages /\ panel'.timer = panel.timer
      /\ code \in NoReconnect => panel'.timer = panel.timer
  BY <1>2, <1>3, CloseShows DEF PanelOK
<1>9. panel'.timer = panel.timer \/ (s = panel.ws /\ k.state = "closed" /\ Dropped(sockets[s]))
  <2> SUFFICES ASSUME s = panel.ws, code \notin NoReconnect PROVE Dropped(sockets[s])
    BY <1>6, <1>8
  <2>1. sockets[s].state \in { "connecting", "open" } /\ code = sockets[s].down[1].code
    BY <1>1, <1>2, <1>3, <1>4
  <2>2. sockets[s].down[1].t = "close" /\ sockets[s].down[1].code = 1006
    BY <1>2, <1>3, <1>4, <2>1 DEF DownFrame, SpokenFrame, NoReconnect
  <2> QED
    BY <1>3, <1>4, <2>1, <2>2 DEF Dropped
<1>10. s = panel.ws => Continues(k, s, panel'.messages)
  <2>1. \A i \in DOMAIN k.down : FALSE
    BY <1>6
  <2> QED
    BY <1>3, <1>6, <1>7, <1>8, <2>1, Fewer DEF ChatInv, TalkInv, PanelOK
<1>11. \A q \in Heard(panel'.messages) : q.of = user /\ q.sid = panel.sid /\ q.socket <= Len(sockets)
  BY <1>8 DEF ChatInv, TalkInv
<1>12. user = None => panel'.messages = << >>
  BY <1>3, <1>8 DEF ChatInv, SessionInv
<1>13. sockets' = [sockets EXCEPT ![s] = k]
  BY <1>5 DEF CloseEvent
<1>14. disturbances' \in 0..MaxDisturbances /\ disturbances <= disturbances' /\ sends' \in Nat
  BY <1>2, ChatAssumption DEF ChatInv, ShapeInv, CountInv
<1> QED
  BY <1>2, <1>6, <1>7, <1>8, <1>9, <1>10, <1>11, <1>12, <1>13, <1>14, SocketMoves

-----------------------------------------------------------------------------
(* The handler *)

(* Only the panel's own socket still has a handler.                           *)
LEMMA Alive ==
  ASSUME ChatInv, NEW s \in DOMAIN sockets, sockets[s].handler # "ended"
  PROVE  /\ s = panel.ws /\ panel.ws # 0 /\ SocketOK(sockets[s]) /\ user # None /\ PanelOK(panel)
         /\ sockets[s].state \in { "connecting", "open" } /\ s \in Nat
         /\ Continues(sockets[s], s, panel.messages) /\ panel.messages \in Seq(Message)
<1>1. /\ sockets \in Seq(SocketSet) /\ SocketOK(sockets[s]) /\ PanelOK(panel) /\ s \in Nat /\ s # 0
  BY DEF ChatInv, ShapeInv
<1>2. sockets[s].state \notin { "closing", "closed" }
  BY <1>1 DEF SocketOK
<1>3. s = panel.ws
  BY <1>2 DEF ChatInv, SessionInv
<1> QED
  BY <1>1, <1>2, <1>3 DEF ChatInv, SessionInv, TalkInv, PanelOK, SocketOK, SocketSet

LEMMA HandlerMoves ==
  ASSUME ChatInv, NEW s \in DOMAIN sockets, sockets[s].handler # "ended",
         NEW k, SocketOK(k), sockets' = [sockets EXCEPT ![s] = k],
         k.state = sockets[s].state, k.of = sockets[s].of, k.sid = sockets[s].sid,
         Dropped(k) => Len(sockets) <= disturbances',
         Continues(k, s, panel.messages), UNCHANGED << user, panel, storage, sids, sends >>,
         disturbances' \in 0..MaxDisturbances, disturbances <= disturbances'
  PROVE  ChatInv'
<1>1. s = panel.ws /\ user # None /\ sockets[s].state \in { "connecting", "open" }
  BY Alive
<1>2. /\ PanelOK(panel') /\ panel' = panel /\ sends' \in Nat
      /\ \A q \in Heard(panel.messages) : q.of = user /\ q.sid = panel.sid /\ q.socket <= Len(sockets)
  BY DEF ChatInv, ShapeInv, TalkInv
<1> QED
  BY <1>1, <1>2, SocketMoves

(* It adds frames to what is on its way down.                                 *)
LEMMA HandlerSays ==
  ASSUME ChatInv, NEW s \in DOMAIN sockets, sockets[s].handler # "ended",
         NEW k \in SocketSet, Serve(s, k), NEW frames \in Seq(DownFrame),
         Utters(sockets[s], k, s, frames), k.state = sockets[s].state,
         k.handler # "ended" => k.count <= RateLimit,
         \A i \in DOMAIN frames :
           frames[i].t = "close" => k.handler = "ended" /\ frames[i].code # 1006
  PROVE  ChatInv'
<1> DEFINE n == Len(sockets[s].down)
<1>1. /\ SocketOK(sockets[s]) /\ sockets[s].state \in { "connecting", "open" }
      /\ Continues(sockets[s], s, panel.messages) /\ panel.messages \in Seq(Message)
  BY Alive
<1>2. sockets[s].down \in Seq(DownFrame)
  BY <1>1 DEF SocketOK, SocketSet
<1>3. /\ n \in Nat /\ Len(frames) \in Nat /\ DOMAIN sockets[s].down = 1..n
      /\ DOMAIN frames = 1..Len(frames) /\ DOMAIN k.down = 1..(n + Len(frames))
      /\ \A i \in 1..(n + Len(frames)) :
           k.down[i] = IF i <= n THEN sockets[s].down[i] ELSE frames[i - n]
  BY <1>2, ConcatProperties DEF Utters
<1> HIDE DEF n
<1>4. \A i \in DOMAIN k.down :
        \/ i \in DOMAIN sockets[s].down /\ k.down[i] = sockets[s].down[i]
        \/ i - n \in DOMAIN frames /\ k.down[i] = frames[i - n]
  BY <1>3
<1>5. \A i \in DOMAIN k.down : k.down[i].t = "close" => k.handler = "ended" /\ k.down[i].code # 1006
  <2>1. \A i \in DOMAIN sockets[s].down : sockets[s].down[i].t # "close"
    BY <1>1 DEF SocketOK
  <2> QED
    BY <1>4, <2>1
<1>6. SocketOK(k) /\ ~Dropped(k)
  BY <1>1, <1>5 DEF SocketOK, Dropped
<1>7. Continues(k, s, panel.messages)
  BY <1>1, Goes
<1>8. /\ sockets' = [sockets EXCEPT ![s] = k]
      /\ UNCHANGED << user, panel, storage, sids, sends, disturbances >>
  BY DEF Serve
<1>9. disturbances' \in 0..MaxDisturbances /\ disturbances <= disturbances'
  BY <1>8, ChatAssumption DEF ChatInv, CountInv
<1>10. k.of = sockets[s].of /\ k.sid = sockets[s].sid
  BY DEF Utters
<1>11. /\ ChatInv /\ sockets[s].handler # "ended" /\ k.state = sockets[s].state
       /\ Dropped(k) => Len(sockets) <= disturbances'
  BY <1>6
<1> QED
  BY ONLY <1>6, <1>7, <1>8, <1>9, <1>10, <1>11, HandlerMoves

(* It says why, and closes the socket.                                        *)
LEMMA HandlerEnds ==
  ASSUME ChatInv, NEW s \in DOMAIN sockets, sockets[s].handler # "ended",
         NEW next, next.of = sockets[s].of, next.sid = sockets[s].sid, next.down = sockets[s].down,
         next.state = sockets[s].state, next.turn = sockets[s].turn, next \in SocketSet,
         NEW frames \in Seq(DownFrame), Serve(s, Ended(next, frames)),
         \A i \in DOMAIN frames :
           frames[i] \notin SpokenFrame /\ (frames[i].t = "close" => frames[i].code # 1006)
  PROVE  ChatInv'
<1>1. PICK k : k = Ended(next, frames)
  OBVIOUS
<1>2. PICK down : down = sockets[s].down \o frames
  OBVIOUS
<1>3. down \in Seq(DownFrame) /\ << >> \in Seq(UpFrame)
  BY <1>2, ConcatProperties, EmptySeq DEF SocketSet
<1>4. k = [next EXCEPT !.down = down, !.handler = "ended", !.up = << >>]
  BY <1>1, <1>2 DEF Ended, Sends, SocketSet
<1>5. /\ k \in SocketSet /\ k.down = down /\ k.handler = "ended" /\ k.state = next.state
      /\ k.of = next.of /\ k.sid = next.sid /\ k.turn = next.turn
  BY ONLY <1>3, <1>4, next \in SocketSet DEF SocketSet
<1>6. /\ k.state = sockets[s].state
      /\ k.of = sockets[s].of /\ k.sid = sockets[s].sid /\ k.turn = sockets[s].turn
  BY <1>5
<1>7. Utters(sockets[s], k, s, frames)
  BY <1>2, <1>5, <1>6 DEF Utters, Behind
<1>8. \A i \in DOMAIN frames :
        frames[i].t = "close" => k.handler = "ended" /\ frames[i].code # 1006
  BY <1>5
<1>9. Serve(s, k)
  BY <1>1
<1> QED
  BY <1>5, <1>6, <1>7, <1>8, <1>9, HandlerSays

(* Frames that are no part of a reply.                                        *)
LEMMA Signal ==
  ASSUME NEW t \in { "open", "typing", "error" }, NEW code \in { 1008, 1009, 4001 }
  PROVE  /\ Frame(t) \in DownFrame /\ Frame(t).t # "close" /\ Frame(t) \notin SpokenFrame
         /\ CloseFrame(code) \in DownFrame /\ CloseFrame(code) \notin SpokenFrame
         /\ CloseFrame(code).code # 1006
BY DEF Frame, CloseFrame, DownFrame, SpokenFrame

LEMMA AcceptStep ==
  ASSUME ChatInv, NEW s \in DOMAIN sockets, NEW valid \in BOOLEAN, Accept(s, valid)
  PROVE  ChatInv'
<1>1. sockets[s].handler = "none" /\ SocketOK(sockets[s])
  BY Alive DEF Accept
<1>2. /\ sockets[s] \in SocketSet /\ sockets[s].count <= RateLimit
  BY <1>1 DEF SocketOK
<1>3. CASE valid = TRUE
  <2>1. PICK frames : frames = << Frame("open") >>
    OBVIOUS
  <2>2. PICK k : k = [Sends(sockets[s], frames) EXCEPT !.handler = "waiting"]
    OBVIOUS
  <2>3. Serve(s, k)
    BY <1>3, <2>1, <2>2 DEF Accept
  <2>4. /\ frames \in Seq(DownFrame) /\ DOMAIN frames = 1..1
        /\ \A i \in DOMAIN frames : frames[i] \notin SpokenFrame /\ frames[i].t # "close"
    <3>1. Frame("open") \in DownFrame /\ Frame("open") \notin SpokenFrame /\ Frame("open").t # "close"
      BY Signal
    <3> QED
      BY <2>1, <3>1
  <2>5. PICK down : down = sockets[s].down \o frames
    OBVIOUS
  <2>6. down \in Seq(DownFrame)
    BY <1>2, <2>4, <2>5, ConcatProperties DEF SocketSet
  <2>7. k = [sockets[s] EXCEPT !.down = down, !.handler = "waiting"]
    BY <1>2, <2>2, <2>5 DEF Sends, SocketSet
  <2>8. /\ k \in SocketSet /\ k.down = down /\ k.handler = "waiting" /\ k.state = sockets[s].state
        /\ k.of = sockets[s].of /\ k.sid = sockets[s].sid /\ k.count = sockets[s].count
        /\ k.turn = sockets[s].turn /\ k.pieces = sockets[s].pieces
    BY <1>2, <2>6, <2>7 DEF SocketSet
  <2>9. Utters(sockets[s], k, s, frames)
    BY <2>4, <2>5, <2>8 DEF Utters, Behind
  <2>10. \A i \in DOMAIN frames :
           frames[i].t = "close" => k.handler = "ended" /\ frames[i].code # 1006
    BY <2>4
  <2>11. sockets[s].handler # "ended" /\ (k.handler # "ended" => k.count <= RateLimit)
    BY <1>1, <1>2, <2>8
  <2> QED
    BY <2>3, <2>4, <2>8, <2>9, <2>10, <2>11, HandlerSays
<1>4. CASE valid = FALSE
  <2>1. PICK first, second : first = Frame("open") /\ second = CloseFrame(4001)
    OBVIOUS
  <2>2. PICK frames : frames = << first, second >>
    OBVIOUS
  <2>3. Serve(s, Ended(sockets[s], frames))
    BY <1>4, <2>1, <2>2 DEF Accept
  <2>4. /\ frames \in Seq(DownFrame) /\ DOMAIN frames = 1..2
        /\ \A i \in DOMAIN frames :
             frames[i] \notin SpokenFrame /\ (frames[i].t = "close" => frames[i].code # 1006)
    <3>1. /\ Frame("open") \in DownFrame /\ Frame("open") \notin SpokenFrame
          /\ Frame("open").t # "close"
          /\ CloseFrame(4001) \in DownFrame /\ CloseFrame(4001) \notin SpokenFrame
          /\ CloseFrame(4001).code # 1006
      BY Signal
    <3> QED
      BY <2>1, <2>2, <3>1
  <2> QED
    BY <1>1, <1>2, <2>3, <2>4, HandlerEnds
<1> QED
  BY <1>3, <1>4

LEMMA ReceiveStep ==
  ASSUME ChatInv, NEW s \in DOMAIN sockets, NEW window_passed \in BOOLEAN, Receive(s, window_passed)
  PROVE  ChatInv'
<1>1. PICK text : text = Head(sockets[s].up).t
  OBVIOUS
<1>2. PICK count : count = IF window_passed THEN 1 ELSE sockets[s].count + 1
  OBVIOUS
<1>3. PICK next : next = [sockets[s] EXCEPT !.up = Tail(@), !.count = count]
  OBVIOUS
<1>4. sockets[s].handler = "waiting" /\ sockets[s].up # << >>
  BY DEF Receive
<1>5. /\ SocketOK(sockets[s]) /\ sockets[s] \in SocketSet /\ sockets[s].count <= RateLimit
      /\ sockets[s].handler # "ended"
  BY <1>4, Alive DEF SocketOK
<1>6. text \in Text /\ Tail(sockets[s].up) \in Seq(UpFrame)
  <2>1. sockets[s].up \in Seq(UpFrame)
    BY <1>5 DEF SocketSet
  <2>2. Head(sockets[s].up) \in UpFrame /\ Tail(sockets[s].up) \in Seq(UpFrame)
    BY <1>4, <2>1, HeadTailProperties, EmptySeq
  <2> QED
    BY <1>1, <2>2 DEF UpFrame
<1>7. count \in 0..(RateLimit + 1)
  <2>1. sockets[s].count \in Nat /\ RateLimit \in Nat
    BY <1>5, ChatAssumption DEF SocketSet
  <2> QED
    BY <1>2, <1>5, <2>1
<1>8. PICK up : up = Tail(sockets[s].up)
  OBVIOUS
<1>9. next = [sockets[s] EXCEPT !.up = up, !.count = count]
  BY <1>3, <1>8
<1>10. /\ next \in SocketSet /\ next.of = sockets[s].of /\ next.sid = sockets[s].sid
       /\ next.down = sockets[s].down /\ next.state = sockets[s].state
       /\ next.turn = sockets[s].turn /\ next.handler = "waiting" /\ next.count = count
       /\ next.pieces = sockets[s].pieces
  BY <1>4, <1>5, <1>6, <1>7, <1>8, <1>9 DEF SocketSet
<1>11. ASSUME NEW code \in { 1008, 1009 }, Serve(s, Ended(next, << Frame("error"), CloseFrame(code) >>))
       PROVE  ChatInv'
  <2>1. PICK first, second : first = Frame("error") /\ second = CloseFrame(code)
    OBVIOUS
  <2>2. PICK frames : frames = << first, second >>
    OBVIOUS
  <2>3. /\ first \in DownFrame /\ first \notin SpokenFrame /\ first.t # "close"
        /\ second \in DownFrame /\ second \notin SpokenFrame /\ second.code # 1006
    BY <2>1, Signal
  <2>4. /\ frames \in Seq(DownFrame)
        /\ \A i \in DOMAIN frames :
             frames[i] \notin SpokenFrame /\ (frames[i].t = "close" => frames[i].code # 1006)
    BY <2>2, <2>3
  <2>5. Serve(s, Ended(next, frames))
    BY <1>11, <2>1, <2>2
  <2> QED
    BY <1>5, <1>10, <2>4, <2>5, HandlerEnds
<1>12. ASSUME count <= RateLimit, Serve(s, next)
       PROVE  ChatInv'
  <2>1. PICK frames \in Seq(DownFrame) : frames = << >>
    BY EmptySeq
  <2>2. sockets[s].down \in Seq(DownFrame) /\ (\A i \in DOMAIN frames : FALSE)
    BY <1>5, <2>1 DEF SocketSet
  <2>3. next.down = sockets[s].down \o frames
    BY <1>10, <2>1, <2>2, ConcatEmptySeq
  <2>4. Utters(sockets[s], next, s, frames)
    BY <1>4, <1>10, <2>2, <2>3 DEF Utters, Behind
  <2> QED
    BY <1>5, <1>10, <1>12, <2>2, <2>4, HandlerSays
<1>13. ASSUME count <= RateLimit,
              Serve(s, [Sends(next, << Frame("typing") >>) EXCEPT !.handler = "turn",
                                                                  !.turn = @ + 1, !.pieces = 0])
       PROVE  ChatInv'
  <2>1. PICK frames : frames = << Frame("typing") >>
    OBVIOUS
  <2>2. /\ frames \in Seq(DownFrame)
        /\ \A i \in DOMAIN frames : frames[i] \notin SpokenFrame /\ frames[i].t # "close"
    <3>1. /\ Frame("typing") \in DownFrame /\ Frame("typing") \notin SpokenFrame
          /\ Frame("typing").t # "close"
      BY Signal
    <3> QED
      BY <2>1, <3>1
  <2>3. PICK down : down = sockets[s].down \o frames
    OBVIOUS
  <2>4. down \in Seq(DownFrame)
    BY <1>5, <2>2, <2>3, ConcatProperties DEF SocketSet
  <2>5. PICK turn \in Nat : turn = next.turn + 1
    BY <1>10 DEF SocketSet
  <2>6. PICK k : k = [next EXCEPT !.down = down, !.handler = "turn", !.turn = turn, !.pieces = 0]
    OBVIOUS
  <2>7. Serve(s, k)
    <3>1. k = [Sends(next, frames) EXCEPT !.handler = "turn", !.turn = @ + 1, !.pieces = 0]
      BY <1>10, <2>3, <2>5, <2>6 DEF Sends, SocketSet
    <3> QED
      BY <1>13, <2>1, <3>1
  <2>8. /\ k \in SocketSet /\ k.down = down /\ k.handler = "turn" /\ k.state = next.state
        /\ k.of = next.of /\ k.sid = next.sid /\ k.count = count /\ k.turn = turn
    <3>1. 0 \in 0..MaxPieces
      BY ChatAssumption
    <3> QED
      BY ONLY <1>10, <2>4, <2>5, <2>6, <3>1 DEF SocketSet
  <2>9. \A q \in PieceSet : Behind(q, sockets[s], s) => Behind(q, k, s)
    <3>1. k.turn = sockets[s].turn + 1 /\ sockets[s].turn \in Nat
      BY <1>5, <1>10, <2>5, <2>8 DEF SocketSet
    <3>2. \A q \in PieceSet : q.turn \in Nat
      BY DEF PieceSet
    <3> QED
      BY <3>1, <3>2 DEF Behind
  <2>10. Utters(sockets[s], k, s, frames)
    BY <1>10, <2>2, <2>3, <2>8, <2>9 DEF Utters
  <2> QED
    BY <1>5, <1>10, <1>13, <2>2, <2>7, <2>8, <2>10, HandlerSays
<1>14. count \in Nat /\ RateLimit \in Nat
  BY <1>7, ChatAssumption
<1>15. CASE text = "large"
  <2>1. Serve(s, Ended(next, << Frame("error"), CloseFrame(1009) >>))
    BY <1>1, <1>2, <1>3, <1>15 DEF Receive
  <2> QED
    BY <1>11, <2>1
<1>16. CASE text \in { "text", "controls" } /\ count > RateLimit
  <2>1. Serve(s, Ended(next, << Frame("error"), CloseFrame(1008) >>))
    BY <1>1, <1>2, <1>3, <1>14, <1>16 DEF Receive
  <2> QED
    BY <1>11, <2>1
<1>17. CASE text = "controls" /\ count <= RateLimit
  <2>1. Serve(s, next)
    BY <1>1, <1>2, <1>3, <1>14, <1>17 DEF Receive
  <2> QED
    BY <1>12, <1>17, <2>1
<1>18. CASE text = "text" /\ count <= RateLimit
  <2>1. Serve(s, [Sends(next, << Frame("typing") >>) EXCEPT !.handler = "turn",
                                                             !.turn = @ + 1, !.pieces = 0])
    BY <1>1, <1>2, <1>3, <1>14, <1>18 DEF Receive
  <2> QED
    BY <1>13, <1>18, <2>1
<1> QED
  BY <1>6, <1>14, <1>15, <1>16, <1>17, <1>18 DEF Text

(* A piece of the reply is sent, the next of its turn.                        *)
Speaks(k, k2, s, frame) ==
  /\ frame \in SpokenFrame /\ frame.piece.of = k.of /\ frame.piece.sid = k.sid
  /\ frame.piece.socket = s /\ frame.piece.turn = k.turn /\ frame.piece.n > k.pieces
  /\ k2.down = k.down \o << frame >> /\ k2.state = k.state /\ k2.of = k.of /\ k2.sid = k.sid
  /\ k2.count = k.count /\ k2.turn = k.turn /\ k2.handler # "ended"
  /\ k2.handler = "turn" => frame.piece.n <= k2.pieces

LEMMA PieceGoes ==
  ASSUME ChatInv, NEW s \in DOMAIN sockets, sockets[s].handler = "turn",
         NEW frame, NEW k \in SocketSet, Speaks(sockets[s], k, s, frame), Serve(s, k)
  PROVE  ChatInv'
<1>1. /\ sockets[s] \in SocketSet /\ sockets[s].count <= RateLimit /\ s \in Nat
      /\ sockets[s].handler # "ended"
  BY Alive DEF SocketOK
<1>2. PICK frames : frames = << frame >>
  OBVIOUS
<1>3. PICK piece : piece = frame.piece
  OBVIOUS
<1>4. /\ frame \in SpokenFrame /\ frame \in DownFrame /\ frame.t # "close" /\ piece \in PieceSet
      /\ piece.of = sockets[s].of /\ piece.sid = sockets[s].sid /\ piece.socket = s
      /\ piece.turn = sockets[s].turn /\ piece.n > sockets[s].pieces
  BY <1>3 DEF Speaks, SpokenFrame, DownFrame
<1>5. /\ k.down = sockets[s].down \o frames /\ k.state = sockets[s].state
      /\ k.of = sockets[s].of /\ k.sid = sockets[s].sid
      /\ k.count = sockets[s].count /\ k.turn = sockets[s].turn /\ k.handler # "ended"
      /\ k.handler = "turn" => piece.n <= k.pieces
  BY <1>2, <1>3 DEF Speaks
<1>6. frames \in Seq(DownFrame) /\ \A i \in DOMAIN frames : i = 1 /\ frames[i] = frame
  BY <1>2, <1>4
<1>7. /\ sockets[s].pieces \in Nat /\ k.pieces \in Nat
      /\ \A q \in PieceSet : q.n \in Nat
  BY <1>1, ChatAssumption DEF SocketSet, PieceSet
<1>8. ASSUME NEW q \in PieceSet, Behind(q, sockets[s], s)
      PROVE  Behind(q, k, s) /\ Before(q, piece)
  <2>1. \/ q.socket < s
        \/ q.socket = s /\ q.turn < sockets[s].turn
        \/ q.socket = s /\ q.turn = sockets[s].turn /\ q.n <= sockets[s].pieces
    BY <1>8 DEF Behind
  <2>2. q.n <= sockets[s].pieces => q.n < piece.n /\ (k.handler = "turn" => q.n <= k.pieces)
    BY <1>4, <1>5, <1>7
  <2> QED
    BY <1>4, <1>5, <2>1, <2>2 DEF Behind, Before
<1>9. Behind(piece, k, s)
  BY <1>4, <1>5 DEF Behind
<1>10. \A i \in DOMAIN frames : frames[i] \in SpokenFrame =>
         /\ i = 1 /\ frames[i].piece.of = sockets[s].of /\ frames[i].piece.sid = sockets[s].sid
         /\ frames[i].piece.socket = s /\ Behind(frames[i].piece, k, s)
         /\ \A q \in PieceSet : Behind(q, sockets[s], s) => Before(q, frames[i].piece)
  BY <1>3, <1>4, <1>6, <1>8, <1>9
<1>11. Utters(sockets[s], k, s, frames)
  BY <1>5, <1>8, <1>10 DEF Utters
<1>12. /\ k.handler # "ended" => k.count <= RateLimit
       /\ \A i \in DOMAIN frames :
            frames[i].t = "close" => k.handler = "ended" /\ frames[i].code # 1006
       /\ ChatInv /\ Serve(s, k) /\ k \in SocketSet
  BY <1>1, <1>4, <1>5, <1>6
<1> QED
  BY ONLY <1>1, <1>5, <1>6, <1>11, <1>12, HandlerSays

LEMMA PieceIs ==
  ASSUME ChatInv, NEW s \in DOMAIN sockets, sockets[s].handler = "turn", NEW n \in Nat,
         NEW t \in { "token", "progress", "response" }, NEW code \in { 0, 200, 500 },
         NEW frame, frame = [t |-> t, piece |-> Piece(s, n), code |-> code]
  PROVE  /\ frame \in SpokenFrame /\ frame \in DownFrame /\ frame.piece.of = sockets[s].of
         /\ frame.piece.sid = sockets[s].sid /\ frame.piece.socket = s
         /\ frame.piece.turn = sockets[s].turn /\ frame.piece.n = n
<1>1. sockets[s] \in SocketSet /\ s \in Nat
  BY Alive DEF SocketOK
<1>2. PICK piece : piece = Piece(s, n)
  OBVIOUS
<1>3. /\ piece \in PieceSet /\ piece.of = sockets[s].of /\ piece.sid = sockets[s].sid
      /\ piece.socket = s /\ piece.turn = sockets[s].turn /\ piece.n = n
  BY <1>1, <1>2 DEF Piece, PieceSet, SocketSet
<1> QED
  BY <1>2, <1>3 DEF SpokenFrame, DownFrame

LEMMA StreamStep ==
  ASSUME ChatInv, NEW s \in DOMAIN sockets, NEW t \in { "token", "progress" }, Stream(s, t)
  PROVE  ChatInv'
<1>1. /\ sockets[s].handler = "turn" /\ sockets[s] \in SocketSet /\ sockets[s].pieces < MaxPieces
  BY Alive DEF Stream, SocketOK
<1>2. PICK n : n = sockets[s].pieces + 1
  OBVIOUS
<1>3. n \in Nat /\ n > sockets[s].pieces /\ n \in 0..MaxPieces
  <2>1. sockets[s].pieces \in Nat /\ MaxPieces \in Nat
    BY <1>1, ChatAssumption DEF SocketSet
  <2> QED
    BY <1>1, <1>2, <2>1
<1>4. PICK frame : frame = [t |-> t, piece |-> Piece(s, n), code |-> 0]
  OBVIOUS
<1>5. /\ frame \in SpokenFrame /\ frame \in DownFrame /\ frame.piece.of = sockets[s].of
      /\ frame.piece.sid = sockets[s].sid /\ frame.piece.socket = s
      /\ frame.piece.turn = sockets[s].turn /\ frame.piece.n = n
  <2>1. t \in { "token", "progress", "response" } /\ 0 \in { 0, 200, 500 }
    OBVIOUS
  <2> QED
    BY <1>1, <1>3, <1>4, <2>1, PieceIs
<1>6. PICK down : down = sockets[s].down \o << frame >>
  OBVIOUS
<1>7. PICK k : k = [sockets[s] EXCEPT !.down = down, !.pieces = n]
  OBVIOUS
<1>8. Serve(s, k)
  <2>1. k = [Sends(sockets[s], << frame >>) EXCEPT !.pieces = n]
    BY <1>1, <1>6, <1>7 DEF Sends, SocketSet
  <2> QED
    BY <1>2, <1>4, <2>1 DEF Stream
<1>9. /\ k \in SocketSet /\ k.down = down /\ k.handler = "turn" /\ k.state = sockets[s].state
      /\ k.of = sockets[s].of /\ k.sid = sockets[s].sid /\ k.count = sockets[s].count
      /\ k.turn = sockets[s].turn /\ k.pieces = n
  <2>1. down \in Seq(DownFrame)
    BY <1>1, <1>5, <1>6, ConcatProperties DEF SocketSet
  <2> QED
    BY <1>1, <1>3, <1>7, <2>1 DEF SocketSet
<1>10. Speaks(sockets[s], k, s, frame)
  BY <1>3, <1>5, <1>6, <1>9 DEF Speaks
<1> QED
  BY <1>1, <1>8, <1>9, <1>10, PieceGoes

LEMMA FinishStep ==
  ASSUME ChatInv, NEW s \in DOMAIN sockets, NEW code \in { 200, 500 }, Finish(s, code)
  PROVE  ChatInv'
<1>1. /\ sockets[s].handler = "turn" /\ sockets[s] \in SocketSet
  BY Alive DEF Finish, SocketOK
<1>2. PICK n : n = MaxPieces + 1
  OBVIOUS
<1>3. n \in Nat /\ n > sockets[s].pieces
  <2>1. sockets[s].pieces \in 0..MaxPieces /\ MaxPieces \in Nat
    BY <1>1, ChatAssumption DEF SocketSet
  <2> QED
    BY <1>2, <2>1
<1>4. PICK t : t = "response"
  OBVIOUS
<1> DEFINE frame == [t |-> t, piece |-> Piece(s, n), code |-> code]
<1>5. frame = [t |-> t, piece |-> Piece(s, n), code |-> code]
  OBVIOUS
<1> HIDE DEF frame
<1>6. /\ frame \in SpokenFrame /\ frame \in DownFrame /\ frame.piece.of = sockets[s].of
      /\ frame.piece.sid = sockets[s].sid /\ frame.piece.socket = s
      /\ frame.piece.turn = sockets[s].turn /\ frame.piece.n = n
  <2>1. t \in { "token", "progress", "response" } /\ code \in { 0, 200, 500 }
    BY <1>4
  <2> QED
    BY <1>1, <1>3, <1>5, <2>1, PieceIs
<1>7. PICK down : down = sockets[s].down \o << frame >>
  OBVIOUS
<1>8. PICK k : k = [sockets[s] EXCEPT !.down = down, !.handler = "waiting"]
  OBVIOUS
<1>9. Serve(s, k)
  <2>1. k = [Sends(sockets[s], << frame >>) EXCEPT !.handler = "waiting"]
    BY <1>1, <1>7, <1>8 DEF Sends, SocketSet
  <2> QED
    BY <1>2, <1>4, <1>5, <2>1 DEF Finish
<1>10. /\ k \in SocketSet /\ k.down = down /\ k.handler = "waiting" /\ k.state = sockets[s].state
       /\ k.of = sockets[s].of /\ k.sid = sockets[s].sid /\ k.count = sockets[s].count
       /\ k.turn = sockets[s].turn
  <2>1. down \in Seq(DownFrame)
    BY <1>1, <1>6, <1>7, ConcatProperties DEF SocketSet
  <2> QED
    BY <1>1, <1>8, <2>1 DEF SocketSet
<1>11. Speaks(sockets[s], k, s, frame)
  BY <1>3, <1>6, <1>7, <1>10 DEF Speaks
<1> QED
  BY <1>1, <1>9, <1>10, <1>11, PieceGoes

(* What was on its way arrives up to some frame, and then the end.            *)
LEMMA DropStep ==
  ASSUME ChatInv, NEW s \in DOMAIN sockets, Drop(s)
  PROVE  ChatInv'
<1>1. /\ sockets[s].handler # "ended" /\ disturbances < MaxDisturbances
      /\ disturbances' = disturbances + 1 /\ UNCHANGED << user, panel, storage, sids, sends >>
  BY DEF Drop, Disturb
<1>2. PICK n \in 0..Len(sockets[s].down) :
        sockets' = [sockets EXCEPT ![s].down = Append(SubSeq(@, 1, n), CloseFrame(1006)),
                                   ![s].up = << >>, ![s].handler = "ended"]
  BY DEF Drop
<1>3. /\ SocketOK(sockets[s]) /\ sockets[s] \in SocketSet /\ sockets[s].down \in Seq(DownFrame)
      /\ sockets[s].state \in { "connecting", "open" }
      /\ Continues(sockets[s], s, panel.messages) /\ panel.messages \in Seq(Message)
  BY <1>1, Alive DEF SocketOK, SocketSet
<1>4. PICK last : last = CloseFrame(1006)
  OBVIOUS
<1>5. last \in DownFrame /\ last \notin SpokenFrame
  BY <1>4 DEF CloseFrame, DownFrame, SpokenFrame
<1>6. PICK kept : kept = SubSeq(sockets[s].down, 1, n)
  OBVIOUS
<1>7. /\ kept \in Seq(DownFrame) /\ Len(kept) = n /\ n \in Nat
      /\ \A i \in 1..n : kept[i] = sockets[s].down[i] /\ i \in DOMAIN sockets[s].down
  BY <1>3, <1>6, SubSeqProperties
<1>8. PICK down : down = Append(kept, last)
  OBVIOUS
<1>9. /\ down \in Seq(DownFrame) /\ DOMAIN down = 1..(n + 1) /\ down[n + 1] = last
      /\ \A i \in 1..n : down[i] = kept[i]
  BY <1>5, <1>7, <1>8, AppendProperties
<1>10. PICK up \in Seq(UpFrame) : up = << >>
  BY EmptySeq
<1>11. PICK k : k = [sockets[s] EXCEPT !.down = down, !.up = up, !.handler = "ended"]
  OBVIOUS
<1>12. sockets' = [sockets EXCEPT ![s] = k]
  <2>1. sockets' = [sockets EXCEPT ![s].down = down, ![s].up = up, ![s].handler = "ended"]
    BY ONLY <1>2, <1>4, <1>6, <1>8, <1>10
  <2> QED
    BY ONLY <1>11, <2>1
<1>13. /\ k \in SocketSet /\ k.down = down /\ k.handler = "ended" /\ k.state = sockets[s].state
       /\ k.of = sockets[s].of /\ k.sid = sockets[s].sid /\ k.turn = sockets[s].turn
  BY <1>3, <1>9, <1>11 DEF SocketSet
<1>14. SocketOK(k)
  BY <1>3, <1>13 DEF SocketOK
<1>15. \A q \in PieceSet : Behind(q, sockets[s], s) => Behind(q, k, s)
  BY <1>13 DEF Behind
<1>16. \A i \in DOMAIN k.down : Says(k, i) =>
         i \in DOMAIN sockets[s].down /\ Says(sockets[s], i) /\ k.down[i] = sockets[s].down[i]
  <2>1. \A i \in DOMAIN down : i \in 1..n \/ i = n + 1
    BY <1>7, <1>9
  <2> QED
    BY <1>5, <1>7, <1>9, <1>13, <2>1 DEF Says
<1>17. Continues(k, s, panel.messages)
  BY <1>3, <1>13, <1>15, <1>16, Fewer
<1>18. /\ Len(sockets) <= disturbances' /\ disturbances' \in 0..MaxDisturbances
       /\ disturbances <= disturbances'
  <2>1. disturbances \in 0..MaxDisturbances /\ Len(sockets) <= disturbances + 1
    BY DEF ChatInv, CountInv
  <2> QED
    BY <1>1, <2>1, ChatAssumption
<1> QED
  BY <1>1, <1>12, <1>13, <1>14, <1>17, <1>18, HandlerMoves

-----------------------------------------------------------------------------
(* The invariant *)

LEMMA StutterChat ==
  ASSUME ChatInv, UNCHANGED vars
  PROVE  ChatInv'
<1>1. /\ user' = user /\ panel' = panel /\ storage' = storage /\ sockets' = sockets
      /\ sids' = sids /\ sends' = sends /\ disturbances' = disturbances
  BY DEF vars
<1> QED
  BY <1>1 DEF ChatInv, ShapeInv, SessionInv, TalkInv, CountInv

LEMMA NextChat == ChatInv /\ [Next]_vars => ChatInv'
<1> SUFFICES ASSUME ChatInv, [Next]_vars PROVE ChatInv'
  OBVIOUS
<1>1. ASSUME NEW u \in Users, LogIn(u) PROVE ChatInv'
  BY <1>1, LogInStep
<1>2. CASE LogOut
  BY <1>2, LogOutStep
<1>3. CASE ClearConversation
  BY <1>3, ClearStep
<1>4. CASE Reload
  BY <1>4, ReloadStep
<1>5. ASSUME NEW text \in Text, Send(text) PROVE ChatInv'
  BY <1>5, SendStep
<1>6. CASE Reconnect
  BY <1>6, ReconnectStep
<1>7. ASSUME NEW s \in DOMAIN sockets, Deliver(s) PROVE ChatInv'
  BY <1>7, DeliverStep
<1>8. ASSUME NEW s \in DOMAIN sockets, CloseEvent(s) PROVE ChatInv'
  BY <1>8, CloseEventStep
<1>9. ASSUME NEW s \in DOMAIN sockets, HandlerStep(s) PROVE ChatInv'
  BY <1>9, AcceptStep, ReceiveStep, StreamStep, FinishStep DEF HandlerStep
<1>10. ASSUME NEW s \in DOMAIN sockets, Drop(s) PROVE ChatInv'
  BY <1>10, DropStep
<1>11. CASE UNCHANGED vars
  BY <1>11, StutterChat
<1> QED
  BY <1>1, <1>2, <1>3, <1>4, <1>5, <1>6, <1>7, <1>8, <1>9, <1>10, <1>11 DEF Next

(* The panel's socket is the only one alive; what is on its way continues the *)
(* transcript, which is of the student and the session the panel is in; so is *)
(* what sessionStorage would give back; and every socket after the first was  *)
(* paid for with a disturbance.                                               *)
THEOREM ChatInvariant == Spec => []ChatInv
BY InitChat, NextChat, PTL DEF Spec

(* The bounds on sockets, counters and identities hold for any parameters,    *)
(* and the transcript is stored under nobody but the student logged in.       *)
THEOREM TypeCorrect == Spec => []TypeOK
<1>1. ChatInv => TypeOK
  <2> SUFFICES ASSUME ChatInv PROVE TypeOK
    OBVIOUS
  <2>1. /\ user \in Users \cup {None} /\ sockets \in Seq(SocketSet) /\ panel.sid \in 0..sids
        /\ panel.ws \in { 0, Len(sockets) } /\ panel.persist \in { user, None }
        /\ disturbances \in 0..MaxDisturbances /\ Len(sockets) <= disturbances + 1
    BY DEF ChatInv, ShapeInv, SessionInv, CountInv
  <2>2. Len(sockets) \in {0} \cup SocketIds
    BY <2>1, ChatAssumption DEF SocketIds
  <2>3. panel.ws \in 0..Len(sockets)
    BY <2>1
  <2>4. \A s \in DOMAIN sockets : sockets[s] \in SocketSet
    BY <2>1
  <2>5. \A k \in SocketSet :
          /\ k.state \in { "connecting", "open", "closing", "closed" }
          /\ k.handler \in { "none", "waiting", "turn", "ended" }
          /\ k.count \in 0..(RateLimit + 1) /\ k.pieces \in 0..MaxPieces
    BY DEF SocketSet
  <2> QED
    BY <2>1, <2>2, <2>3, <2>4, <2>5 DEF TypeOK
<1> QED
  BY <1>1, ChatInvariant, PTL

(* What the panel shows was all said to the student who is logged in, in the  *)
(* session the panel is in, each piece once and in the order it was sent,     *)
(* whatever was cleared, logged out, reloaded, dropped or delivered late.     *)
THEOREM TranscriptsAreFaithful == Spec => []TranscriptFaithful
<1>1. ChatInv => TranscriptFaithful
  <2> SUFFICES ASSUME ChatInv PROVE TranscriptFaithful
    OBVIOUS
  <2>1. /\ InOrder(panel.messages) /\ (user = None => panel.messages = << >>)
        /\ \A q \in Heard(panel.messages) : q.of = user /\ q.sid = panel.sid
    BY DEF ChatInv, ShapeInv, PanelOK, SessionInv, TalkInv
  <2>2. \A i \in DOMAIN panel.messages : \A m \in DOMAIN Pieces(panel.messages[i]) :
          Pieces(panel.messages[i])[m].of = user /\ Pieces(panel.messages[i])[m].sid = panel.sid
    BY <2>1, HeardIs
  <2> QED
    BY <2>1, <2>2 DEF TranscriptFaithful, InOrder
<1> QED
  BY <1>1, ChatInvariant, PTL

=============================================================================
