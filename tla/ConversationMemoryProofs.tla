---------------------- MODULE ConversationMemoryProofs ----------------------
EXTENDS ConversationMemory, SequenceTheorems, TLAPS

(* LRANGE -n -1 and LTRIM -n -1 keep the last n elements, or all of them.  *)
LEMMA LastNProperties ==
  ASSUME NEW S, NEW s \in Seq(S), NEW n \in Nat
  PROVE  /\ LastN(s, n) \in Seq(S)
         /\ Len(LastN(s, n)) = IF Len(s) > n THEN n ELSE Len(s)
         /\ \A i \in 1 .. Len(LastN(s, n)) :
              LastN(s, n)[i] = s[Len(s) - Len(LastN(s, n)) + i]
<1> DEFINE m == IF Len(s) > n THEN Len(s) - n + 1 ELSE 1
<1>1. Len(s) \in Nat /\ m \in Int /\ m >= 1
  BY LenProperties
<1>2. \A i \in m .. Len(s) : s[i] \in S
  BY <1>1, ElementOfSeq
<1>3. /\ SubSeq(s, m, Len(s)) \in Seq(S)
      /\ Len(SubSeq(s, m, Len(s))) = IF m <= Len(s) THEN Len(s) - m + 1 ELSE 0
      /\ \A i \in 1 .. Len(s) - m + 1 : SubSeq(s, m, Len(s))[i] = s[m + i - 1]
  BY <1>1, <1>2, SubSeqProperties
<1>4. LastN(s, n) = SubSeq(s, m, Len(s))
  BY DEF LastN
<1> HIDE DEF m
<1>5. Len(LastN(s, n)) = IF Len(s) > n THEN n ELSE Len(s)
  <2>1. CASE Len(s) > n
    <3>1. m = Len(s) - n + 1
      BY <2>1 DEF m
    <3>2. CASE n = 0
      BY <1>1, <1>3, <1>4, <2>1, <3>1, <3>2
    <3>3. CASE n > 0
      BY <1>1, <1>3, <1>4, <2>1, <3>1, <3>3
    <3>4. QED
      BY <3>2, <3>3
  <2>2. CASE ~ (Len(s) > n)
    <3>1. m = 1
      BY <2>2 DEF m
    <3>2. QED
      BY <1>1, <1>3, <1>4, <2>2, <3>1
  <2>3. QED
    BY <2>1, <2>2
<1>6. ASSUME NEW i \in 1 .. Len(LastN(s, n))
      PROVE  LastN(s, n)[i] = s[Len(s) - Len(LastN(s, n)) + i]
  <2>1. i \in 1 .. Len(s) - m + 1
    BY <1>1, <1>5 DEF m
  <2>2. m + i - 1 = Len(s) - Len(LastN(s, n)) + i
    BY <1>1, <1>5, <2>1 DEF m
  <2>3. QED
    BY <1>3, <1>4, <2>1, <2>2
<1>7. QED
  BY <1>3, <1>4, <1>5, <1>6

(* A turn appends two messages of its own. *)
LEMMA PairType ==
  ASSUME NEW n \in Turns
  PROVE  /\ Pair(n) \in Seq(Message)
         /\ Len(Pair(n)) = 2
BY DEF Pair, Message, Role

(* So a list it is appended to grows by two, its old entries unchanged. *)
LEMMA PairConcat ==
  ASSUME NEW s \in Seq(Message), NEW n \in Turns
  PROVE  /\ s \o Pair(n) \in Seq(Message)
         /\ Len(s \o Pair(n)) = Len(s) + 2
         /\ \A i \in 1 .. Len(s) + 2 :
              (s \o Pair(n))[i] = IF i <= Len(s) THEN s[i] ELSE Pair(n)[i - Len(s)]
<1>1. Pair(n) \in Seq(Message) /\ Len(Pair(n)) = 2
  BY PairType
<1>2. /\ s \o Pair(n) \in Seq(Message)
      /\ Len(s \o Pair(n)) = Len(s) + Len(Pair(n))
      /\ \A i \in 1 .. Len(s) + Len(Pair(n)) :
           (s \o Pair(n))[i] = IF i <= Len(s) THEN s[i] ELSE Pair(n)[i - Len(s)]
  BY <1>1, ConcatProperties
<1>3. QED
  BY <1>1, <1>2

-----------------------------------------------------------------------------
(* Type correctness.                                                       *)

(* A turn's snapshot and the trimmed list are made of messages. *)
LEMMA SnapshotType ==
  ASSUME NEW s \in Seq(Message)
  PROVE  /\ Range(s) \in SUBSET Message
         /\ LastN(s, MaxRecent) \in Seq(Message)
         /\ LastN(s, Keep) \in Seq(Message)
<1>1. Range(s) \in SUBSET Message
  BY LenProperties, ElementOfSeq DEF Range
<1>2. QED
  BY <1>1, LastNProperties, MemoryAssumption

LEMMA InitType == Init => TypeOK
<1> SUFFICES ASSUME Init PROVE TypeOK
  OBVIOUS
<1>1. << >> \in Seq(Message) /\ Len(<< >>) = 0
  BY EmptySeq
<1> QED
  BY <1>1, MemoryAssumption DEF Init, TypeOK, PC

LEMMA AppendType ==
  ASSUME TypeOK, NEW n \in Turns, AppendPair(n)
  PROVE  /\ buffer' \in Seq(Message)
         /\ log' \in Seq(Message)
         /\ Len(log') = Len(log) + 2
         /\ msgTTL' \in 0 .. TTL
         /\ expired \in 0 .. Len(log')
<1>1. /\ buffer \in Seq(Message)
      /\ log \in Seq(Message)
      /\ expired \in 0 .. Len(log)
  BY DEF TypeOK
<1>2. /\ buffer' = buffer \o Pair(n)
      /\ log' = log \o Pair(n)
      /\ msgTTL' = TTL
  BY DEF AppendPair
<1>3. /\ buffer' \in Seq(Message)
      /\ log' \in Seq(Message)
      /\ Len(log') = Len(log) + 2
  BY <1>1, <1>2, PairConcat
<1>4. Len(log) \in Nat
  BY <1>1, LenProperties
<1> QED
  BY <1>1, <1>2, <1>3, <1>4, MemoryAssumption

LEMMA NextType == TypeOK /\ [Next]_vars => TypeOK'
<1> SUFFICES ASSUME TypeOK, [Next]_vars PROVE TypeOK'
  OBVIOUS
<1> USE MemoryAssumption
<1>1. Len(buffer) \in Nat /\ Len(log) \in Nat
  BY LenProperties DEF TypeOK
<1>2. ASSUME NEW c \in Conns, Connect(c) PROVE TypeOK'
  BY <1>2 DEF TypeOK, Connect, Goto, PC, keys, counters
<1>3. ASSUME NEW c \in Conns, Receive(c) PROVE TypeOK'
  BY <1>3 DEF TypeOK, Receive, Goto, PC, keys, Turns
<1>4. ASSUME NEW c \in Conns, AbandonTurn(c) PROVE TypeOK'
  BY <1>4 DEF TypeOK, AbandonTurn, Goto, PC, keys, counters
<1>5. ASSUME NEW c \in Conns, LoadHistory(c) PROVE TypeOK'
  <2>1. LastN(buffer, MaxRecent) \in Seq(Message)
    BY SnapshotType DEF TypeOK
  <2>2. QED
    BY <1>1, <1>5, <2>1 DEF TypeOK, LoadHistory, Goto, PC, keys, counters
<1>6. ASSUME NEW c \in Conns, LoadHistoryFails(c) PROVE TypeOK'
  <2>1. << >> \in Seq(Message)
    BY EmptySeq
  <2>2. QED
    BY <1>1, <1>6, <2>1 DEF TypeOK, LoadHistoryFails, Goto, Fault, PC, keys
<1>7. ASSUME NEW c \in Conns, LoadSummary(c) PROVE TypeOK'
  BY <1>7 DEF TypeOK, LoadSummary, Goto, PC, keys, counters
<1>8. ASSUME NEW c \in Conns, LoadSummaryFails(c) PROVE TypeOK'
  BY <1>8 DEF TypeOK, LoadSummaryFails, Goto, Fault, PC, keys
<1>9. ASSUME NEW c \in Conns, SaveTurn(c) PROVE TypeOK'
  <2>1. turn[c] \in Turns
    BY <1>9 DEF TypeOK, SaveTurn, Goto
  <2>2. AppendPair(turn[c])
    BY <1>9 DEF SaveTurn
  <2>3. QED
    BY <1>9, <2>1, <2>2, AppendType DEF TypeOK, SaveTurn, Goto, PC, counters
<1>10. ASSUME NEW c \in Conns, SaveTurnFails(c) PROVE TypeOK'
  <2>1. turn[c] \in Turns
    BY <1>10 DEF TypeOK, SaveTurnFails, Goto
  <2>2. CASE AppendPair(turn[c])
    BY <1>10, <2>1, <2>2, AppendType DEF TypeOK, SaveTurnFails, Goto, Fault, PC
  <2>3. CASE UNCHANGED << buffer, log, msgTTL >>
    BY <1>10, <2>3 DEF TypeOK, SaveTurnFails, Goto, Fault, PC
  <2>4. QED
    BY <1>10, <2>2, <2>3 DEF SaveTurnFails
<1>11. ASSUME NEW c \in Conns, CheckLength(c) PROVE TypeOK'
  BY <1>1, <1>11 DEF TypeOK, CheckLength, Goto, PC, keys, counters
<1>12. ASSUME NEW c \in Conns, CheckLengthFails(c) PROVE TypeOK'
  BY <1>12 DEF TypeOK, CheckLengthFails, Goto, Fault, PC, keys
<1>13. ASSUME NEW c \in Conns, Respond(c) PROVE TypeOK'
  <2>1. [turn |-> turn[c], covers |-> prior[c] \cup Range(history[c])] \in Task
    <3>1. turn[c] \in Turns
      BY <1>13 DEF TypeOK, Respond, Goto
    <3>2. Range(history[c]) \in SUBSET Message
      BY SnapshotType DEF TypeOK
    <3>3. QED
      BY <3>1, <3>2 DEF TypeOK, Task
  <2>2. tasks' \in SUBSET Task
    BY <1>13, <2>1 DEF TypeOK, Respond
  <2>3. QED
    BY <1>13, <2>2 DEF TypeOK, Respond, Goto, PC, keys, counters
<1>14. ASSUME NEW c \in Conns, Disconnect(c) PROVE TypeOK'
  BY <1>14 DEF TypeOK, Disconnect, Fault, PC, keys
<1>15. ASSUME NEW t \in tasks, SaveSummary(t) PROVE TypeOK'
  <2>1. LastN(buffer, Keep) \in Seq(Message) /\ t.covers \in SUBSET Message
    BY SnapshotType DEF TypeOK, Task
  <2>2. QED
    BY <1>15, <2>1 DEF TypeOK, SaveSummary, WriteSummary, handler, counters
<1>16. ASSUME NEW t \in tasks, SaveSummaryFails(t) PROVE TypeOK'
  <2>1. LastN(buffer, Keep) \in Seq(Message) /\ t.covers \in SUBSET Message
    BY SnapshotType DEF TypeOK, Task
  <2>2. tasks' \in SUBSET Task /\ faults' \in 0 .. MaxFaults
    BY <1>16 DEF TypeOK, SaveSummaryFails, Fault
  <2>3. CASE WriteSummary(t)
    BY <1>16, <2>1, <2>2, <2>3 DEF TypeOK, SaveSummaryFails, WriteSummary, Fault, handler
  <2>4. CASE UNCHANGED keys
    BY <1>16, <2>2, <2>4 DEF TypeOK, SaveSummaryFails, Fault, handler, keys
  <2>5. QED
    BY <1>16, <2>3, <2>4 DEF SaveSummaryFails
<1>17. ASSUME Crash PROVE TypeOK'
  BY <1>17 DEF TypeOK, Crash, Fault, PC, keys
<1>18. ASSUME Tick PROVE TypeOK'
  <2>1. << >> \in Seq(Message)
    BY EmptySeq
  <2>2. msgTTL' \in 0 .. TTL /\ sumTTL' \in 0 .. TTL
    BY <1>18 DEF TypeOK, Tick
  <2>3. buffer' \in Seq(Message) /\ expired' \in 0 .. Len(log) /\ summary' \in SUBSET Message
    <3>1. summary' \in SUBSET Message
      BY <1>18 DEF TypeOK, Tick
    <3>2. CASE msgTTL' = 0
      <4>1. buffer' = << >> /\ expired' = Len(log)
        BY <1>18, <3>2 DEF Tick
      <4>2. QED
        BY <1>1, <2>1, <3>1, <4>1
    <3>3. CASE msgTTL' # 0
      BY <1>18, <3>1, <3>3 DEF TypeOK, Tick
    <3>4. QED
      BY <3>2, <3>3
  <2>4. QED
    BY <1>18, <2>2, <2>3 DEF TypeOK, Tick, handler
<1>19. CASE UNCHANGED vars
  BY <1>19 DEF TypeOK, vars, keys, handler, counters
<1>20. QED
  BY <1>2, <1>3, <1>4, <1>5, <1>6, <1>7, <1>8, <1>9, <1>10, <1>11, <1>12,
     <1>13, <1>14, <1>15, <1>16, <1>17, <1>18, <1>19
     DEF Next, HandlerStep, HandlerFails

(* Whatever the bounds and however many handlers serve the session, every  *)
(* variable of the memory keeps its type.                                  *)
THEOREM TypeCorrect == Spec => []TypeOK
BY InitType, NextType, PTL DEF Spec
-----------------------------------------------------------------------------
(* The buffer is the recent part of the log.                               *)

(* BufferIsRecentLog entry by entry, which is what the steps preserve, with *)
(* RecentKept, which bounds how far a trim may cut.                         *)
SuffixInv ==
  /\ Len(buffer) <= Len(log)
  /\ \A i \in 1 .. Len(buffer) : buffer[i] = log[Len(log) - Len(buffer) + i]
  /\ RecentKept

LEMMA AppendKeepsSuffix ==
  ASSUME TypeOK, SuffixInv, NEW n \in Turns, AppendPair(n), UNCHANGED expired
  PROVE  SuffixInv'
<1>1. /\ buffer \in Seq(Message)
      /\ log \in Seq(Message)
      /\ expired \in 0 .. Len(log)
  BY DEF TypeOK
<1>2. buffer' = buffer \o Pair(n) /\ log' = log \o Pair(n)
  BY DEF AppendPair
<1>3. /\ Len(buffer) \in Nat
      /\ Len(log) \in Nat
      /\ expired \in Nat
  BY <1>1, LenProperties
<1>4. /\ Len(buffer') = Len(buffer) + 2
      /\ \A i \in 1 .. Len(buffer) + 2 :
           buffer'[i] = IF i <= Len(buffer) THEN buffer[i] ELSE Pair(n)[i - Len(buffer)]
  BY <1>1, <1>2, PairConcat
<1>5. /\ Len(log') = Len(log) + 2
      /\ \A i \in 1 .. Len(log) + 2 :
           log'[i] = IF i <= Len(log) THEN log[i] ELSE Pair(n)[i - Len(log)]
  BY <1>1, <1>2, PairConcat
<1>6. ASSUME NEW i \in 1 .. Len(buffer')
      PROVE  buffer'[i] = log'[Len(log') - Len(buffer') + i]
  <2>1. i \in 1 .. Len(buffer) + 2 /\ Len(log') - Len(buffer') + i = Len(log) - Len(buffer) + i
    BY <1>3, <1>4, <1>5
  <2>2. Len(log) - Len(buffer) + i \in 1 .. Len(log) + 2
    BY <1>3, <2>1 DEF SuffixInv
  <2>3. CASE i <= Len(buffer)
    <3>1. i \in 1 .. Len(buffer) /\ Len(log) - Len(buffer) + i <= Len(log)
      BY <1>3, <2>1, <2>3
    <3>2. buffer'[i] = buffer[i]
      BY <1>4, <2>1, <2>3
    <3>3. log'[Len(log) - Len(buffer) + i] = log[Len(log) - Len(buffer) + i]
      BY <1>5, <2>2, <3>1
    <3>4. QED
      BY <2>1, <3>1, <3>2, <3>3 DEF SuffixInv
  <2>4. CASE i > Len(buffer)
    <3>1. /\ ~ (i <= Len(buffer))
          /\ ~ (Len(log) - Len(buffer) + i <= Len(log))
          /\ (Len(log) - Len(buffer) + i) - Len(log) = i - Len(buffer)
      BY <1>3, <2>1, <2>4
    <3>2. buffer'[i] = Pair(n)[i - Len(buffer)]
      BY <1>4, <2>1, <3>1
    <3>3. log'[Len(log) - Len(buffer) + i] = Pair(n)[i - Len(buffer)]
      BY <1>5, <2>2, <3>1
    <3>4. QED
      BY <2>1, <3>2, <3>3
  <2>5. QED
    BY <1>3, <2>1, <2>3, <2>4
<1>7. RecentKept'
  BY <1>3, <1>4, <1>5, MemoryAssumption DEF SuffixInv, RecentKept
<1>8. QED
  BY <1>3, <1>4, <1>5, <1>6, <1>7 DEF SuffixInv

LEMMA TrimKeepsSuffix ==
  ASSUME TypeOK, SuffixInv, NEW t, WriteSummary(t), UNCHANGED << log, expired >>
  PROVE  SuffixInv'
<1>1. /\ buffer \in Seq(Message)
      /\ Len(buffer) \in Nat
      /\ Len(log) \in Nat
      /\ expired \in Nat
      /\ Keep \in Nat
  BY LenProperties, MemoryAssumption DEF TypeOK
<1>2. /\ Len(buffer') = IF Len(buffer) > Keep THEN Keep ELSE Len(buffer)
      /\ \A i \in 1 .. Len(buffer') : buffer'[i] = buffer[Len(buffer) - Len(buffer') + i]
  BY <1>1, LastNProperties DEF WriteSummary
<1>3. Len(buffer') \in Nat /\ Len(buffer') <= Len(buffer) /\ RecentKept'
  BY <1>1, <1>2 DEF SuffixInv, RecentKept
<1>4. ASSUME NEW i \in 1 .. Len(buffer')
      PROVE  buffer'[i] = log'[Len(log') - Len(buffer') + i]
  <2>1. Len(buffer) - Len(buffer') + i \in 1 .. Len(buffer)
    BY <1>1, <1>3
  <2>2. buffer[Len(buffer) - Len(buffer') + i]
          = log[Len(log) - Len(buffer) + (Len(buffer) - Len(buffer') + i)]
    BY <2>1 DEF SuffixInv
  <2>3. Len(log) - Len(buffer) + (Len(buffer) - Len(buffer') + i) = Len(log) - Len(buffer') + i
    BY <1>1, <1>3
  <2>4. QED
    BY <1>2, <2>2, <2>3
<1>5. QED
  BY <1>1, <1>3, <1>4 DEF SuffixInv

LEMMA InitSuffix == Init => SuffixInv
<1> SUFFICES ASSUME Init PROVE SuffixInv
  OBVIOUS
<1>1. Len(<< >>) = 0
  BY EmptySeq
<1> QED
  BY <1>1 DEF Init, SuffixInv, RecentKept

LEMMA NextSuffix == TypeOK /\ SuffixInv /\ [Next]_vars => SuffixInv'
<1> SUFFICES ASSUME TypeOK, SuffixInv, [Next]_vars PROVE SuffixInv'
  OBVIOUS
<1>1. ASSUME UNCHANGED << buffer, log, expired >> PROVE SuffixInv'
  BY <1>1 DEF SuffixInv, RecentKept
<1>2. ASSUME NEW c \in Conns, SaveTurn(c) \/ SaveTurnFails(c) PROVE SuffixInv'
  <2>1. turn[c] \in Turns /\ UNCHANGED expired
    BY <1>2 DEF TypeOK, SaveTurn, SaveTurnFails, Goto
  <2>2. AppendPair(turn[c]) \/ UNCHANGED << buffer, log >>
    BY <1>2 DEF SaveTurn, SaveTurnFails
  <2>3. QED
    BY <1>1, <2>1, <2>2, AppendKeepsSuffix
<1>3. ASSUME NEW t \in tasks, SaveSummary(t) \/ SaveSummaryFails(t) PROVE SuffixInv'
  <2>1. UNCHANGED << log, expired >>
    BY <1>3 DEF SaveSummary, SaveSummaryFails
  <2>2. WriteSummary(t) \/ UNCHANGED buffer
    BY <1>3 DEF SaveSummary, SaveSummaryFails, keys
  <2>3. QED
    BY <1>1, <2>1, <2>2, TrimKeepsSuffix
<1>4. ASSUME Tick PROVE SuffixInv'
  <2>1. CASE msgTTL' = 0
    <3>1. buffer' = << >> /\ expired' = Len(log) /\ UNCHANGED log
      BY <1>4, <2>1 DEF Tick
    <3>2. Len(buffer') = 0 /\ Len(log) \in Nat
      BY <3>1, EmptySeq, LenProperties DEF TypeOK
    <3>3. QED
      BY <3>1, <3>2 DEF SuffixInv, RecentKept
  <2>2. CASE msgTTL' # 0
    BY <1>1, <1>4, <2>2 DEF Tick
  <2>3. QED
    BY <2>1, <2>2
<1>5. ASSUME NEW c \in Conns, Connect(c) \/ Receive(c) \/ AbandonTurn(c) PROVE SuffixInv'
  BY <1>1, <1>5 DEF Connect, Receive, AbandonTurn, keys
<1>6. ASSUME NEW c \in Conns,
             LoadHistory(c) \/ LoadSummary(c) \/ CheckLength(c) \/ Respond(c)
      PROVE  SuffixInv'
  BY <1>1, <1>6 DEF LoadHistory, LoadSummary, CheckLength, Respond, keys
<1>7. ASSUME NEW c \in Conns,
             \/ LoadHistoryFails(c) \/ LoadSummaryFails(c)
             \/ CheckLengthFails(c) \/ Disconnect(c)
      PROVE  SuffixInv'
  BY <1>1, <1>7 DEF LoadHistoryFails, LoadSummaryFails, CheckLengthFails, Disconnect, keys
<1>8. CASE Crash
  BY <1>1, <1>8 DEF Crash, keys
<1>9. CASE UNCHANGED vars
  BY <1>1, <1>9 DEF vars, keys
<1>10. QED
  BY <1>2, <1>3, <1>4, <1>5, <1>6, <1>7, <1>8, <1>9 DEF Next, HandlerStep, HandlerFails

(* Entry by entry is as good as SubSeq. *)
LEMMA SuffixIsLastN == TypeOK /\ SuffixInv => BufferIsRecentLog
<1> SUFFICES ASSUME TypeOK, SuffixInv PROVE BufferIsRecentLog
  OBVIOUS
<1>1. /\ buffer \in Seq(Message)
      /\ log \in Seq(Message)
      /\ Len(buffer) \in Nat
      /\ Len(log) \in Nat
  BY LenProperties DEF TypeOK
<1>2. /\ LastN(log, Len(buffer)) \in Seq(Message)
      /\ Len(LastN(log, Len(buffer))) = Len(buffer)
      /\ \A i \in 1 .. Len(buffer) :
           LastN(log, Len(buffer))[i] = log[Len(log) - Len(buffer) + i]
  BY <1>1, LastNProperties DEF SuffixInv
<1>3. buffer = LastN(log, Len(buffer))
  BY <1>1, <1>2, SeqEqual DEF SuffixInv
<1> QED
  BY <1>3 DEF SuffixInv, BufferIsRecentLog

(* Under any failures, crashes, expiry and interleaving of handlers and    *)
(* summary tasks, the messages key holds the most recent messages of the    *)
(* session, without gap or reordering.                                      *)
THEOREM BufferCorrect == Spec => []BufferIsRecentLog
BY TypeCorrect, InitSuffix, NextSuffix, SuffixIsLastN, PTL DEF Spec

(* And trimming never cuts into the last Keep of them. *)
THEOREM RecentMessagesKept == Spec => []RecentKept
<1>1. SuffixInv => RecentKept
  BY DEF SuffixInv
<1>2. QED
  BY <1>1, TypeCorrect, InitSuffix, NextSuffix, PTL DEF Spec
-----------------------------------------------------------------------------
(* Nothing is forgotten when nothing goes wrong.                           *)

(* The environments in which the summarization design works: one handler   *)
(* serves the session, no call fails, the session ends before a TTL does,   *)
(* and each summary is written before the next turn is persisted.           *)
Patient ==
  /\ Prompt
  /\ MaxFaults = 0
  /\ MaxTicks = 0
  /\ \E c \in Conns : Conns = {c}

(* The first n messages of the log are all in S. *)
Holds(S, n) == \A i \in 1 .. n : log[i] \in S

Given(c) == prior[c] \cup Range(history[c])

(* Why nothing is forgotten.  A summary under way, and the snapshot of a    *)
(* turn about to start one, cover all but the last two messages; these are  *)
(* in the list, and Keep >= 2 spares them.  A turn that will overflow the   *)
(* list has loaded all of it, for the list can only be that long if no      *)
(* task was there to trim it.                                               *)
PatientHandler(c) ==
  /\ pc[c] \in {"checking", "responding"} => tasks = {}
  /\ pc[c] = "checking" /\ Len(buffer) > MaxRecent => Holds(Given(c), Len(log) - 2)
  /\ pc[c] = "responding" /\ needs[c] => Holds(Given(c), Len(log) - 2)
  /\ pc[c] = "responding" /\ ~ needs[c] => Len(buffer) <= MaxRecent
  /\ pc[c] \notin {"checking", "responding"} => tasks # {} \/ Len(buffer) <= MaxRecent
  /\ pc[c] = "loadingSummary" =>
       \/ tasks # {}
       \/ Len(buffer) <= MaxRecent - 2
       \/ Holds(summary \cup Range(history[c]), Len(log))
  /\ pc[c] = "running" =>
       \/ tasks # {}
       \/ Len(buffer) <= MaxRecent - 2
       \/ Holds(Given(c), Len(log))

PatientInv ==
  /\ expired = 0
  /\ Holds(Recalled, Len(log))
  /\ \A t \in tasks : Holds(t.covers, Len(log) - 2)
  /\ \A c \in Conns : PatientHandler(c)

LEMMA InitPatient == Init => PatientInv
<1> SUFFICES ASSUME Init PROVE PatientInv
  OBVIOUS
<1>1. Len(<< >>) = 0
  BY EmptySeq
<1> QED
  BY <1>1, MemoryAssumption DEF Init, PatientInv, PatientHandler, Holds

(* The entries of the log that were there stay where they were. *)
LEMMA LogGrows ==
  ASSUME TypeOK, NEW n \in Turns, AppendPair(n)
  PROVE  /\ Len(log') = Len(log) + 2
         /\ \A i \in 1 .. Len(log) : log'[i] = log[i]
<1>1. log \in Seq(Message) /\ Len(log) \in Nat
  BY LenProperties DEF TypeOK
<1>2. QED
  BY <1>1, PairConcat DEF AppendPair

(* A list no longer than the window is loaded whole. *)
LEMMA WindowIsAll ==
  ASSUME NEW s \in Seq(Message), Len(s) <= MaxRecent
  PROVE  LastN(s, MaxRecent) = s
<1>1. Len(s) \in Nat
  BY LenProperties
<1>2. ~ (Len(s) > MaxRecent)
  BY <1>1, MemoryAssumption
<1>3. LastN(s, MaxRecent) = SubSeq(s, 1, Len(s))
  BY <1>2 DEF LastN
<1>4. QED
  BY <1>3, SubSeqFull

(* What the buffer holds of the log, by position. *)
LEMMA BufferHoldsTailNext ==
  ASSUME TypeOK', SuffixInv', NEW i \in 1 .. Len(log'), i > Len(log') - Len(buffer')
  PROVE  log'[i] \in Range(buffer')
<1>1. buffer' \in Seq(Message) /\ Len(buffer') \in Nat /\ Len(log') \in Nat
  BY LenProperties DEF TypeOK
<1>2. i - (Len(log') - Len(buffer')) \in 1 .. Len(buffer')
  BY <1>1 DEF SuffixInv
<1>3. buffer'[i - (Len(log') - Len(buffer'))] = log'[i]
  <2>1. Len(log') - Len(buffer') + (i - (Len(log') - Len(buffer'))) = i
    BY <1>1
  <2>2. QED
    BY <1>2, <2>1 DEF SuffixInv
<1>4. DOMAIN buffer' = 1 .. Len(buffer')
  BY <1>1, LenProperties
<1>5. QED
  BY <1>2, <1>3, <1>4 DEF Range

(* A longer list holds what its prefix held. *)
LEMMA RangeGrows ==
  ASSUME NEW s \in Seq(Message), NEW t \in Seq(Message),
         Len(s) <= Len(t), \A i \in 1 .. Len(s) : t[i] = s[i]
  PROVE  Range(s) \subseteq Range(t)
BY LenProperties DEF Range

LEMMA NextPatient ==
  ASSUME Patient, TypeOK, SuffixInv, PatientInv, [Next]_vars, TypeOK', SuffixInv'
  PROVE  PatientInv'
<1> USE MemoryAssumption
<1>1. /\ Len(buffer) \in Nat /\ Len(log) \in Nat
      /\ buffer \in Seq(Message)
      /\ Prompt
      /\ ~ (faults < MaxFaults)
      /\ ~ (ticks < MaxTicks)
  BY LenProperties DEF TypeOK, Patient
<1>2. PICK h \in Conns : Conns = {h}
  BY DEF Patient
<1>3. PatientHandler(h)
  BY DEF PatientInv
<1>5. expired = 0 /\ Holds(Recalled, Len(log)) /\ \A t \in tasks : Holds(t.covers, Len(log) - 2)
  BY DEF PatientInv
<1>6. ASSUME NEW c \in Conns, Connect(c) \/ Receive(c) \/ AbandonTurn(c)
      PROVE  PatientInv'
  <2>1. c = h /\ UNCHANGED << buffer, summary, tasks, log, expired >>
    BY <1>2, <1>6 DEF Connect, Receive, AbandonTurn, keys
  <2>2. PatientHandler(h)'
    BY <1>3, <1>6, <2>1
       DEF PatientHandler, Connect, Receive, AbandonTurn, Goto, TypeOK, PC, Holds
  <2>3. QED
    BY <1>2, <1>5, <2>1, <2>2 DEF PatientInv, Holds, Recalled
<1>7. ASSUME NEW c \in Conns, LoadHistory(c) PROVE PatientInv'
  <2>1. c = h /\ UNCHANGED << buffer, summary, tasks, log, expired >>
    BY <1>2, <1>7 DEF LoadHistory, keys
  <2>2. /\ pc[h] = "loading" /\ pc'[h] = "loadingSummary"
        /\ history'[h] = LastN(buffer, MaxRecent)
    BY <1>7, <2>1 DEF LoadHistory, Goto, TypeOK
  <2>3. ASSUME tasks # {} PROVE PatientHandler(h)'
    BY <2>1, <2>2, <2>3 DEF PatientHandler
  <2>4. ASSUME tasks = {} PROVE PatientHandler(h)'
    <3>1. Len(buffer) <= MaxRecent
      BY <1>3, <2>2, <2>4 DEF PatientHandler
    <3>2. history'[h] = buffer
      BY <1>1, <2>2, <3>1, WindowIsAll
    <3>3. Holds(summary \cup Range(history[h]), Len(log))'
      BY <1>5, <2>1, <3>2 DEF Holds, Recalled
    <3>4. QED
      BY <2>1, <2>2, <3>1, <3>3 DEF PatientHandler
  <2>5. QED
    BY <1>2, <1>5, <2>1, <2>3, <2>4 DEF PatientInv, Holds, Recalled
<1>8. ASSUME NEW c \in Conns, LoadSummary(c) PROVE PatientInv'
  <2>1. c = h /\ UNCHANGED << buffer, summary, tasks, log, expired, history >>
    BY <1>2, <1>8 DEF LoadSummary, keys
  <2>2. /\ pc[h] = "loadingSummary" /\ pc'[h] = "running"
        /\ prior'[h] = summary
    BY <1>8, <2>1 DEF LoadSummary, Goto, TypeOK
  <2>3. Holds(summary \cup Range(history[h]), Len(log)) => Holds(Given(h), Len(log))'
    BY <2>1, <2>2 DEF Holds, Given
  <2>4. PatientHandler(h)'
    BY <1>3, <2>1, <2>2, <2>3 DEF PatientHandler
  <2>5. QED
    BY <1>2, <1>5, <2>1, <2>4 DEF PatientInv, Holds, Recalled
<1>9. ASSUME NEW c \in Conns, SaveTurn(c) PROVE PatientInv'
  <2>1. /\ c = h
        /\ UNCHANGED << summary, tasks, history, prior, expired >>
        /\ tasks = {}
    BY <1>1, <1>2, <1>9 DEF SaveTurn
  <2>2. pc[h] = "running" /\ pc'[h] = "checking"
    BY <1>9, <2>1 DEF SaveTurn, Goto, TypeOK
  <2>3. turn[h] \in Turns /\ AppendPair(turn[h])
    BY <1>9, <2>1, <2>2 DEF SaveTurn, TypeOK
  <2>4. /\ Len(log') = Len(log) + 2
        /\ \A i \in 1 .. Len(log) : log'[i] = log[i]
    BY <2>3, LogGrows
  <2>5. buffer' = buffer \o Pair(turn[h])
    BY <2>3 DEF AppendPair
  <2>6. /\ Len(buffer') = Len(buffer) + 2
        /\ \A i \in 1 .. Len(buffer) : buffer'[i] = buffer[i]
    BY <1>1, <2>3, <2>5, PairConcat
  <2>7. Holds(Recalled, Len(log))'
    <3>1. ASSUME NEW i \in 1 .. Len(log'), i > Len(log)
          PROVE  log'[i] \in Range(buffer')
      <4>1. i > Len(log') - Len(buffer')
        BY <1>1, <2>4, <2>6, <3>1
      <4>2. QED
        BY <4>1, BufferHoldsTailNext
    <3>2. ASSUME NEW i \in 1 .. Len(log) PROVE log'[i] \in Recalled'
      <4>1. log'[i] = log[i] /\ log[i] \in summary \cup Range(buffer)
        BY <1>5, <2>4 DEF Holds, Recalled
      <4>2. Range(buffer) \subseteq Range(buffer')
        <5>1. buffer' \in Seq(Message) /\ Len(buffer) <= Len(buffer')
          BY <1>1, <2>6 DEF TypeOK
        <5>2. QED
          BY <1>1, <2>6, <5>1, RangeGrows
      <4>3. QED
        BY <2>1, <4>1, <4>2 DEF Recalled
    <3>3. QED
      BY <1>1, <2>4, <3>1, <3>2 DEF Holds, Recalled
  <2>8. Len(buffer') > MaxRecent => Holds(Given(h), Len(log) - 2)'
    BY <1>1, <1>3, <2>1, <2>2, <2>4, <2>6 DEF PatientHandler, Holds, Given
  <2>9. PatientHandler(h)'
    BY <2>1, <2>2, <2>8 DEF PatientHandler
  <2>10. QED
    BY <1>2, <1>5, <2>1, <2>7, <2>9 DEF PatientInv
<1>10. ASSUME NEW c \in Conns, CheckLength(c) PROVE PatientInv'
  <2>1. c = h /\ UNCHANGED << buffer, summary, tasks, log, expired, history, prior >>
    BY <1>2, <1>10 DEF CheckLength, keys
  <2>2. /\ pc[h] = "checking" /\ pc'[h] = "responding"
        /\ needs'[h] <=> Len(buffer) > MaxRecent
    BY <1>10, <2>1 DEF CheckLength, Goto, TypeOK
  <2>3. Holds(Given(h), Len(log) - 2) => Holds(Given(h), Len(log) - 2)'
    BY <2>1 DEF Holds, Given
  <2>4. PatientHandler(h)'
    BY <1>1, <1>3, <2>1, <2>2, <2>3 DEF PatientHandler
  <2>5. QED
    BY <1>2, <1>5, <2>1, <2>4 DEF PatientInv, Holds, Recalled
<1>11. ASSUME NEW c \in Conns, Respond(c) PROVE PatientInv'
  <2>1. c = h /\ UNCHANGED << buffer, summary, log, expired, history, prior >>
    BY <1>2, <1>11 DEF Respond, keys
  <2>2. pc[h] = "responding" /\ pc'[h] = "idle" /\ tasks = {}
    BY <1>3, <1>11, <2>1 DEF Respond, Goto, TypeOK, PatientHandler
  <2>3. tasks' = IF needs[h] THEN {[turn |-> turn[h], covers |-> Given(h)]} ELSE {}
    BY <1>11, <2>1, <2>2 DEF Respond, Given
  <2>4. \A t \in tasks' : Holds(t.covers, Len(log) - 2)'
    BY <1>3, <2>1, <2>2, <2>3 DEF PatientHandler, Holds
  <2>5. PatientHandler(h)'
    BY <1>3, <2>1, <2>2, <2>3 DEF PatientHandler
  <2>6. QED
    BY <1>2, <1>5, <2>1, <2>4, <2>5 DEF PatientInv, Holds, Recalled
<1>12. ASSUME NEW t \in tasks, SaveSummary(t) PROVE PatientInv'
  <2>1. /\ UNCHANGED << pc, history, prior, needs, log, expired >>
        /\ summary' = t.covers
        /\ buffer' = LastN(buffer, Keep)
        /\ tasks' = tasks \ {t}
    BY <1>12 DEF SaveSummary, WriteSummary, handler
  <2>2. Len(buffer') \in Nat /\ Len(buffer') <= Keep
    BY <1>1, <2>1, LastNProperties
  <2>3. Holds(t.covers, Len(log) - 2)
    BY <1>5
  <2>4. Holds(Recalled, Len(log))'
    <3>1. ASSUME NEW i \in 1 .. Len(log'), i > Len(log') - 2
          PROVE  log'[i] \in Range(buffer')
      <4>1. Len(buffer') >= Keep \/ Len(buffer') >= Len(log')
        BY <1>1, <1>5, <2>1 DEF SuffixInv, RecentKept
      <4>2. i > Len(log') - Len(buffer')
        BY <1>1, <2>1, <2>2, <3>1, <4>1
      <4>3. QED
        BY <4>2, BufferHoldsTailNext
    <3>2. QED
      BY <1>1, <2>1, <2>3, <3>1 DEF Holds, Recalled
  <2>5. pc[h] \notin {"checking", "responding"}
    BY <1>3 DEF PatientHandler
  <2>6. PatientHandler(h)'
    BY <2>1, <2>2, <2>5 DEF PatientHandler
  <2>7. QED
    BY <1>2, <1>5, <2>1, <2>4, <2>6 DEF PatientInv, Holds
<1>13. ASSUME UNCHANGED vars PROVE PatientInv'
  <2>1. UNCHANGED << pc, buffer, summary, tasks, log, expired, history, prior, needs >>
    BY <1>13 DEF vars, keys, handler
  <2>2. PatientHandler(h)'
    BY <1>3, <2>1 DEF PatientHandler, Holds, Given
  <2>3. QED
    BY <1>2, <1>5, <2>1, <2>2 DEF PatientInv, Holds, Recalled
<1>14. ~ Fault /\ ~ Tick
  BY <1>1 DEF Fault, Tick
<1>15. QED
  BY <1>6, <1>7, <1>8, <1>9, <1>10, <1>11, <1>12, <1>13, <1>14
     DEF Next, HandlerStep, HandlerFails, LoadHistoryFails, LoadSummaryFails, SaveTurnFails,
         CheckLengthFails, Disconnect, SaveSummaryFails, Crash

(* The invariants together, as the temporal steps need them. *)
PatientIInv == TypeOK /\ SuffixInv /\ PatientInv

LEMMA PatientInvariant ==
  ASSUME Patient
  PROVE  Spec => []PatientIInv
<1>1. Init => PatientIInv
  BY InitType, InitSuffix, InitPatient DEF PatientIInv
<1>2. PatientIInv /\ [Next]_vars => PatientIInv'
  BY NextType, NextSuffix, NextPatient DEF PatientIInv
<1>3. QED
  BY <1>1, <1>2, PTL DEF Spec

(* For any limits, any number of turns and any interleaving of a turn with  *)
(* the summary task before it: in a patient environment every message that   *)
(* was persisted is in the buffer or in the summary.                        *)
THEOREM NothingForgottenWhenPatient ==
  ASSUME Patient
  PROVE  Spec => []NothingForgotten
<1>1. PatientIInv => NothingForgotten
  BY DEF PatientIInv, PatientInv, Holds, NothingForgotten
<1>2. QED
  BY <1>1, PatientInvariant, PTL
-----------------------------------------------------------------------------
(* Histories alternate.                                                    *)

(* Trimming to an even length keeps each question with its answer. *)
LEMMA LastNAlternates ==
  ASSUME NEW s \in Seq(Message), Alternates(s), NEW n \in Nat, n % 2 = 0
  PROVE  Alternates(LastN(s, n))
<1> DEFINE t == LastN(s, n)
           d == Len(s) - Len(t)
<1>1. /\ Len(s) \in Nat
      /\ Len(t) = IF Len(s) > n THEN n ELSE Len(s)
      /\ \A i \in 1 .. Len(t) : t[i] = s[d + i]
  BY LenProperties, LastNProperties
<1> HIDE DEF t
<1>2. Len(t) \in Nat /\ Len(t) % 2 = 0 /\ d \in Nat /\ d % 2 = 0
  <2>1. Len(s) % 2 = 0
    BY DEF Alternates
  <2>2. CASE Len(s) > n
    BY <1>1, <2>1, <2>2
  <2>3. CASE ~ (Len(s) > n)
    BY <1>1, <2>1, <2>3
  <2> QED
    BY <2>2, <2>3
<1>3. \A i \in 1 .. Len(t) : (d + i) % 2 = i % 2 /\ d + i \in 1 .. Len(s)
  <2>1. Len(s) = d + Len(t)
    BY <1>1, <1>2
  <2> HIDE DEF d
  <2> QED
    BY <1>2, <2>1
<1>4. \A i \in 1 .. Len(t) : i % 2 = 1 => i + 1 \in 1 .. Len(t)
  BY <1>2
<1>5. ASSUME NEW i \in 1 .. Len(t)
      PROVE  t[i].role = IF i % 2 = 1 THEN "user" ELSE "assistant"
  BY <1>1, <1>3 DEF Alternates
<1>6. ASSUME NEW i \in 1 .. Len(t), i % 2 = 1
      PROVE  t[i].turn = t[i + 1].turn
  <2>1. d + i \in 1 .. Len(s) /\ (d + i) % 2 = 1
    BY <1>3, <1>6
  <2>2. s[d + i].turn = s[(d + i) + 1].turn
    BY <2>1 DEF Alternates
  <2>3. t[i] = s[d + i] /\ t[i + 1] = s[d + (i + 1)]
    BY <1>1, <1>4, <1>6
  <2>4. d + (i + 1) = (d + i) + 1
    BY <1>2
  <2> QED
    BY <2>2, <2>3, <2>4
<1> QED
  BY <1>2, <1>5, <1>6 DEF Alternates, t

(* A turn appends its question, then its answer. *)
LEMMA PairAlternates ==
  ASSUME NEW s \in Seq(Message), Alternates(s), NEW n \in Turns
  PROVE  Alternates(s \o Pair(n))
<1> DEFINE t == s \o Pair(n)
<1>1. /\ Len(s) \in Nat
      /\ Len(s) % 2 = 0
      /\ Len(t) = Len(s) + 2
      /\ \A i \in 1 .. Len(s) + 2 : t[i] = IF i <= Len(s) THEN s[i] ELSE Pair(n)[i - Len(s)]
  BY LenProperties, PairConcat DEF Alternates
<1> HIDE DEF t
<1>2. Len(t) % 2 = 0
  BY <1>1
<1>3. /\ Len(s) + 1 \in 1 .. Len(s) + 2 /\ ~ (Len(s) + 1 <= Len(s)) /\ Len(s) + 1 - Len(s) = 1
      /\ Len(s) + 2 \in 1 .. Len(s) + 2 /\ ~ (Len(s) + 2 <= Len(s)) /\ Len(s) + 2 - Len(s) = 2
  BY <1>1
<1>4. t[Len(s) + 1] = Pair(n)[1] /\ t[Len(s) + 2] = Pair(n)[2]
  BY <1>1, <1>3
<1>5. /\ t[Len(s) + 1].role = "user" /\ t[Len(s) + 2].role = "assistant"
      /\ t[Len(s) + 1].turn = t[Len(s) + 2].turn
  BY <1>4 DEF Pair
<1>6. ASSUME NEW i \in 1 .. Len(t)
      PROVE  /\ t[i].role = IF i % 2 = 1 THEN "user" ELSE "assistant"
             /\ i % 2 = 1 => t[i].turn = t[i + 1].turn
  <2>1. CASE i <= Len(s)
    <3>1. i \in 1 .. Len(s) /\ i \in 1 .. Len(s) + 2 /\ t[i] = s[i]
      BY <1>1, <2>1
    <3>2. i % 2 = 1 => i + 1 <= Len(s) /\ i + 1 \in 1 .. Len(s) + 2
      BY <1>1, <3>1
    <3>3. i % 2 = 1 => t[i + 1] = s[i + 1]
      BY <1>1, <3>2
    <3> QED
      BY <3>1, <3>3 DEF Alternates
  <2>2. CASE i = Len(s) + 1
    <3>1. i % 2 = 1 /\ i + 1 = Len(s) + 2
      BY <1>1, <2>2
    <3> QED
      BY <1>5, <2>2, <3>1
  <2>3. CASE i = Len(s) + 2
    <3>1. i % 2 = 0
      BY <1>1, <2>3
    <3> QED
      BY <1>5, <2>3, <3>1
  <2> QED
    BY <1>1, <2>1, <2>2, <2>3
<1> QED
  BY <1>2, <1>6 DEF Alternates, t

(* What a turn loads alternates because the list it is loaded from does. *)
AlternateInv == Alternates(buffer) /\ HistoryAlternates

LEMMA NextAlternate == TypeOK /\ AlternateInv /\ [Next]_vars => AlternateInv'
<1> SUFFICES ASSUME TypeOK, AlternateInv, [Next]_vars PROVE AlternateInv'
  OBVIOUS
<1>1. Alternates(<< >>)
  <2>1. Len(<< >>) = 0
    BY EmptySeq
  <2> QED
    BY <2>1 DEF Alternates
<1>2. /\ \A s \in Seq(Message) : Alternates(s) =>
           Alternates(LastN(s, MaxRecent)) /\ Alternates(LastN(s, Keep))
      /\ \A s \in Seq(Message), n \in Turns : Alternates(s) => Alternates(s \o Pair(n))
  BY LastNAlternates, PairAlternates, MemoryAssumption
<1>3. buffer \in Seq(Message) /\ history \in [Conns -> Seq(Message)]
  BY DEF TypeOK
<1>4. ASSUME UNCHANGED history, Alternates(buffer') PROVE AlternateInv'
  BY <1>4 DEF AlternateInv, HistoryAlternates
<1>5. ASSUME UNCHANGED << buffer, history >> PROVE AlternateInv'
  BY <1>5 DEF AlternateInv, HistoryAlternates
<1>6. ASSUME NEW c \in Conns, LoadHistory(c) \/ LoadHistoryFails(c) PROVE AlternateInv'
  <2>1. UNCHANGED buffer
    BY <1>6 DEF LoadHistory, LoadHistoryFails, keys
  <2>2. PICK h : history' = [history EXCEPT ![c] = h] /\ Alternates(h)
    BY <1>1, <1>2, <1>3, <1>6 DEF LoadHistory, LoadHistoryFails, AlternateInv
  <2> QED
    BY <1>3, <2>1, <2>2 DEF AlternateInv, HistoryAlternates
<1>7. ASSUME NEW c \in Conns, SaveTurn(c) \/ SaveTurnFails(c) PROVE AlternateInv'
  <2>1. turn[c] \in Turns /\ UNCHANGED history
    BY <1>7 DEF TypeOK, SaveTurn, SaveTurnFails, Goto
  <2>2. buffer' = buffer \o Pair(turn[c]) \/ UNCHANGED buffer
    BY <1>7 DEF SaveTurn, SaveTurnFails, AppendPair
  <2> QED
    BY <1>2, <1>3, <1>4, <2>1, <2>2 DEF AlternateInv
<1>8. ASSUME NEW t \in tasks, SaveSummary(t) \/ SaveSummaryFails(t) PROVE AlternateInv'
  <2>1. UNCHANGED history /\ (buffer' = LastN(buffer, Keep) \/ UNCHANGED buffer)
    BY <1>8 DEF SaveSummary, SaveSummaryFails, WriteSummary, handler, keys
  <2> QED
    BY <1>2, <1>3, <1>4, <2>1 DEF AlternateInv
<1>9. CASE Tick
  <2>1. UNCHANGED history /\ (buffer' = << >> \/ UNCHANGED buffer)
    BY <1>9 DEF Tick, handler
  <2> QED
    BY <1>1, <1>4, <2>1 DEF AlternateInv
<1>10. ASSUME NEW c \in Conns, Connect(c) \/ Receive(c) \/ AbandonTurn(c) PROVE AlternateInv'
  BY <1>5, <1>10 DEF Connect, Receive, AbandonTurn, keys
<1>11. ASSUME NEW c \in Conns, LoadSummary(c) \/ CheckLength(c) \/ Respond(c)
       PROVE  AlternateInv'
  BY <1>5, <1>11 DEF LoadSummary, CheckLength, Respond, keys
<1>12. ASSUME NEW c \in Conns, LoadSummaryFails(c) \/ CheckLengthFails(c) \/ Disconnect(c)
       PROVE  AlternateInv'
  BY <1>5, <1>12 DEF LoadSummaryFails, CheckLengthFails, Disconnect, keys
<1>13. CASE Crash
  BY <1>5, <1>13 DEF Crash, keys
<1>14. CASE UNCHANGED vars
  BY <1>5, <1>14 DEF vars, keys, handler
<1> QED
  BY <1>6, <1>7, <1>8, <1>9, <1>10, <1>11, <1>12, <1>13, <1>14
     DEF Next, HandlerStep, HandlerFails

(* Under any failures and interleaving, the history a model is given begins *)
(* with the user and alternates, each answer after its own question (what    *)
(* append_messages' pipeline and the even limits are for).                   *)
THEOREM HistoriesAlternate == Spec => []HistoryAlternates
<1>1. Init => AlternateInv
  <2> SUFFICES ASSUME Init PROVE AlternateInv
    OBVIOUS
  <2>1. Len(<< >>) = 0
    BY EmptySeq
  <2> QED
    BY <2>1 DEF Init, AlternateInv, HistoryAlternates, Alternates
<1>2. AlternateInv => HistoryAlternates
  BY DEF AlternateInv
<1> QED
  BY <1>1, <1>2, NextAlternate, TypeCorrect, PTL DEF Spec
-----------------------------------------------------------------------------
(* The window of a turn, and the length of the list.                       *)

(* The last MaxRecent of the first n messages of the log are all in S. *)
Window(S, n) == \A i \in 1 .. n : i > n - MaxRecent => log[i] \in S

(* Between the two reads of a turn a task may move messages from the list to *)
(* the summary.  It leaves out the last two, which the history has.          *)
WindowHandler(c) ==
  /\ pc[c] = "loadingSummary" =>
       /\ seen[c] = Len(log)
       /\ Window(summary \cup Range(history[c]), seen[c])
       /\ \A i \in 1 .. seen[c] : i > seen[c] - 2 => log[i] \in Range(history[c])
  /\ pc[c] = "running" => Window(Given(c), seen[c])

WindowInv ==
  /\ Len(buffer) <= MaxRecent + 2
  /\ \A c \in Conns : WindowHandler(c)

(* The list that was read whole or to the limit has the end of the log. *)
LEMMA LoadedTail ==
  ASSUME TypeOK, SuffixInv, NEW i \in 1 .. Len(log), i > Len(log) - Len(LastN(buffer, MaxRecent))
  PROVE  log[i] \in Range(LastN(buffer, MaxRecent))
<1> DEFINE t == LastN(buffer, MaxRecent)
<1>1. Len(buffer) \in Nat /\ Len(log) \in Nat /\ buffer \in Seq(Message)
  BY LenProperties DEF TypeOK
<1>2. /\ t \in Seq(Message)
      /\ Len(t) = IF Len(buffer) > MaxRecent THEN MaxRecent ELSE Len(buffer)
      /\ \A k \in 1 .. Len(t) : t[k] = buffer[Len(buffer) - Len(t) + k]
  BY <1>1, LastNProperties, MemoryAssumption
<1>3. i > Len(log) - Len(t)
  OBVIOUS
<1> DEFINE k == i - (Len(log) - Len(t))
<1> HIDE DEF t
<1>4. /\ k \in 1 .. Len(t)
      /\ Len(buffer) - Len(t) + k \in 1 .. Len(buffer)
      /\ Len(log) - Len(buffer) + (Len(buffer) - Len(t) + k) = i
  <2>1. Len(t) \in Nat /\ Len(t) <= Len(buffer) /\ Len(buffer) <= Len(log)
    BY <1>1, <1>2, MemoryAssumption DEF SuffixInv
  <2> QED
    BY <1>1, <1>3, <2>1
<1>5. t[k] = log[i]
  <2>1. t[k] = buffer[Len(buffer) - Len(t) + k]
    BY <1>2, <1>4
  <2>2. buffer[Len(buffer) - Len(t) + k] = log[Len(log) - Len(buffer) + (Len(buffer) - Len(t) + k)]
    BY <1>4 DEF SuffixInv
  <2> QED
    BY <1>4, <2>1, <2>2
<1>6. DOMAIN t = 1 .. Len(t)
  BY <1>2, LenProperties
<1> QED
  BY <1>4, <1>5, <1>6 DEF Range, t

LEMMA NextWindow ==
  ASSUME Patient, TypeOK, SuffixInv, PatientInv, WindowInv, [Next]_vars
  PROVE  WindowInv'
<1> USE MemoryAssumption
<1>1. /\ Len(buffer) \in Nat /\ Len(log) \in Nat
      /\ buffer \in Seq(Message)
      /\ Prompt
      /\ ~ (faults < MaxFaults)
      /\ ~ (ticks < MaxTicks)
  BY LenProperties DEF TypeOK, Patient
<1>2. PICK h \in Conns : Conns = {h}
  BY DEF Patient
<1>3. WindowHandler(h) /\ PatientHandler(h) /\ Len(buffer) <= MaxRecent + 2
  BY DEF WindowInv, PatientInv
<1>4. expired = 0 /\ Holds(Recalled, Len(log)) /\ \A t \in tasks : Holds(t.covers, Len(log) - 2)
  BY DEF PatientInv
<1>5. ASSUME NEW c \in Conns,
             \/ Connect(c) \/ Receive(c) \/ AbandonTurn(c) \/ CheckLength(c) \/ Respond(c)
      PROVE  WindowInv'
  <2>1. c = h /\ UNCHANGED buffer /\ pc'[h] \notin {"loadingSummary", "running"}
    BY <1>2, <1>5
       DEF Connect, Receive, AbandonTurn, CheckLength, Respond, Goto, TypeOK, keys
  <2> QED
    BY <1>2, <1>3, <2>1 DEF WindowInv, WindowHandler
<1>6. ASSUME NEW c \in Conns, LoadHistory(c) PROVE WindowInv'
  <2>1. /\ c = h
        /\ UNCHANGED << buffer, summary, log >>
        /\ pc'[h] = "loadingSummary"
        /\ history'[h] = LastN(buffer, MaxRecent)
        /\ seen'[h] = Len(log)
    BY <1>2, <1>6 DEF LoadHistory, Goto, TypeOK, keys
  <2> DEFINE loaded == LastN(buffer, MaxRecent)
  <2>2. Len(loaded) = IF Len(buffer) > MaxRecent THEN MaxRecent ELSE Len(buffer)
    BY <1>1, LastNProperties
  <2>3. ASSUME NEW i \in 1 .. Len(log), i > Len(log) - MaxRecent
        PROVE  log[i] \in summary \cup Range(loaded)
    <3>1. CASE Len(buffer) > MaxRecent
      BY <2>2, <2>3, <3>1, LoadedTail
    <3>2. CASE Len(buffer) <= MaxRecent
      <4>1. loaded = buffer
        BY <1>1, <3>2, WindowIsAll
      <4> QED
        BY <1>4, <4>1 DEF Holds, Recalled
    <3> QED
      BY <1>1, <3>1, <3>2
  <2>4. ASSUME NEW i \in 1 .. Len(log), i > Len(log) - 2
        PROVE  log[i] \in Range(loaded)
    <3>1. Len(loaded) >= 2 \/ Len(loaded) >= Len(log)
      BY <1>1, <1>4, <2>2 DEF SuffixInv, RecentKept
    <3>2. i > Len(log) - Len(loaded)
      BY <1>1, <2>2, <2>4, <3>1
    <3> QED
      BY <3>2, LoadedTail
  <2> HIDE DEF loaded
  <2>5. history'[h] = loaded
    BY <2>1 DEF loaded
  <2>6. WindowHandler(h)'
    BY <2>1, <2>3, <2>4, <2>5 DEF WindowHandler, Window
  <2> QED
    BY <1>2, <1>3, <2>1, <2>6 DEF WindowInv
<1>7. ASSUME NEW c \in Conns, LoadSummary(c) PROVE WindowInv'
  <2>1. /\ c = h
        /\ UNCHANGED << buffer, log, history, seen >>
        /\ pc[h] = "loadingSummary"
        /\ pc'[h] = "running"
        /\ prior'[h] = summary
    BY <1>2, <1>7 DEF LoadSummary, Goto, TypeOK, keys
  <2>2. WindowHandler(h)'
    BY <1>3, <2>1 DEF WindowHandler, Window, Given
  <2> QED
    BY <1>2, <1>3, <2>1, <2>2 DEF WindowInv
<1>8. ASSUME NEW c \in Conns, SaveTurn(c) PROVE WindowInv'
  <2>1. /\ c = h
        /\ tasks = {}
        /\ pc[h] = "running" /\ pc'[h] = "checking"
        /\ turn[h] \in Turns
        /\ buffer' = buffer \o Pair(turn[h])
    BY <1>1, <1>2, <1>8 DEF SaveTurn, Goto, AppendPair, TypeOK
  <2>2. Len(buffer) <= MaxRecent
    BY <1>3, <2>1 DEF PatientHandler
  <2>3. Len(buffer') = Len(buffer) + 2
    BY <1>1, <2>1, PairConcat
  <2>4. WindowHandler(h)'
    BY <2>1 DEF WindowHandler
  <2> QED
    BY <1>1, <1>2, <2>2, <2>3, <2>4 DEF WindowInv
<1>9. ASSUME NEW t \in tasks, SaveSummary(t) PROVE WindowInv'
  <2>1. /\ UNCHANGED << pc, history, prior, seen, log >>
        /\ summary' = t.covers
        /\ buffer' = LastN(buffer, Keep)
    BY <1>9 DEF SaveSummary, WriteSummary, handler
  <2>2. Len(buffer') \in Nat /\ Len(buffer') <= Keep
    BY <1>1, <2>1, LastNProperties
  <2>3. ASSUME pc[h] = "loadingSummary", NEW i \in 1 .. Len(log)
        PROVE  log[i] \in t.covers \cup Range(history[h])
    <3>1. CASE i <= Len(log) - 2
      BY <1>1, <1>4, <3>1 DEF Holds
    <3>2. CASE i > Len(log) - 2
      BY <1>3, <2>3, <3>2 DEF WindowHandler
    <3> QED
      BY <1>1, <3>1, <3>2
  <2>4. WindowHandler(h)'
    BY <1>3, <2>1, <2>3 DEF WindowHandler, Window, Given
  <2> QED
    BY <1>1, <1>2, <2>2, <2>4 DEF WindowInv
<1>10. ASSUME UNCHANGED vars PROVE WindowInv'
  <2>1. UNCHANGED << pc, buffer, summary, log, history, prior, seen >>
    BY <1>10 DEF vars, keys, handler
  <2>2. WindowHandler(h)'
    BY <1>3, <2>1 DEF WindowHandler, Window, Given
  <2> QED
    BY <1>2, <1>3, <2>1, <2>2 DEF WindowInv
<1>11. ~ Fault /\ ~ Tick
  BY <1>1 DEF Fault, Tick
<1> QED
  BY <1>5, <1>6, <1>7, <1>8, <1>9, <1>10, <1>11
     DEF Next, HandlerStep, HandlerFails, LoadHistoryFails, LoadSummaryFails, SaveTurnFails,
         CheckLengthFails, Disconnect, SaveSummaryFails, Crash

LEMMA InitWindow == Init => WindowInv
<1> SUFFICES ASSUME Init PROVE WindowInv
  OBVIOUS
<1>1. Len(<< >>) = 0
  BY EmptySeq
<1> QED
  BY <1>1, MemoryAssumption DEF Init, WindowInv, WindowHandler

LEMMA WindowInvariant ==
  ASSUME Patient
  PROVE  Spec => []WindowInv
<1>1. PatientIInv /\ WindowInv /\ [Next]_vars => WindowInv'
  BY NextWindow DEF PatientIInv
<1> QED
  BY <1>1, InitWindow, PatientInvariant, PTL DEF Spec

(* In a patient environment every turn is given the last MaxRecent messages *)
(* of its session, in its history or in its summary, although a task may     *)
(* trim between the two reads (get_conversation_state).                     *)
THEOREM WindowCoveredWhenPatient ==
  ASSUME Patient
  PROVE  Spec => []WindowCovered
<1>1. WindowInv => WindowCovered
  BY DEF WindowInv, WindowHandler, WindowCovered, Window, Given
<1> QED
  BY <1>1, WindowInvariant, PTL

(* And one task per overflow is enough: the list never grows past its       *)
(* threshold by more than the turn that crossed it.                         *)
THEOREM BufferBoundedWhenPatient ==
  ASSUME Patient
  PROVE  Spec => []BufferBounded
<1>1. WindowInv => BufferBounded
  BY DEF WindowInv, BufferBounded
<1> QED
  BY <1>1, WindowInvariant, PTL
-----------------------------------------------------------------------------
(* The two tiers implement the abstract memory.                            *)

(* Both tiers, and every copy of them on its way through a turn or a task,  *)
(* hold messages of the log only.                                           *)
FromLog ==
  /\ summary \subseteq Range(log)
  /\ \A t \in tasks : t.covers \subseteq Range(log)
  /\ \A c \in Conns : Given(c) \subseteq Range(log)

(* A turn that has not been persisted is new to the log and no other's. *)
Unsaved == {"loading", "loadingSummary", "running"}

NewTurns ==
  /\ \A i \in 1 .. Len(log) : log[i].turn <= turns
  /\ \A c \in Conns : pc[c] \in Unsaved =>
       /\ turn[c] <= turns
       /\ \A i \in 1 .. Len(log) : log[i].turn # turn[c]
  /\ \A c, d \in Conns : pc[c] \in Unsaved /\ pc[d] \in Unsaved /\ turn[c] = turn[d] => c = d

(* A list holds what its parts hold. *)
LEMMA PairRange ==
  ASSUME NEW s \in Seq(Message), NEW n \in Turns
  PROVE  Range(s \o Pair(n)) = Range(s) \cup {Pair(n)[1], Pair(n)[2]}
<1> DEFINE t == s \o Pair(n)
<1>1. /\ Len(s) \in Nat
      /\ t \in Seq(Message)
      /\ Len(t) = Len(s) + 2
      /\ \A i \in 1 .. Len(s) + 2 : t[i] = IF i <= Len(s) THEN s[i] ELSE Pair(n)[i - Len(s)]
  BY LenProperties, PairConcat
<1>2. DOMAIN s = 1 .. Len(s) /\ DOMAIN t = 1 .. Len(s) + 2
  BY <1>1, LenProperties
<1> HIDE DEF t
<1>3. /\ Len(s) + 1 \in 1 .. Len(s) + 2 /\ ~ (Len(s) + 1 <= Len(s)) /\ Len(s) + 1 - Len(s) = 1
      /\ Len(s) + 2 \in 1 .. Len(s) + 2 /\ ~ (Len(s) + 2 <= Len(s)) /\ Len(s) + 2 - Len(s) = 2
  BY <1>1
<1>4. t[Len(s) + 1] = Pair(n)[1] /\ t[Len(s) + 2] = Pair(n)[2]
  BY <1>1, <1>3
<1>5. \A i \in 1 .. Len(s) : i \in 1 .. Len(s) + 2 /\ t[i] = s[i]
  BY <1>1
<1>6. \A i \in 1 .. Len(s) + 2 : i \in 1 .. Len(s) \/ i = Len(s) + 1 \/ i = Len(s) + 2
  BY <1>1
<1>7. Range(s) = {s[i] : i \in 1 .. Len(s)} /\ Range(t) = {t[i] : i \in 1 .. Len(s) + 2}
  BY <1>2 DEF Range
<1>8. Range(t) = Range(s) \cup {Pair(n)[1], Pair(n)[2]}
  BY <1>3, <1>4, <1>5, <1>6, <1>7
<1> QED
  BY <1>8 DEF t

(* Trimming only takes messages away. *)
LEMMA LastNRange ==
  ASSUME NEW s \in Seq(Message), NEW n \in Nat
  PROVE  Range(LastN(s, n)) \subseteq Range(s)
<1> DEFINE t == LastN(s, n)
<1>1. /\ Len(s) \in Nat
      /\ t \in Seq(Message)
      /\ Len(t) = IF Len(s) > n THEN n ELSE Len(s)
      /\ \A i \in 1 .. Len(t) : t[i] = s[Len(s) - Len(t) + i]
      /\ DOMAIN s = 1 .. Len(s)
  BY LenProperties, LastNProperties
<1>2. DOMAIN t = 1 .. Len(t)
  BY <1>1, LenProperties
<1> HIDE DEF t
<1>3. Len(t) \in Nat /\ Len(t) <= Len(s)
  BY <1>1
<1>4. \A i \in 1 .. Len(t) : Len(s) - Len(t) + i \in 1 .. Len(s)
  BY <1>1, <1>3
<1>5. Range(t) \subseteq Range(s)
  BY <1>1, <1>2, <1>4 DEF Range
<1> QED
  BY <1>5 DEF t

(* The list is part of the log. *)
LEMMA BufferFromLog == TypeOK /\ SuffixInv => Range(buffer) \subseteq Range(log)
<1> SUFFICES ASSUME TypeOK, SuffixInv PROVE Range(buffer) \subseteq Range(log)
  OBVIOUS
<1>1. /\ Len(buffer) \in Nat /\ Len(log) \in Nat /\ Len(buffer) <= Len(log)
      /\ DOMAIN buffer = 1 .. Len(buffer) /\ DOMAIN log = 1 .. Len(log)
  BY LenProperties DEF TypeOK, SuffixInv
<1>2. \A i \in 1 .. Len(buffer) : Len(log) - Len(buffer) + i \in 1 .. Len(log)
  BY <1>1
<1> QED
  BY <1>1, <1>2 DEF SuffixInv, Range

LEMMA NextFromLog == TypeOK /\ SuffixInv /\ FromLog /\ [Next]_vars => FromLog'
<1> SUFFICES ASSUME TypeOK, SuffixInv, FromLog, [Next]_vars PROVE FromLog'
  OBVIOUS
<1>1. Range(buffer) \subseteq Range(log) /\ buffer \in Seq(Message) /\ log \in Seq(Message)
  BY BufferFromLog DEF TypeOK
<1>2. /\ prior \in [Conns -> SUBSET Message]
      /\ history \in [Conns -> Seq(Message)]
  BY DEF TypeOK
<1>3. Range(<< >>) = {}
  BY DEF Range
<1>4. ASSUME UNCHANGED << summary, tasks, log, prior, history >> PROVE FromLog'
  BY <1>4 DEF FromLog, Given
<1>5. ASSUME NEW c \in Conns, LoadHistory(c) \/ LoadHistoryFails(c) PROVE FromLog'
  <2>1. UNCHANGED << summary, tasks, log >>
    BY <1>5 DEF LoadHistory, LoadHistoryFails, keys
  <2>2. Range(LastN(buffer, MaxRecent)) \subseteq Range(log)
    BY <1>1, LastNRange, MemoryAssumption
  <2>3. PICK h : history' = [history EXCEPT ![c] = h] /\ Range(h) \subseteq Range(log)
    BY <1>3, <1>5, <2>2 DEF LoadHistory, LoadHistoryFails
  <2>4. prior' = [prior EXCEPT ![c] = {}] \/ UNCHANGED prior
    BY <1>5 DEF LoadHistory, LoadHistoryFails
  <2>5. ASSUME NEW d \in Conns PROVE Given(d)' \subseteq Range(log)
    <3>1. prior'[d] \subseteq Range(log)
      BY <1>2, <2>4 DEF FromLog, Given
    <3>2. Range(history'[d]) \subseteq Range(log)
      BY <1>2, <2>3 DEF FromLog, Given
    <3> QED
      BY <3>1, <3>2 DEF Given
  <2> QED
    BY <2>1, <2>5 DEF FromLog
<1>6. ASSUME NEW c \in Conns, LoadSummary(c) \/ LoadSummaryFails(c) PROVE FromLog'
  <2>1. UNCHANGED << summary, tasks, log, history >>
    BY <1>6 DEF LoadSummary, LoadSummaryFails, keys
  <2>2. prior' = [prior EXCEPT ![c] = summary] \/ prior' = [prior EXCEPT ![c] = {}]
    BY <1>6 DEF LoadSummary, LoadSummaryFails
  <2>3. ASSUME NEW d \in Conns PROVE Given(d)' \subseteq Range(log)
    BY <1>2, <2>1, <2>2 DEF FromLog, Given
  <2> QED
    BY <2>1, <2>3 DEF FromLog
<1>7. ASSUME NEW c \in Conns, SaveTurn(c) \/ SaveTurnFails(c) PROVE FromLog'
  <2>1. turn[c] \in Turns /\ UNCHANGED << summary, tasks, prior, history >>
    BY <1>7 DEF TypeOK, SaveTurn, SaveTurnFails, Goto
  <2>2. log' = log \o Pair(turn[c]) \/ UNCHANGED log
    BY <1>7 DEF SaveTurn, SaveTurnFails, AppendPair
  <2>3. Range(log) \subseteq Range(log')
    BY <1>1, <2>1, <2>2, PairRange
  <2> QED
    BY <2>1, <2>3 DEF FromLog, Given
<1>8. ASSUME NEW c \in Conns, Respond(c) PROVE FromLog'
  <2>1. UNCHANGED << summary, log, prior, history >>
    BY <1>8 DEF Respond, keys
  <2>2. \A t \in tasks' : t \in tasks \/ t.covers = Given(c)
    BY <1>8 DEF Respond, Given
  <2> QED
    BY <2>1, <2>2 DEF FromLog, Given
<1>9. ASSUME NEW t \in tasks, SaveSummary(t) \/ SaveSummaryFails(t) PROVE FromLog'
  <2>1. UNCHANGED << log, prior, history >> /\ tasks' \subseteq tasks
    BY <1>9 DEF SaveSummary, SaveSummaryFails, handler
  <2>2. summary' = t.covers \/ UNCHANGED summary
    BY <1>9 DEF SaveSummary, SaveSummaryFails, WriteSummary, keys
  <2> QED
    BY <2>1, <2>2 DEF FromLog, Given
<1>10. CASE Tick
  <2>1. UNCHANGED << tasks, log, prior, history >> /\ (summary' = {} \/ UNCHANGED summary)
    BY <1>10 DEF Tick, handler
  <2> QED
    BY <2>1 DEF FromLog, Given
<1>11. CASE Crash
  <2>1. UNCHANGED << summary, log, prior, history >> /\ tasks' = {}
    BY <1>11 DEF Crash, keys
  <2> QED
    BY <2>1 DEF FromLog, Given
<1>12. ASSUME NEW c \in Conns,
              \/ Connect(c) \/ Receive(c) \/ AbandonTurn(c)
              \/ CheckLength(c) \/ CheckLengthFails(c) \/ Disconnect(c)
       PROVE  FromLog'
  BY <1>4, <1>12 DEF Connect, Receive, AbandonTurn, CheckLength, CheckLengthFails, Disconnect, keys
<1>13. CASE UNCHANGED vars
  BY <1>4, <1>13 DEF vars, keys, handler
<1> QED
  BY <1>5, <1>6, <1>7, <1>8, <1>9, <1>10, <1>11, <1>12, <1>13 DEF Next, HandlerStep, HandlerFails

(* No turn is in the log twice, for every turn is numbered by a counter. *)
LEMMA NextNewTurns == TypeOK /\ NewTurns /\ [Next]_vars => NewTurns'
<1> SUFFICES ASSUME TypeOK, NewTurns, [Next]_vars PROVE NewTurns'
  OBVIOUS
<1>1. /\ turns \in Nat /\ log \in Seq(Message) /\ Len(log) \in Nat
      /\ turn \in [Conns -> 0 .. MaxTurns]
      /\ pc \in [Conns -> PC]
  BY LenProperties, MemoryAssumption DEF TypeOK
<1>2. \A i \in 1 .. Len(log) : log[i].turn \in Nat
  <2>1. \A i \in 1 .. Len(log) : log[i] \in Message
    BY <1>1, ElementOfSeq
  <2> QED
    BY <2>1 DEF Message, Turns
<1>3. ASSUME UNCHANGED << log, turn, turns >>,
             \A c \in Conns : pc'[c] \in Unsaved => pc[c] \in Unsaved
      PROVE  NewTurns'
  BY <1>3 DEF NewTurns
<1>4. ASSUME NEW c \in Conns, Receive(c) PROVE NewTurns'
  <2>1. /\ turns' = turns + 1
        /\ turn' = [turn EXCEPT ![c] = turns + 1]
        /\ UNCHANGED log
        /\ \A d \in Conns : d # c => pc'[d] = pc[d]
    BY <1>1, <1>4 DEF Receive, Goto
  <2>2. \A d \in Conns : d # c => turn'[d] = turn[d]
    BY <1>1, <2>1
  <2>3. turn'[c] = turns + 1
    BY <1>1, <2>1
  <2>4. \A i \in 1 .. Len(log) : log[i].turn <= turns' /\ log[i].turn # turns + 1
    BY <1>1, <1>2, <2>1 DEF NewTurns
  <2>5. \A d \in Conns : d # c /\ pc[d] \in Unsaved => turn[d] <= turns' /\ turn[d] # turns + 1
    BY <1>1, <2>1 DEF NewTurns
  <2> QED
    BY <1>1, <2>1, <2>2, <2>3, <2>4, <2>5 DEF NewTurns
<1>5. ASSUME NEW c \in Conns, SaveTurn(c) \/ SaveTurnFails(c) PROVE NewTurns'
  <2>1. /\ UNCHANGED << turn, turns >>
        /\ turn[c] \in Turns
        /\ pc[c] = "running" /\ pc'[c] \notin Unsaved
        /\ \A d \in Conns : d # c => pc'[d] = pc[d]
    BY <1>1, <1>5 DEF SaveTurn, SaveTurnFails, Goto, Fault, counters, Unsaved, TypeOK
  <2>2. \A d \in Conns : pc'[d] \in Unsaved => pc[d] \in Unsaved /\ d # c
    BY <2>1
  <2>3. CASE UNCHANGED log
    BY <1>3, <2>1, <2>2, <2>3
  <2>4. CASE AppendPair(turn[c])
    <3>1. /\ Len(log') = Len(log) + 2
          /\ \A i \in 1 .. Len(log) + 2 :
               log'[i] = IF i <= Len(log) THEN log[i] ELSE Pair(turn[c])[i - Len(log)]
      BY <1>1, <2>1, <2>4, PairConcat DEF AppendPair
    <3>2. ASSUME NEW i \in 1 .. Len(log')
          PROVE  log'[i].turn = turn[c] \/ (i \in 1 .. Len(log) /\ log'[i] = log[i])
      <4>1. CASE i <= Len(log)
        BY <1>1, <3>1, <4>1
      <4>2. CASE ~ (i <= Len(log))
        <5>1. log'[i] = Pair(turn[c])[i - Len(log)] /\ i - Len(log) \in {1, 2}
          BY <1>1, <3>1, <4>2
        <5> QED
          BY <5>1 DEF Pair
      <4> QED
        BY <4>1, <4>2
    <3>3. turn[c] <= turns /\ \A d \in Conns : pc'[d] \in Unsaved => turn[d] # turn[c]
      BY <2>1, <2>2 DEF NewTurns, Unsaved
    <3> QED
      BY <2>1, <2>2, <3>2, <3>3 DEF NewTurns
  <2> QED
    BY <1>5, <2>3, <2>4 DEF SaveTurn, SaveTurnFails
<1>6. ASSUME NEW c \in Conns, Connect(c) \/ AbandonTurn(c) \/ Disconnect(c) PROVE NewTurns'
  <2>1. \A d \in Conns : pc'[d] \in Unsaved => pc[d] \in Unsaved
    BY <1>1, <1>6 DEF Connect, AbandonTurn, Disconnect, Goto, Unsaved
  <2> QED
    BY <1>3, <1>6, <2>1 DEF Connect, AbandonTurn, Disconnect, Fault, counters
<1>7. ASSUME NEW c \in Conns,
             \/ LoadHistory(c) \/ LoadHistoryFails(c) \/ LoadSummary(c) \/ LoadSummaryFails(c)
      PROVE  NewTurns'
  <2>1. \A d \in Conns : pc'[d] \in Unsaved => pc[d] \in Unsaved
    BY <1>1, <1>7
       DEF LoadHistory, LoadHistoryFails, LoadSummary, LoadSummaryFails, Goto, Unsaved
  <2> QED
    BY <1>3, <1>7, <2>1
       DEF LoadHistory, LoadHistoryFails, LoadSummary, LoadSummaryFails, Fault, counters
<1>8. ASSUME NEW c \in Conns, CheckLength(c) \/ CheckLengthFails(c) \/ Respond(c) PROVE NewTurns'
  <2>1. \A d \in Conns : pc'[d] \in Unsaved => pc[d] \in Unsaved
    BY <1>1, <1>8 DEF CheckLength, CheckLengthFails, Respond, Goto, Unsaved
  <2> QED
    BY <1>3, <1>8, <2>1 DEF CheckLength, CheckLengthFails, Respond, Fault, counters
<1>9. ASSUME NEW t \in tasks, SaveSummary(t) \/ SaveSummaryFails(t) PROVE NewTurns'
  BY <1>3, <1>9 DEF SaveSummary, SaveSummaryFails, Fault, handler, counters
<1>10. CASE Crash
  BY <1>3, <1>10 DEF Crash, Fault, Unsaved
<1>11. CASE Tick
  BY <1>3, <1>11 DEF Tick, handler
<1>12. CASE UNCHANGED vars
  BY <1>3, <1>12 DEF vars, handler, counters
<1> QED
  BY <1>4, <1>5, <1>6, <1>7, <1>8, <1>9, <1>10, <1>11, <1>12 DEF Next, HandlerStep, HandlerFails

LEMMA InitFromLog == Init => FromLog /\ NewTurns
<1> SUFFICES ASSUME Init PROVE FromLog /\ NewTurns
  OBVIOUS
<1>1. Len(<< >>) = 0 /\ Range(<< >>) = {}
  BY EmptySeq DEF Range
<1> QED
  BY <1>1 DEF Init, FromLog, NewTurns, Given, Unsaved

(* What a patient environment guarantees, for the refinement. *)
RefinementInv == PatientIInv /\ FromLog /\ NewTurns

(* All that was said, and only that, is recalled. *)
LEMMA RecalledIsSaid == RefinementInv => Recalled = Range(log)
<1> SUFFICES ASSUME RefinementInv PROVE Recalled = Range(log)
  OBVIOUS
<1>1. Range(buffer) \subseteq Range(log)
  BY BufferFromLog DEF RefinementInv, PatientIInv
<1>2. DOMAIN log = 1 .. Len(log)
  BY LenProperties DEF RefinementInv, PatientIInv, TypeOK
<1> QED
  BY <1>1, <1>2 DEF RefinementInv, PatientIInv, PatientInv, FromLog, Holds, Recalled, Range

(* Saving a turn remembers it; every other step leaves the abstract memory. *)
LEMMA StepRefines ==
  ASSUME Patient, RefinementInv, RefinementInv', [Next]_vars
  PROVE  [Memory!Next]_<< log, Recalled >>
<1>1. Recalled = Range(log) /\ (Recalled = Range(log))'
  <2>1. (RefinementInv => Recalled = Range(log))'
    BY RecalledIsSaid, PTL
  <2> QED
    BY <2>1, RecalledIsSaid
<1>2. /\ log \in Seq(Message) /\ turn \in [Conns -> 0 .. MaxTurns]
      /\ ~ (faults < MaxFaults)
  BY MemoryAssumption DEF RefinementInv, PatientIInv, TypeOK, Patient
<1>3. CASE UNCHANGED log
  BY <1>1, <1>3
<1>4. ASSUME NEW c \in Conns, SaveTurn(c) PROVE Memory!Next
  <2>1. /\ turn[c] \in Turns
        /\ pc[c] = "running"
        /\ log' = log \o Pair(turn[c])
    BY <1>4 DEF SaveTurn, Goto, AppendPair, RefinementInv, PatientIInv, TypeOK
  <2>2. \A i \in 1 .. Len(log) : log[i].turn # turn[c]
    BY <2>1 DEF RefinementInv, NewTurns, Unsaved
  <2>3. Memory!Turn(turn[c]) = Pair(turn[c])
    BY DEF Memory!Turn, Pair
  <2>4. Recalled' = Recalled \cup {Pair(turn[c])[1], Pair(turn[c])[2]}
    BY <1>1, <1>2, <2>1, PairRange
  <2>5. Memory!Remember(turn[c])
    BY <2>1, <2>2, <2>3, <2>4 DEF Memory!Remember
  <2> QED
    BY <2>1, <2>5 DEF Memory!Next
<1>5. (\A c \in Conns : ~ SaveTurn(c)) => UNCHANGED log
  <2>1. ~ Fault
    BY <1>2 DEF Fault
  <2> QED
    BY <2>1 DEF Next, vars, HandlerStep, HandlerFails, Connect, Receive, AbandonTurn, LoadHistory,
           LoadSummary, CheckLength, Respond, LoadHistoryFails, LoadSummaryFails, SaveTurnFails,
           CheckLengthFails, Disconnect, SaveSummary, SaveSummaryFails, Crash, Tick
<1> QED
  BY <1>3, <1>4, <1>5

(* For any limits, any number of turns and any interleaving of a turn with  *)
(* the summary task before it: in a patient environment buffer and summary   *)
(* together are a memory to which whole turns are added, each once, and from *)
(* which nothing is lost, whatever moves from one tier to the other.         *)
THEOREM RemembersEverythingWhenPatient ==
  ASSUME Patient
  PROVE  Spec => RemembersEverything
<1>1. Init => Memory!Init
  BY DEF Init, Memory!Init, Recalled, Range
<1>2. PatientIInv /\ FromLog /\ NewTurns /\ [Next]_vars => (FromLog /\ NewTurns)'
  BY NextFromLog, NextNewTurns DEF PatientIInv
<1>3. Spec => []RefinementInv
  BY <1>2, InitFromLog, PatientInvariant, PTL DEF Spec, RefinementInv
<1>4. RefinementInv /\ RefinementInv' /\ [Next]_vars => [Memory!Next]_<< log, Recalled >>
  BY StepRefines
<1> QED
  BY <1>1, <1>3, <1>4, PTL DEF Spec, RemembersEverything, Memory!Spec
=============================================================================
