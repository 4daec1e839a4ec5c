------------------------- MODULE ToolExecutorProofs -------------------------
(***************************************************************************)
(* The safety of the tool executor for any number of sessions, users,      *)
(* courses and requests: types, that the calls of a session touch the rows *)
(* of its own user only, and that the table, the audit log and the answers *)
(* agree on what was done.                                                 *)
(***************************************************************************)
EXTENDS ToolExecutor, SequenceTheorems, TLAPS

-----------------------------------------------------------------------------
(* Type correctness.                                                       *)

(* The calls of a round are records, and have an identity. *)
LEMMA CallType ==
  ASSUME TypeOK, NEW s \in Sessions, NEW i \in DOMAIN calls[s]
  PROVE  calls[s][i] \in CallRecord /\ Id(s, i) \in CallId
<1>1. calls[s] \in Seq(CallRecord)
  BY DEF TypeOK
<1>2. i \in 1 .. Len(calls[s])
  BY <1>1, LenProperties
<1>3. calls[s][i] \in CallRecord
  BY <1>1, <1>2, ElementOfSeq
<1>4. turn[s] \in Nat /\ calls[s][i].number \in Nat
  BY <1>3 DEF TypeOK, CallRecord
<1> QED
  BY <1>3, <1>4 DEF Id, CallId

(* Replacing one call's record keeps the type of the round. *)
LEMMA UpdateType ==
  ASSUME TypeOK, NEW s \in Sessions, NEW i \in DOMAIN calls[s], NEW r \in CallRecord
  PROVE  [calls EXCEPT ![s][i] = r] \in [Sessions -> Seq(CallRecord)]
<1>1. calls \in [Sessions -> Seq(CallRecord)]
  BY DEF TypeOK
<1>2. i \in 1 .. Len(calls[s])
  BY <1>1, LenProperties
<1>3. [calls[s] EXCEPT ![i] = r] \in Seq(CallRecord)
  BY <1>1, <1>2, ExceptSeq
<1> QED
  BY <1>1, <1>3

LEMMA StepType ==
  ASSUME TypeOK, NEW s \in Sessions, NEW i \in DOMAIN calls[s],
         NEW at \in Pc, NEW answer \in Answer, Step(s, i, at, answer)
  PROVE  calls' \in [Sessions -> Seq(CallRecord)]
<1> DEFINE r == [calls[s][i] EXCEPT !.at = at, !.answer = answer]
<1>1. r \in CallRecord
  BY CallType DEF CallRecord
<1>2. calls' = [calls EXCEPT ![s][i] = r]
  BY DEF Step
<1> QED
  BY <1>1, <1>2, UpdateType

(* What a step that writes must leave well-typed. *)
TablesType ==
  /\ rows \subseteq Row
  /\ next_id \in Nat
  /\ audit \subseteq AuditRow
  /\ inserted \subseteq [by : CallId, row : Row]
  /\ deleted \subseteq [by : CallId, row : Row]

LEMMA InsertType ==
  ASSUME TypeOK, NEW by \in CallId, NEW call \in CallRecord, Insert(by, call)
  PROVE  TablesType'
<1> DEFINE row == [id |-> next_id, user |-> call.user, code |-> call.code]
<1>1. row \in Row
  BY DEF TypeOK, Row, CallRecord
<1>2. /\ rows' = rows \cup {row}
      /\ inserted' = inserted \cup {[by |-> by, row |-> row]}
      /\ next_id' = next_id + 1
      /\ UNCHANGED << audit, deleted >>
  BY DEF Insert
<1> QED
  BY <1>1, <1>2 DEF TypeOK, TablesType

LEMMA DeleteType ==
  ASSUME TypeOK, NEW by \in CallId, NEW call \in CallRecord, Delete(by, call)
  PROVE  TablesType'
<1>1. call.doomed \subseteq Row
  BY DEF CallRecord
<1>2. {[by |-> by, row |-> r] : r \in call.doomed} \subseteq [by : CallId, row : Row]
  BY <1>1
<1>3. /\ rows' = rows \ call.doomed
      /\ deleted' = deleted \cup {[by |-> by, row |-> r] : r \in call.doomed}
      /\ UNCHANGED << next_id, audit, inserted >>
  BY DEF Delete
<1> QED
  BY <1>2, <1>3 DEF TypeOK, TablesType

LEMMA LogType ==
  ASSUME TypeOK, NEW by \in CallId, NEW call \in CallRecord, Log(by, call)
  PROVE  TablesType'
<1>1. owner[by.session] \in Users
  BY DEF TypeOK, CallId
<1>2. [by |-> by, user |-> owner[by.session], tool |-> call.tool,
       flagged |-> call.answer = "error"] \in AuditRow
  BY <1>1 DEF AuditRow, CallRecord
<1> QED
  BY <1>2 DEF Log, TypeOK, TablesType

LEMMA WriteType ==
  ASSUME TypeOK, NEW by \in CallId, NEW call \in CallRecord, Write(by, call) \/ NoWrite
  PROVE  TablesType'
<1>1. NoWrite => TablesType'
  BY DEF NoWrite, tables, TypeOK, TablesType
<1> QED
  BY <1>1, InsertType, DeleteType, LogType DEF Write

LEMMA InitType == Init => TypeOK
<1> SUFFICES ASSUME Init PROVE TypeOK
  OBVIOUS
<1>1. << >> \in Seq(CallRecord)
  BY EmptySeq
<1> QED
  BY <1>1 DEF Init, TypeOK

(* A request becomes a call of the session's user. *)
LEMMA DispatchType ==
  ASSUME TypeOK, NEW s \in Sessions, NEW request \in Request, NEW number \in Nat
  PROVE  Dispatch(s, request, number) \in CallRecord
<1>1. /\ request.tool \in Tools
      /\ request.code \in Codes
      /\ request.arguments \in Arguments
      /\ owner[s] \in Users
  BY DEF TypeOK, Request
<1> QED
  BY <1>1 DEF Dispatch, CallRecord, Pc, Answer

LEMMA ToldType ==
  ASSUME NEW by \in CallId, NEW call \in CallRecord
  PROVE  Told(by, call) \in CallAnswer
BY DEF Told, CallAnswer, CallRecord

(* A round's calls, and the answers that some of them have at once. *)
LEMMA StartRoundSteps ==
  ASSUME NEW s \in Sessions, StartRound(s)
  PROVE  \E n, round :
           /\ n \in 1 .. MaxAsked - asked
           /\ \E requests \in [1 .. n -> Requests] :
                round = [i \in 1 .. n |-> Dispatch(s, requests[i], call_count[s] + i)]
           /\ calls' = [calls EXCEPT ![s] = round]
           /\ told' = told \cup
                {Told([session |-> s, turn |-> turn[s], number |-> round[i].number], round[i]) :
                   i \in {j \in 1 .. n : round[j].at = "returned"}}
           /\ asked' = asked + n
BY DEF StartRound

LEMMA StartRoundType ==
  ASSUME TypeOK, NEW s \in Sessions, StartRound(s)
  PROVE  TypeOK'
<1>1. PICK n, round :
         /\ n \in 1 .. MaxAsked - asked
         /\ \E requests \in [1 .. n -> Requests] :
              round = [i \in 1 .. n |-> Dispatch(s, requests[i], call_count[s] + i)]
         /\ calls' = [calls EXCEPT ![s] = round]
         /\ told' = told \cup
              {Told([session |-> s, turn |-> turn[s], number |-> round[i].number], round[i]) :
                 i \in {j \in 1 .. n : round[j].at = "returned"}}
         /\ asked' = asked + n
  BY StartRoundSteps
<1>2. n \in Nat /\ call_count[s] \in Nat /\ asked \in Nat /\ turn[s] \in Nat
  BY <1>1, ExecutorAssumption DEF TypeOK
<1>3. \A requests \in [1 .. n -> Requests], i \in 1 .. n :
        Dispatch(s, requests[i], call_count[s] + i) \in CallRecord
  BY <1>1, <1>2, DispatchType, ExecutorAssumption
<1>4. round \in [1 .. n -> CallRecord]
  BY <1>1, <1>3
<1>5. round \in Seq(CallRecord)
  BY <1>2, <1>4, SeqDef
<1>6. calls' \in [Sessions -> Seq(CallRecord)] /\ asked' \in Nat
  BY <1>1, <1>2, <1>5 DEF TypeOK
<1>7. \A i \in 1 .. n : [session |-> s, turn |-> turn[s], number |-> round[i].number] \in CallId
  BY <1>2, <1>4 DEF CallId, CallRecord
<1>8. told' \subseteq CallAnswer
  <2>1. told \subseteq CallAnswer
    BY DEF TypeOK
  <2>2. \A i \in 1 .. n :
          Told([session |-> s, turn |-> turn[s], number |-> round[i].number], round[i]) \in CallAnswer
    BY <1>4, <1>7, ToldType
  <2> QED
    BY <1>1, <2>1, <2>2
<1>9. UNCHANGED << tables, session, turns, faults, orphans, inserted, deleted >>
  BY DEF StartRound
<1> QED
  BY <1>6, <1>8, <1>9 DEF TypeOK, tables, session

LEMMA TellType ==
  ASSUME TypeOK, NEW s \in Sessions, NEW i \in DOMAIN calls[s], Tell(s, i)
  PROVE  /\ calls' \in [Sessions -> Seq(CallRecord)]
         /\ told' \subseteq CallAnswer
<1> DEFINE r == [calls[s][i] EXCEPT !.at = "returned", !.doomed = {}, !.seen = {}]
           t == Told(Id(s, i), calls[s][i])
<1>1. calls[s][i] \in CallRecord /\ Id(s, i) \in CallId
  BY CallType
<1>2. r \in CallRecord
  BY <1>1 DEF CallRecord, Pc
<1>3. t \in CallAnswer
  BY <1>1, ToldType
<1>4. calls' = [calls EXCEPT ![s][i] = r] /\ told' = told \cup {t}
  BY DEF Tell
<1> HIDE DEF r, t
<1> QED
  BY <1>2, <1>3, <1>4, UpdateType DEF TypeOK

LEMMA DeleteExecutesType ==
  ASSUME TypeOK, NEW s \in Sessions, NEW i \in DOMAIN calls[s], DeleteExecutes(s, i)
  PROVE  calls' \in [Sessions -> Seq(CallRecord)]
<1> DEFINE doomed == {x \in rows : x.user = calls[s][i].user /\ x.code = Upper(calls[s][i].code)}
           r == [calls[s][i] EXCEPT !.at = "commit", !.doomed = doomed, !.seen = rows]
<1>1. calls' = [calls EXCEPT ![s][i] = r]
  BY DEF DeleteExecutes
<1>2. doomed \in SUBSET Row /\ rows \in SUBSET Row
  BY DEF TypeOK
<1> HIDE DEF doomed
<1>3. r \in CallRecord
  BY <1>2, CallType DEF CallRecord, Pc
<1> QED
  BY <1>1, <1>3, UpdateType

(* Every step of a call keeps the types. *)
LEMMA CallStepType ==
  ASSUME TypeOK, NEW s \in Sessions, NEW i \in DOMAIN calls[s], Call(s, i)
  PROVE  TypeOK'
<1>1. calls[s][i] \in CallRecord /\ Id(s, i) \in CallId
  BY CallType
<1>2. /\ "refresh" \in Pc /\ "audit" \in Pc
      /\ "none" \in Answer /\ "ok" \in Answer /\ "error" \in Answer
  BY DEF Pc, Answer
<1>3. CASE SaveCommits(s, i)
  BY <1>1, <1>2, <1>3, StepType, InsertType
     DEF SaveCommits, TypeOK, TablesType, session, counters
<1>4. CASE Refresh(s, i)
  BY <1>2, <1>4, StepType DEF Refresh, TypeOK, tables, session, counters, history
<1>5. CASE DeleteExecutes(s, i)
  <2>1. UNCHANGED << tables, session, orphans, counters, history >>
    BY <1>5 DEF DeleteExecutes
  <2> QED
    BY <1>5, <2>1, DeleteExecutesType DEF TypeOK, tables, session, counters, history
<1>6. CASE DeleteCommits(s, i)
  BY <1>1, <1>2, <1>6, StepType, DeleteType
     DEF DeleteCommits, TypeOK, TablesType, session, counters
<1>7. CASE Reads(s, i)
  BY <1>2, <1>7, StepType DEF Reads, TypeOK, tables, session, counters, history
<1>8. CASE BodyRejects(s, i)
  BY <1>2, <1>8, StepType DEF BodyRejects, TypeOK, tables, session, counters, history
<1>9. CASE BodyFails(s, i)
  <2>1. Write(Id(s, i), calls[s][i]) \/ NoWrite
    BY <1>9 DEF BodyFails
  <2>2. TablesType'
    BY <1>1, <2>1, WriteType
  <2> QED
    BY <1>2, <1>9, <2>2, StepType DEF BodyFails, Fault, TypeOK, TablesType, session
<1>10. CASE WriteAudit(s, i)
  BY <1>1, <1>10, LogType, TellType DEF WriteAudit, TypeOK, TablesType, session, counters
<1>11. CASE AuditFails(s, i)
  <2>1. TablesType'
    BY <1>1, <1>11, LogType, WriteType DEF AuditFails
  <2> QED
    BY <1>11, <2>1, TellType DEF AuditFails, Fault, TypeOK, TablesType, session
<1> QED
  BY <1>3, <1>4, <1>5, <1>6, <1>7, <1>8, <1>9, <1>10, <1>11 DEF Call

LEMMA CancelType ==
  ASSUME TypeOK, NEW s \in Sessions, Cancel(s)
  PROVE  TypeOK'
<1>1. {[by |-> Id(s, i), call |-> calls[s][i]] : i \in {j \in DOMAIN calls[s] : Writing(calls[s][j])}}
        \subseteq [by : CallId, call : CallRecord]
  BY CallType
<1>2. << >> \in Seq(CallRecord)
  BY EmptySeq
<1>3. calls' \in [Sessions -> Seq(CallRecord)]
  BY <1>2 DEF Cancel, TypeOK
<1> QED
  BY <1>1, <1>3 DEF Cancel, TypeOK, tables, counters, history

LEMMA NextType == TypeOK /\ [Next]_vars => TypeOK'
<1> SUFFICES ASSUME TypeOK, [Next]_vars PROVE TypeOK'
  OBVIOUS
<1>1. ASSUME NEW s \in Sessions, BeginTurn(s)
      PROVE  TypeOK'
  BY <1>1 DEF BeginTurn, TypeOK, tables, history
<1>2. ASSUME NEW s \in Sessions, StartRound(s)
      PROVE  TypeOK'
  BY <1>2, StartRoundType
<1>3. ASSUME NEW s \in Sessions, FinishRound(s)
      PROVE  TypeOK'
  <2>1. << >> \in Seq(CallRecord)
    BY EmptySeq
  <2>2. Len(calls[s]) \in Nat
    BY LenProperties DEF TypeOK
  <2> QED
    BY <1>3, <2>1, <2>2 DEF FinishRound, TypeOK, tables, counters, history
<1>4. ASSUME NEW s \in Sessions, EndTurn(s)
      PROVE  TypeOK'
  BY <1>4 DEF EndTurn, TypeOK, tables, counters, history
<1>5. ASSUME NEW s \in Sessions, Cancel(s)
      PROVE  TypeOK'
  BY <1>5, CancelType
<1>6. ASSUME NEW s \in Sessions, NEW i \in DOMAIN calls[s], Call(s, i)
      PROVE  TypeOK'
  BY <1>6, CallStepType
<1>7. ASSUME NEW o \in orphans, Settle(o)
      PROVE  TypeOK'
  <2>1. o.by \in CallId /\ o.call \in CallRecord
    BY DEF TypeOK
  <2>2. TablesType'
    BY <1>7, <2>1, WriteType DEF Settle
  <2> QED
    BY <1>7, <2>2 DEF Settle, TypeOK, TablesType, session, counters
<1>8. CASE UNCHANGED vars
  BY <1>8 DEF vars, tables, session, counters, history, TypeOK
<1> QED
  BY <1>1, <1>2, <1>3, <1>4, <1>5, <1>6, <1>7, <1>8 DEF Next

(* The records of calls, orphaned writes, tables and log keep their types. *)
THEOREM TypeCorrect == Spec => []TypeOK
BY InitType, NextType, PTL DEF Spec

-----------------------------------------------------------------------------
(* Ownership.  EffectsAreOwn alone is not inductive: a step that writes     *)
(* does so with the user, and deletes the rows, that the call's record was  *)
(* given steps before, or that an orphaned write took along.                *)

Own(call, user) ==
  /\ call.user = user
  /\ \A r \in call.doomed : r.user = user

OwnInv ==
  /\ TypeOK
  /\ \A s \in Sessions : \A i \in DOMAIN calls[s] : Own(calls[s][i], owner[s])
  /\ \A o \in orphans : Own(o.call, owner[o.by.session])
  /\ EffectsAreOwn

LEMMA InitOwn == Init => OwnInv
<1> SUFFICES ASSUME Init PROVE OwnInv
  OBVIOUS
<1>1. TypeOK
  BY InitType
<1> QED
  BY <1>1 DEF Init, OwnInv, EffectsAreOwn

(* A write of a call that is its session's own affects that user's rows. *)
LEMMA WriteOwn ==
  ASSUME OwnInv, NEW by, NEW call, Own(call, owner[by.session]),
         Insert(by, call) \/ Delete(by, call) \/ Log(by, call) \/ NoWrite,
         owner' = owner
  PROVE  EffectsAreOwn'
<1>1. CASE Insert(by, call)
  BY <1>1 DEF Insert, OwnInv, EffectsAreOwn, Own
<1>2. CASE Delete(by, call)
  BY <1>2 DEF Delete, OwnInv, EffectsAreOwn, Own
<1>3. CASE Log(by, call) \/ NoWrite
  BY <1>3 DEF Log, NoWrite, OwnInv, EffectsAreOwn
<1> QED
  BY <1>1, <1>2, <1>3

(* What an update of one call's record must keep. *)
LEMMA UpdateOwn ==
  ASSUME OwnInv, NEW s \in Sessions, NEW i \in DOMAIN calls[s], NEW r,
         calls' = [calls EXCEPT ![s][i] = r], Own(r, owner[s]), owner' = owner
  PROVE  \A z \in Sessions : \A j \in DOMAIN calls'[z] : Own(calls'[z][j], owner'[z])
<1>1. calls \in [Sessions -> Seq(CallRecord)]
  BY DEF OwnInv, TypeOK
<1> SUFFICES ASSUME NEW z \in Sessions, NEW j \in DOMAIN calls'[z]
             PROVE  Own(calls'[z][j], owner[z])
  OBVIOUS
<1>2. CASE z = s /\ j = i
  BY <1>1, <1>2
<1>3. CASE z = s /\ j # i
  BY <1>1, <1>3 DEF OwnInv
<1>4. CASE z # s
  BY <1>1, <1>4 DEF OwnInv
<1> QED
  BY <1>2, <1>3, <1>4

LEMMA CallStepOwn ==
  ASSUME OwnInv, NEW s \in Sessions, NEW i \in DOMAIN calls[s], Call(s, i)
  PROVE  OwnInv'
<1> DEFINE c == calls[s][i]
<1>1. TypeOK'
  BY CallStepType DEF OwnInv
<1>2. owner' = owner /\ orphans' = orphans
  BY DEF Call, SaveCommits, Refresh, DeleteExecutes, DeleteCommits, Reads, BodyRejects,
         BodyFails, WriteAudit, AuditFails, session
<1>3. Own(c, owner[s]) /\ c \in CallRecord
  BY CallType DEF OwnInv
<1>4. Own(c, owner[Id(s, i).session])
  BY <1>3 DEF Id
<1>5. EffectsAreOwn'
  <2>1. Insert(Id(s, i), c) \/ Delete(Id(s, i), c) \/ Log(Id(s, i), c) \/ NoWrite
    BY DEF Call, SaveCommits, Refresh, DeleteExecutes, DeleteCommits, Reads, BodyRejects,
           BodyFails, WriteAudit, AuditFails, Write, NoWrite, tables, history
  <2> QED
    BY <1>2, <1>4, <2>1, WriteOwn
<1>6. \E r : calls' = [calls EXCEPT ![s][i] = r] /\ Own(r, owner[s])
  <2>1. ASSUME NEW at, NEW answer, Step(s, i, at, answer)
        PROVE  \E r : calls' = [calls EXCEPT ![s][i] = r] /\ Own(r, owner[s])
    <3> DEFINE r == [c EXCEPT !.at = at, !.answer = answer]
    <3>1. calls' = [calls EXCEPT ![s][i] = r]
      BY <2>1 DEF Step
    <3>2. Own(r, owner[s])
      BY <1>3 DEF Own, CallRecord
    <3> QED
      BY <3>1, <3>2
  <2>2. CASE Tell(s, i)
    <3> DEFINE r == [c EXCEPT !.at = "returned", !.doomed = {}, !.seen = {}]
    <3>1. calls' = [calls EXCEPT ![s][i] = r]
      BY <2>2 DEF Tell
    <3>2. Own(r, owner[s])
      BY <1>3 DEF Own, CallRecord
    <3> QED
      BY <3>1, <3>2
  <2>3. CASE DeleteExecutes(s, i)
    <3> DEFINE doomed == {x \in rows : x.user = c.user /\ x.code = Upper(c.code)}
               new == [c EXCEPT !.at = "commit", !.doomed = doomed, !.seen = rows]
    <3>1. calls' = [calls EXCEPT ![s][i] = new]
      BY <2>3 DEF DeleteExecutes
    <3>2. \A r \in doomed : r.user = owner[s]
      BY <1>3 DEF Own
    <3> HIDE DEF doomed
    <3>3. Own(new, owner[s])
      BY <1>3, <3>2 DEF Own, CallRecord
    <3> QED
      BY <3>1, <3>3
  <2> QED
    BY <2>1, <2>2, <2>3
       DEF Call, SaveCommits, Refresh, DeleteCommits, Reads, BodyRejects, BodyFails,
           WriteAudit, AuditFails
<1>7. \A z \in Sessions : \A j \in DOMAIN calls'[z] : Own(calls'[z][j], owner'[z])
  BY <1>2, <1>6, UpdateOwn
<1> QED
  BY <1>1, <1>2, <1>5, <1>7 DEF OwnInv

(* A call belongs to its session's user from the moment it is dispatched. *)
LEMMA StartRoundOwn ==
  ASSUME OwnInv, NEW s \in Sessions, StartRound(s)
  PROVE  OwnInv'
<1>1. TypeOK'
  BY StartRoundType DEF OwnInv
<1>2. PICK n, round :
         /\ \E requests \in [1 .. n -> Requests] :
              round = [i \in 1 .. n |-> Dispatch(s, requests[i], call_count[s] + i)]
         /\ calls' = [calls EXCEPT ![s] = round]
  BY StartRoundSteps
<1>3. PICK requests \in [1 .. n -> Requests] :
         calls' = [calls EXCEPT ![s] =
                     [i \in 1 .. n |-> Dispatch(s, requests[i], call_count[s] + i)]]
  BY <1>2
<1>4. \A i \in 1 .. n : Own(Dispatch(s, requests[i], call_count[s] + i), owner[s])
  BY DEF Own, Dispatch
<1>5. /\ owner' = owner
      /\ UNCHANGED << tables, orphans, inserted, deleted >>
  BY DEF StartRound, session
<1>6. calls \in [Sessions -> Seq(CallRecord)]
  BY DEF OwnInv, TypeOK
<1>7. ASSUME NEW z \in Sessions, NEW j \in DOMAIN calls'[z]
      PROVE  Own(calls'[z][j], owner[z])
  <2>1. CASE z = s
    BY <1>3, <1>4, <1>6, <2>1
  <2>2. CASE z # s
    BY <1>3, <1>6, <2>2 DEF OwnInv
  <2> QED
    BY <2>1, <2>2
<1> QED
  BY <1>1, <1>5, <1>7 DEF OwnInv, EffectsAreOwn

(* The orphaned writes of a cancelled turn are its session's own. *)
LEMMA CancelOwn ==
  ASSUME OwnInv, NEW s \in Sessions, Cancel(s)
  PROVE  OwnInv'
<1>1. TypeOK'
  BY CancelType DEF OwnInv
<1>2. calls \in [Sessions -> Seq(CallRecord)]
  BY DEF OwnInv, TypeOK
<1>3. /\ owner' = owner
      /\ calls' = [calls EXCEPT ![s] = << >>]
      /\ UNCHANGED history
  BY DEF Cancel
<1>4. ASSUME NEW o \in orphans'
      PROVE  Own(o.call, owner[o.by.session])
  <2>1. CASE o \in orphans
    BY <2>1 DEF OwnInv
  <2>2. ASSUME NEW i \in DOMAIN calls[s], o = [by |-> Id(s, i), call |-> calls[s][i]]
        PROVE  Own(o.call, owner[o.by.session])
    BY <2>2 DEF OwnInv, Id
  <2> QED
    BY <2>1, <2>2 DEF Cancel
<1>5. \A z \in Sessions : \A j \in DOMAIN calls'[z] : Own(calls'[z][j], owner[z])
  BY <1>2, <1>3 DEF OwnInv
<1> QED
  BY <1>1, <1>3, <1>4, <1>5 DEF OwnInv, EffectsAreOwn, history

LEMMA NextOwn == OwnInv /\ [Next]_vars => OwnInv'
<1> SUFFICES ASSUME OwnInv, [Next]_vars PROVE OwnInv'
  OBVIOUS
<1>1. TypeOK'
  BY NextType DEF OwnInv
<1>2. ASSUME NEW s \in Sessions, BeginTurn(s) \/ EndTurn(s)
      PROVE  OwnInv'
  BY <1>1, <1>2 DEF BeginTurn, EndTurn, OwnInv, EffectsAreOwn, history
<1>3. ASSUME NEW s \in Sessions, StartRound(s)
      PROVE  OwnInv'
  BY <1>3, StartRoundOwn
<1>4. ASSUME NEW s \in Sessions, FinishRound(s)
      PROVE  OwnInv'
  <2>1. calls \in [Sessions -> Seq(CallRecord)]
    BY DEF OwnInv, TypeOK
  <2> QED
    BY <1>1, <1>4, <2>1 DEF FinishRound, OwnInv, EffectsAreOwn, history
<1>5. ASSUME NEW s \in Sessions, Cancel(s)
      PROVE  OwnInv'
  BY <1>5, CancelOwn
<1>6. ASSUME NEW s \in Sessions, NEW i \in DOMAIN calls[s], Call(s, i)
      PROVE  OwnInv'
  BY <1>6, CallStepOwn
<1>7. ASSUME NEW o \in orphans, Settle(o)
      PROVE  OwnInv'
  <2>1. owner' = owner /\ calls' = calls /\ orphans' \subseteq orphans
    BY <1>7 DEF Settle, session
  <2>2. EffectsAreOwn'
    BY <1>7, <2>1, WriteOwn DEF Settle, Write, OwnInv
  <2> QED
    BY <1>1, <2>1, <2>2 DEF OwnInv
<1>8. CASE UNCHANGED vars
  BY <1>1, <1>8 DEF vars, session, history, OwnInv, EffectsAreOwn
<1> QED
  BY <1>2, <1>3, <1>4, <1>5, <1>6, <1>7, <1>8 DEF Next

LEMMA OwnInvariant == Spec => []OwnInv
BY InitOwn, NextOwn, PTL DEF Spec

(* ADR-14: a session's tool calls insert and delete the decisions of its    *)
(* own user only, whatever user_id the model supplies, whatever fails and   *)
(* whatever lands after the turn that asked for it is over.                 *)
THEOREM OwnRowsOnly == Spec => []EffectsAreOwn
<1>1. OwnInv => EffectsAreOwn
  BY DEF OwnInv
<1> QED
  BY <1>1, OwnInvariant, PTL

-----------------------------------------------------------------------------
(* The ledger of effects.  What the tables, the log and the answers say of  *)
(* a call depends on how far it has come, and a cancelled call goes on as   *)
(* an orphaned write, so the invariant is about both: who is under way, as  *)
(* which call, and what is recorded under that call's name.                 *)

Tracked(s) == {[by |-> Id(s, i), call |-> calls[s][i]] : i \in DOMAIN calls[s]}
UnderWay == orphans \cup UNION {Tracked(s) : s \in Sessions}

(* Names that appear in the tables, the answers or the orphaned writes. *)
Known ==
  {x.by : x \in inserted} \cup {x.by : x \in deleted} \cup {x.by : x \in audit}
    \cup {t.by : t \in told} \cup {o.by : o \in orphans}

(* Names are not used again: calls are numbered on within a turn, and turns *)
(* are numbered on.                                                         *)
NamesInv ==
  /\ \A s \in Sessions : turn[s] <= turns /\ (turn[s] = 0 => calls[s] = << >>)
  /\ \A s \in Sessions : \A i \in DOMAIN calls[s] : calls[s][i].number = call_count[s] + i
  /\ \A by \in Known : /\ by.turn # 0
                       /\ by.turn <= turns
                       /\ by.turn = turn[by.session] =>
                            by.number <= call_count[by.session] + Len(calls[by.session])
  /\ \A o \in orphans : o.by.turn # turn[o.by.session]

(* What is recorded of a call under way. *)
Standing(a) ==
  /\ a.call.at = "body" => \A x \in inserted : x.by # a.by
  /\ a.call.at # "returned" =>
       /\ \A x \in audit : x.by # a.by
       /\ \A t \in told : t.by # a.by
       /\ a.by.number <= MaxCalls
       /\ a.call.tool # "unknown"
  /\ a.call.at = "commit" =>
       /\ a.call.doomed \subseteq rows
       /\ InCapitals(a.call.user, a.call.code, a.call.seen \cap rows) \subseteq a.call.doomed
  /\ a.call.at = "audit" /\ a.call.tool = "remove_decision" /\ a.call.answer = "ok" =>
       InCapitals(a.call.user, a.call.code, a.call.seen \cap rows) = {}
  /\ a.call.at = "audit" => a.call.answer \in {"ok", "error"}
  /\ a.call.at = "refresh" \/ (a.call.tool = "save_decision" /\ a.call.answer = "ok") =>
       \E x \in inserted : x.by = a.by
  /\ \A r \in a.call.seen : r.id < next_id

(* Each call is under way once, and no two are deleting the same row. *)
UnderWayInv ==
  /\ \A a \in UnderWay : Standing(a)
  /\ \A a, b \in UnderWay : a.by = b.by => a = b
  /\ \A a, b \in UnderWay :
       a # b /\ a.call.at = "commit" /\ b.call.at = "commit" =>
         a.call.doomed \cap b.call.doomed = {}

(* What is recorded. *)
LedgerInv ==
  /\ RowsAccounted
  /\ \A x \in inserted \cup deleted : x.row.id < next_id
  /\ AuditTruthful
  /\ AnswersTrue
  /\ \A t \in told : \A r \in t.seen : r.id < next_id

ToolInv ==
  /\ TypeOK
  /\ NamesInv
  /\ UnderWayInv
  /\ LedgerInv

-----------------------------------------------------------------------------
(* One call's effect on what is recorded.                                  *)

Answered(a) == Told(a.by, a.call)

(* What a step of a call, or the database's for an orphan, may record. *)
Effect(a) ==
  /\ \/ a.call.at = "body" /\ Insert(a.by, a.call)
     \/ a.call.at = "commit" /\ Delete(a.by, a.call)
     \/ a.call.at = "audit" /\ Log(a.by, a.call)
     \/ NoWrite
  /\ \/ told' = told
     \/ a.call.at = "audit" /\ told' = told \cup {Answered(a)}

LEMMA KnownType ==
  ASSUME TypeOK, NEW by \in Known
  PROVE  by \in CallId
<1>1. /\ \A x \in inserted : x.by \in CallId
      /\ \A x \in deleted : x.by \in CallId
      /\ \A x \in audit : x.by \in CallId
      /\ \A x \in told : x.by \in CallId
      /\ \A x \in orphans : x.by \in CallId
  BY DEF TypeOK, AuditRow, CallAnswer
<1> QED
  BY <1>1 DEF Known

LEMMA UnderWayElements ==
  ASSUME NEW a
  PROVE  a \in UnderWay <=>
           \/ a \in orphans
           \/ \E s \in Sessions : \E i \in DOMAIN calls[s] :
                a = [by |-> Id(s, i), call |-> calls[s][i]]
BY DEF UnderWay, Tracked

LEMMA UnderWayType ==
  ASSUME TypeOK, NEW a \in UnderWay
  PROVE  a.by \in CallId /\ a.call \in CallRecord /\ a = [by |-> a.by, call |-> a.call]
<1>1. CASE a \in orphans
  BY <1>1 DEF TypeOK
<1>2. ASSUME NEW s \in Sessions, NEW i \in DOMAIN calls[s],
             a = [by |-> Id(s, i), call |-> calls[s][i]]
      PROVE  a.by \in CallId /\ a.call \in CallRecord /\ a = [by |-> a.by, call |-> a.call]
  BY <1>2, CallType
<1> QED
  BY <1>1, <1>2, UnderWayElements

(* Fewer rows, fewer in capitals. *)
LEMMA InCapitalsShrinks ==
  ASSUME NEW user, NEW code, NEW table, NEW part \in SUBSET table
  PROVE  InCapitals(user, code, part) \subseteq InCapitals(user, code, table)
BY DEF InCapitals

(* A new row has a number no row had: nothing recorded before mentions it. *)
LEMMA InsertLedger ==
  ASSUME TypeOK, LedgerInv, NEW a, a.by \in CallId, a.call \in CallRecord, Standing(a),
         a.call.at = "body", Insert(a.by, a.call), told' = told, owner' = owner
  PROVE  LedgerInv'
<1> DEFINE row == [id |-> next_id, user |-> a.call.user, code |-> a.call.code]
           new == [by |-> a.by, row |-> row]
<1>1. /\ rows' = rows \cup {row}
      /\ inserted' = inserted \cup {new}
      /\ next_id' = next_id + 1
      /\ UNCHANGED << audit, deleted >>
  BY DEF Insert
<1>2. /\ next_id \in Nat
      /\ \A x \in inserted \cup deleted : x.row.id \in Nat /\ x.row.id < next_id
  BY DEF TypeOK, Row, LedgerInv
<1>3. row.id = next_id /\ new.by = a.by /\ new.row = row
  OBVIOUS
<1> HIDE DEF row, new
<1>4. \A x \in inserted \cup deleted : x.row # row /\ x.row.id # row.id
  BY <1>2, <1>3
<1>5. \A x \in inserted : x.by # a.by
  BY DEF Standing
<1>6. RowsAccounted'
  <2>1. rows' = {x.row : x \in inserted'} \ {x.row : x \in deleted'}
    BY <1>1, <1>3, <1>4 DEF LedgerInv, RowsAccounted
  <2>2. \A x, y \in inserted' : x.by = y.by => x = y
    BY <1>1, <1>3, <1>5 DEF LedgerInv, RowsAccounted
  <2>3. \A x, y \in inserted' : x.row.id = y.row.id => x = y
    BY <1>1, <1>3, <1>4 DEF LedgerInv, RowsAccounted
  <2>4. \A x, y \in deleted' : x.row = y.row => x = y
    BY <1>1 DEF LedgerInv, RowsAccounted
  <2> QED
    BY <2>1, <2>2, <2>3, <2>4 DEF RowsAccounted
<1>7. \A x \in inserted' \cup deleted' : x.row.id < next_id'
  BY <1>1, <1>2, <1>3
<1>8. AuditTruthful'
  BY <1>1 DEF LedgerInv, AuditTruthful
<1>9. AnswersTrue'
  <2>1. a.by.number <= MaxCalls /\ \A t \in told : t.by # a.by
    BY DEF Standing
  <2>2. \A t \in told : t.tool = "save_decision" /\ t.answer = "ok" =>
          \E x \in inserted' : x.by = t.by
    BY <1>1 DEF LedgerInv, AnswersTrue
  <2>3. \A t \in told : t.seen \cap rows' = t.seen \cap rows
    BY <1>1, <1>2, <1>3 DEF LedgerInv
  <2>4. \A t \in told : t.tool = "remove_decision" /\ t.answer = "ok" =>
          InCapitals(owner[t.by.session], t.code, t.seen \cap rows') = {}
    BY <2>3 DEF LedgerInv, AnswersTrue
  <2>5. \A x \in inserted' \cup deleted' :
          /\ x.by.number <= MaxCalls
          /\ \A t \in told : t.by = x.by => t.answer # "retry" /\ t.tool # "unknown"
    BY <1>1, <1>3, <2>1 DEF LedgerInv, AnswersTrue
  <2> QED
    BY <2>2, <2>4, <2>5 DEF AnswersTrue
<1>10. \A t \in told' : \A x \in t.seen : x.id < next_id'
  <2>1. ASSUME NEW t \in told, NEW x \in t.seen PROVE x.id < next_id'
    <3>1. x.id < next_id /\ x.id \in Nat
      BY DEF LedgerInv, TypeOK, CallAnswer, Row
    <3> QED
      BY <1>1, <1>2, <3>1
  <2> QED
    BY <2>1
<1> QED
  BY <1>6, <1>7, <1>8, <1>9, <1>10 DEF LedgerInv

(* What a call deletes was in the table, so nobody had deleted it. *)
LEMMA DeleteLedger ==
  ASSUME TypeOK, LedgerInv, NEW a, a.by \in CallId, a.call \in CallRecord, Standing(a),
         a.call.at = "commit", Delete(a.by, a.call), told' = told, owner' = owner
  PROVE  LedgerInv'
<1> DEFINE doomed == a.call.doomed
           new == {[by |-> a.by, row |-> r] : r \in doomed}
<1>1. /\ rows' = rows \ doomed
      /\ deleted' = deleted \cup new
      /\ UNCHANGED << next_id, audit, inserted >>
  BY DEF Delete
<1>2. doomed \subseteq rows
  BY DEF Standing
<1>3. /\ \A x \in new : x.by = a.by /\ x.row \in doomed /\ x = [by |-> a.by, row |-> x.row]
      /\ \A r \in doomed : \E x \in new : x.row = r
  <2>1. \A x \in new : x.by = a.by /\ x.row \in doomed /\ x = [by |-> a.by, row |-> x.row]
    OBVIOUS
  <2>2. ASSUME NEW r \in doomed PROVE \E x \in new : x.row = r
    <3>1. [by |-> a.by, row |-> r] \in new /\ [by |-> a.by, row |-> r].row = r
      OBVIOUS
    <3> QED
      BY <3>1
  <2> QED
    BY <2>1, <2>2
<1> HIDE DEF doomed, new
<1>4. rows = {x.row : x \in inserted} \ {x.row : x \in deleted}
  BY DEF LedgerInv, RowsAccounted
<1>5. \A x \in new : /\ \A y \in deleted : x.row # y.row
                     /\ \E y \in inserted : x.row = y.row
  BY <1>2, <1>3, <1>4
<1>6. RowsAccounted'
  <2>1. rows' = {x.row : x \in inserted'} \ {x.row : x \in deleted'}
    BY <1>1, <1>3, <1>4
  <2>2. \A x, y \in inserted' : x.by = y.by => x = y
    BY <1>1 DEF LedgerInv, RowsAccounted
  <2>3. \A x, y \in inserted' : x.row.id = y.row.id => x = y
    BY <1>1 DEF LedgerInv, RowsAccounted
  <2>4. \A x, y \in deleted' : x.row = y.row => x = y
    <3> SUFFICES ASSUME NEW x \in deleted', NEW y \in deleted', x.row = y.row PROVE x = y
      OBVIOUS
    <3>1. CASE x \in deleted /\ y \in deleted
      BY <3>1 DEF LedgerInv, RowsAccounted
    <3>2. CASE x \in new /\ y \in new
      BY <1>3, <3>2
    <3>3. CASE (x \in new /\ y \in deleted) \/ (x \in deleted /\ y \in new)
      BY <1>5, <3>3
    <3> QED
      BY <1>1, <3>1, <3>2, <3>3
  <2> QED
    BY <2>1, <2>2, <2>3, <2>4 DEF RowsAccounted
<1>7. \A x \in inserted' \cup deleted' : x.row.id < next_id'
  BY <1>1, <1>5 DEF LedgerInv
<1>8. AuditTruthful'
  BY <1>1 DEF LedgerInv, AuditTruthful
<1>9. AnswersTrue'
  <2>1. a.by.number <= MaxCalls /\ \A t \in told : t.by # a.by
    BY DEF Standing
  <2>2. ASSUME NEW t \in told, t.tool = "remove_decision", t.answer = "ok"
        PROVE  InCapitals(owner[t.by.session], t.code, t.seen \cap rows') = {}
    <3>1. InCapitals(owner[t.by.session], t.code, t.seen \cap rows) = {}
      BY <2>2 DEF LedgerInv, AnswersTrue
    <3>2. t.seen \cap rows' \in SUBSET (t.seen \cap rows)
      BY <1>1
    <3> QED
      BY <3>1, <3>2, InCapitalsShrinks
  <2>3. \A x \in inserted' \cup deleted' :
          /\ x.by.number <= MaxCalls
          /\ \A t \in told : t.by = x.by => t.answer # "retry" /\ t.tool # "unknown"
    BY <1>1, <1>3, <2>1 DEF LedgerInv, AnswersTrue
  <2>4. \A t \in told : t.tool = "save_decision" /\ t.answer = "ok" =>
          \E x \in inserted' : x.by = t.by
    BY <1>1 DEF LedgerInv, AnswersTrue
  <2> QED
    BY <2>2, <2>3, <2>4 DEF AnswersTrue
<1> QED
  BY <1>1, <1>6, <1>7, <1>8, <1>9 DEF LedgerInv

(* A call is logged, and answers, once, and both say the same. *)
LEMMA AnswerLedger ==
  ASSUME TypeOK, LedgerInv, NEW a, a.by \in CallId, a.call \in CallRecord, Standing(a),
         a.call.at = "audit", Log(a.by, a.call) \/ NoWrite,
         told' = told \/ told' = told \cup {Answered(a)}, owner' = owner,
         a.call.user = owner[a.by.session]
  PROVE  LedgerInv'
<1> DEFINE line == [by |-> a.by, user |-> owner[a.by.session], tool |-> a.call.tool,
                    flagged |-> a.call.answer = "error"]
<1>1. audit' = audit \/ audit' = audit \cup {line}
  BY DEF Log, NoWrite, tables
<1>2. UNCHANGED << rows, next_id, inserted, deleted >>
  BY DEF Log, NoWrite, tables
<1>3. /\ line.by = a.by
      /\ line.user = owner[a.by.session]
      /\ line.tool = a.call.tool
      /\ line.flagged <=> a.call.answer = "error"
      /\ Answered(a).by = a.by
      /\ Answered(a).answer = a.call.answer
      /\ Answered(a).tool = a.call.tool
      /\ Answered(a).code = a.call.code
      /\ Answered(a).seen = a.call.seen
  BY DEF Answered, Told
<1> HIDE DEF line
<1>4. /\ \A x \in audit : x.by # a.by
      /\ \A t \in told : t.by # a.by
      /\ a.by.number <= MaxCalls
      /\ a.call.answer \in {"ok", "error"}
      /\ a.call.tool = "save_decision" /\ a.call.answer = "ok" => \E x \in inserted : x.by = a.by
      /\ a.call.tool # "unknown"
      /\ a.call.tool = "remove_decision" /\ a.call.answer = "ok" =>
           InCapitals(a.call.user, a.call.code, a.call.seen \cap rows) = {}
      /\ \A r \in a.call.seen : r.id < next_id
  BY DEF Standing
<1>5. RowsAccounted' /\ \A x \in inserted' \cup deleted' : x.row.id < next_id'
  BY <1>2 DEF LedgerInv, RowsAccounted
<1>6. AuditTruthful'
  <2>1. \A x, y \in audit' : x.by = y.by => x = y
    BY <1>1, <1>3, <1>4 DEF LedgerInv, AuditTruthful
  <2>2. \A x \in audit' :
          x.by.number <= MaxCalls /\ x.user = owner'[x.by.session] /\ x.tool # "unknown"
    BY <1>1, <1>3, <1>4 DEF LedgerInv, AuditTruthful
  <2>3. ASSUME NEW t \in told', NEW x \in audit', t.by = x.by
        PROVE  /\ t.answer \in {"ok", "error"}
               /\ t.tool = x.tool
               /\ x.flagged <=> t.answer = "error"
    <3>1. CASE t \in told /\ x \in audit
      BY <2>3, <3>1 DEF LedgerInv, AuditTruthful
    <3>2. CASE t = Answered(a) /\ x = line
      BY <1>3, <1>4, <3>2
    <3>3. CASE t \in told /\ x = line
      BY <1>3, <1>4, <2>3, <3>3
    <3>4. CASE t = Answered(a) /\ x \in audit
      BY <1>3, <1>4, <2>3, <3>4
    <3> QED
      BY <1>1, <3>1, <3>2, <3>3, <3>4
  <2>4. \A x \in audit' : x.tool = "save_decision" /\ ~ x.flagged =>
          \E y \in inserted' : y.by = x.by
    BY <1>1, <1>2, <1>3, <1>4 DEF LedgerInv, AuditTruthful
  <2> QED
    BY <2>1, <2>2, <2>3, <2>4 DEF AuditTruthful
<1>7. AnswersTrue'
  <2>1. \A t \in told' : t.tool = "save_decision" /\ t.answer = "ok" =>
          \E x \in inserted' : x.by = t.by
    BY <1>2, <1>3, <1>4 DEF LedgerInv, AnswersTrue
  <2>2. \A t \in told' : t.tool = "remove_decision" /\ t.answer = "ok" =>
          InCapitals(owner'[t.by.session], t.code, t.seen \cap rows') = {}
    BY <1>2, <1>3, <1>4 DEF LedgerInv, AnswersTrue
  <2>3. \A x \in inserted' \cup deleted' :
          /\ x.by.number <= MaxCalls
          /\ \A t \in told' : t.by = x.by => t.answer # "retry" /\ t.tool # "unknown"
    BY <1>2, <1>3, <1>4 DEF LedgerInv, AnswersTrue
  <2> QED
    BY <2>1, <2>2, <2>3 DEF AnswersTrue
<1>8. \A t \in told' : \A r \in t.seen : r.id < next_id'
  BY <1>2, <1>3, <1>4 DEF LedgerInv
<1> QED
  BY <1>5, <1>6, <1>7, <1>8 DEF LedgerInv

(* Whatever a call under way records, the ledger stays right. *)
LEMMA EffectLedger ==
  ASSUME TypeOK, UnderWayInv, LedgerInv, NEW a \in UnderWay, Effect(a), owner' = owner,
         a.call.user = owner[a.by.session]
  PROVE  LedgerInv'
<1>1. a.by \in CallId /\ a.call \in CallRecord /\ Standing(a)
  BY UnderWayType DEF UnderWayInv
<1>2. CASE a.call.at = "audit" /\ (Log(a.by, a.call) \/ NoWrite)
  BY <1>1, <1>2, AnswerLedger DEF Effect
<1>3. CASE NoWrite /\ told' = told
  BY <1>3 DEF NoWrite, tables, LedgerInv, RowsAccounted, AuditTruthful, AnswersTrue
<1>4. CASE a.call.at = "body" /\ Insert(a.by, a.call)
  BY <1>1, <1>4, InsertLedger DEF Effect
<1>5. CASE a.call.at = "commit" /\ Delete(a.by, a.call)
  BY <1>1, <1>5, DeleteLedger DEF Effect
<1> QED
  BY <1>2, <1>3, <1>4, <1>5 DEF Effect

(* A row it adds has a number that no row had. *)
LEMMA EffectRows ==
  ASSUME TypeOK, NEW a, Effect(a)
  PROVE  /\ next_id \in Nat /\ next_id' \in {next_id, next_id + 1}
         /\ \A r \in rows' : r \in rows \/ r.id = next_id
<1>1. CASE Insert(a.by, a.call)
  BY <1>1 DEF Insert, TypeOK
<1>2. CASE Delete(a.by, a.call) \/ Log(a.by, a.call) \/ NoWrite
  BY <1>2 DEF Delete, Log, NoWrite, tables, TypeOK
<1> QED
  BY <1>1, <1>2 DEF Effect

(* It leaves what is recorded of the others as it was: names are distinct,  *)
(* and no two calls are deleting the same row.                              *)
LEMMA EffectOnOthers ==
  ASSUME TypeOK, UnderWayInv, NEW a \in UnderWay, Effect(a), NEW b \in UnderWay, b # a
  PROVE  Standing(b)'
<1>1. b.by # a.by /\ Standing(b)
  BY DEF UnderWayInv
<1>2. \A x \in inserted' : x \in inserted \/ x.by = a.by
  BY DEF Effect, Insert, Delete, Log, NoWrite
<1>3. \A x \in audit' : x \in audit \/ x.by = a.by
  BY DEF Effect, Insert, Delete, Log, NoWrite, tables
<1>4. \A t \in told' : t \in told \/ t.by = a.by
  BY DEF Effect, Answered, Told
<1>5. inserted \subseteq inserted'
  BY DEF Effect, Insert, Delete, Log, NoWrite
<1>6. b.call.at = "commit" => b.call.doomed \subseteq rows'
  <2>1. rows \subseteq rows' \/ (a.call.at = "commit" /\ rows' = rows \ a.call.doomed)
    BY DEF Effect, Insert, Delete, Log, NoWrite, tables
  <2>2. a.call.at = "commit" /\ b.call.at = "commit" => b.call.doomed \cap a.call.doomed = {}
    BY DEF UnderWayInv
  <2> QED
    BY <1>1, <2>1, <2>2 DEF Standing
<1>7. \A r \in b.call.seen : r.id \in Nat /\ r.id < next_id
  BY <1>1, UnderWayType DEF Standing, CallRecord, Row
<1>8. \A r \in b.call.seen : r.id < next_id'
  BY <1>7, EffectRows
<1>9. b.call.seen \cap rows' \in SUBSET (b.call.seen \cap rows)
  BY <1>7, EffectRows
<1>10. InCapitals(b.call.user, b.call.code, b.call.seen \cap rows')
         \subseteq InCapitals(b.call.user, b.call.code, b.call.seen \cap rows)
  BY <1>9, InCapitalsShrinks
<1> QED
  BY <1>1, <1>2, <1>3, <1>4, <1>5, <1>6, <1>8, <1>10 DEF Standing

(* The names it adds are the call's own. *)
LEMMA EffectKnown ==
  ASSUME NEW a, Effect(a)
  PROVE  \A by \in Known' : by \in Known \/ by = a.by \/ \E o \in orphans' : by = o.by
<1>1. \A x \in inserted' : x \in inserted \/ x.by = a.by
  BY DEF Effect, Insert, Delete, Log, NoWrite
<1>2. \A x \in audit' : x \in audit \/ x.by = a.by
  BY DEF Effect, Insert, Delete, Log, NoWrite, tables
<1>3. \A t \in told' : t \in told \/ t.by = a.by
  BY DEF Effect, Answered, Told
<1>4. \A x \in deleted' : x \in deleted \/ x.by = a.by
  BY DEF Effect, Insert, Delete, Log, NoWrite
<1> QED
  BY <1>1, <1>2, <1>3, <1>4 DEF Known
-----------------------------------------------------------------------------
(* One call's step: its record is replaced by r.                           *)

Becomes(s, i, r) == calls' = [calls EXCEPT ![s][i] = r]

(* What r must be for the call to stand where r says. *)
Progress(a, r) ==
  /\ r.number = a.call.number
  /\ Standing([by |-> a.by, call |-> r])'
  /\ r.at = "commit" => \A b \in UnderWay :
       b # a /\ b.call.at = "commit" => r.doomed \cap b.call.doomed = {}

(* A call that goes on to at, having recorded what Effect allows.          *)
LEMMA StepProgress ==
  ASSUME TypeOK, UnderWayInv, NEW a \in UnderWay, Effect(a), told' = told,
         NEW at \in {"refresh", "audit"}, NEW answer \in {"none", "ok", "error"},
         a.call.at \in {"body", "refresh", "commit"},
         at = "audit" => answer \in {"ok", "error"} /\ audit' = audit,
         at = "refresh" => answer = "none" /\ audit' = audit,
         at = "refresh" \/ (a.call.tool = "save_decision" /\ answer = "ok") =>
           \E x \in inserted' : x.by = a.by,
         a.call.tool = "remove_decision" /\ answer = "ok" =>
           InCapitals(a.call.user, a.call.code, a.call.seen \cap rows') = {}
  PROVE  Progress(a, [a.call EXCEPT !.at = at, !.answer = answer])
<1> DEFINE r == [a.call EXCEPT !.at = at, !.answer = answer]
<1>1. a.call \in CallRecord
  BY UnderWayType
<1>2. /\ r.number = a.call.number /\ r.at = at /\ r.answer = answer
      /\ r.tool = a.call.tool /\ r.user = a.call.user /\ r.code = a.call.code
      /\ r.seen = a.call.seen
  BY <1>1 DEF CallRecord
<1>3. Standing(a)
  BY DEF UnderWayInv
<1>4. \A x \in a.call.seen : x.id < next_id'
  <2>1. \A x \in a.call.seen : x.id \in Nat /\ x.id < next_id
    BY <1>1, <1>3 DEF Standing, CallRecord, Row
  <2> QED
    BY <2>1, EffectRows
<1> HIDE DEF r
<1>5. Standing([by |-> a.by, call |-> r])'
  BY <1>2, <1>3, <1>4 DEF Standing
<1> QED
  BY <1>2, <1>5 DEF Progress, r

(* A call that returns has nothing left to record. *)
LEMMA TellProgress ==
  ASSUME TypeOK, UnderWayInv, NEW a \in UnderWay, a.call.at = "audit", Effect(a)
  PROVE  Progress(a, [a.call EXCEPT !.at = "returned", !.doomed = {}, !.seen = {}])
<1> DEFINE r == [a.call EXCEPT !.at = "returned", !.doomed = {}, !.seen = {}]
<1>1. a.call \in CallRecord
  BY UnderWayType
<1>2. /\ r.number = a.call.number /\ r.at = "returned" /\ r.answer = a.call.answer
      /\ r.tool = a.call.tool /\ r.seen = {}
  BY <1>1 DEF CallRecord
<1>3. Standing(a)
  BY DEF UnderWayInv
<1>4. inserted' = inserted
  BY DEF Effect, Log, NoWrite
<1> HIDE DEF r
<1>5. Standing([by |-> a.by, call |-> r])'
  BY <1>2, <1>3, <1>4 DEF Standing
<1> QED
  BY <1>2, <1>5 DEF Progress, r

RowsNumbered == \A x \in rows : x.id < next_id

(* What a call under way has locked. *)
LEMMA LockedRows ==
  ASSUME NEW b \in UnderWay, b.call.at = "commit"
  PROVE  b.call.doomed \subseteq Locked
<1> DEFINE inFlight == (UNION {Range(calls[s]) : s \in Sessions}) \cup {o.call : o \in orphans}
<1>1. b.call \in inFlight
  <2>1. CASE b \in orphans
    <3>1. b.call \in {o.call : o \in orphans}
      BY <2>1
    <3> QED
      BY <3>1
  <2>2. ASSUME NEW s \in Sessions, NEW i \in DOMAIN calls[s],
               b = [by |-> Id(s, i), call |-> calls[s][i]]
        PROVE  b.call \in inFlight
    <3>1. b.call \in Range(calls[s])
      BY <2>2 DEF Range
    <3> QED
      BY <3>1
  <2> QED
    BY <2>1, <2>2, UnderWayElements
<1>2. Locked = UNION {call.doomed : call \in {c \in inFlight : c.at = "commit"}}
  BY DEF Locked
<1> HIDE DEF inFlight
<1> QED
  BY <1>1, <1>2

(* A removal takes the rows that carry the upper-case code and that no      *)
(* other removal has locked.                                                *)
LEMMA DeleteExecutesProgress ==
  ASSUME TypeOK, UnderWayInv, NEW s \in Sessions, NEW i \in DOMAIN calls[s],
         NEW a \in UnderWay, a = [by |-> Id(s, i), call |-> calls[s][i]],
         DeleteExecutes(s, i), RowsNumbered
  PROVE  \E r : Becomes(s, i, r) /\ Progress(a, r)
<1> DEFINE c == calls[s][i]
           doomed == {x \in rows : x.user = c.user /\ x.code = Upper(c.code)}
<1>1. a.by = Id(s, i) /\ a.call = c /\ c.at = "body" /\ c \in CallRecord
  BY CallType DEF DeleteExecutes, At
<1> PICK r : r = [c EXCEPT !.at = "commit", !.doomed = doomed, !.seen = rows]
  OBVIOUS
<1>2. Becomes(s, i, r)
  BY DEF DeleteExecutes, Becomes
<1>3. UNCHANGED << rows, next_id, audit, inserted, told >>
  BY DEF DeleteExecutes, tables, history
<1>4. doomed \cap Locked = {}
  BY DEF DeleteExecutes
<1>5. InCapitals(c.user, c.code, rows) \subseteq doomed
  <2>1. \A x \in rows : x.code \in Codes
    BY DEF TypeOK, Row
  <2>2. \A code \in Codes : code.course = c.code.course /\ code.upper => code = Upper(c.code)
    BY <1>1 DEF CallRecord, Codes, Upper
  <2> QED
    BY <2>1, <2>2 DEF InCapitals
<1>6. doomed \subseteq rows
  OBVIOUS
<1> HIDE DEF doomed
<1>7. /\ r.number = c.number /\ r.at = "commit" /\ r.answer = c.answer /\ r.tool = c.tool
      /\ r.user = c.user /\ r.code = c.code /\ r.seen = rows /\ r.doomed = doomed
  BY <1>1 DEF CallRecord
<1>8. Standing(a)
  BY DEF UnderWayInv
<1>9. Standing([by |-> a.by, call |-> r])'
  <2>1. /\ \A x \in r.seen : x.id < next_id'
        /\ InCapitals(r.user, r.code, r.seen \cap rows') \subseteq r.doomed
    <3>1. rows \cap rows' = rows
      BY <1>3
    <3> HIDE DEF c
    <3> QED
      BY <1>3, <1>5, <1>7, <3>1 DEF RowsNumbered
  <2>2. r.doomed \subseteq rows'
    BY <1>3, <1>6, <1>7
  <2>3. /\ \A x \in audit' : x.by # a.by
        /\ \A t \in told' : t.by # a.by
        /\ a.by.number <= MaxCalls
        /\ a.call.tool # "unknown"
        /\ a.call.tool = "save_decision" /\ a.call.answer = "ok" => \E x \in inserted' : x.by = a.by
    BY <1>1, <1>3, <1>8 DEF Standing
  <2> HIDE DEF c
  <2> QED
    BY <1>1, <1>7, <2>1, <2>2, <2>3 DEF Standing
<1>10. \A b \in UnderWay : b.call.at = "commit" => b.call.doomed \subseteq Locked
  BY LockedRows
<1>11. \A b \in UnderWay : b # a /\ b.call.at = "commit" => r.doomed \cap b.call.doomed = {}
  BY <1>4, <1>7, <1>10
<1>12. Progress(a, r)
  BY <1>1, <1>7, <1>9, <1>11 DEF Progress
<1> QED
  BY <1>2, <1>12

(* Every step of a call records what Effect allows and goes on rightly. *)
LEMMA CallProgress ==
  ASSUME TypeOK, UnderWayInv, NEW s \in Sessions, NEW i \in DOMAIN calls[s],
         NEW a \in UnderWay, a = [by |-> Id(s, i), call |-> calls[s][i]],
         Call(s, i), RowsNumbered
  PROVE  Effect(a) /\ \E r : Becomes(s, i, r) /\ Progress(a, r)
<1> DEFINE Good == Effect(a) /\ \E r : Becomes(s, i, r) /\ Progress(a, r)
<1> SUFFICES Good
  OBVIOUS
<1>1. a.by = Id(s, i) /\ a.call = calls[s][i]
  OBVIOUS
<1>2. Standing(a)
  BY DEF UnderWayInv
<1>3. ASSUME NEW at, NEW answer, Step(s, i, at, answer), Effect(a),
             Progress(a, [a.call EXCEPT !.at = at, !.answer = answer])
      PROVE  Good
  BY <1>1, <1>3 DEF Step, Becomes
<1> HIDE DEF Good
<1>4. CASE SaveCommits(s, i)
  <2>1. Insert(a.by, a.call) /\ a.call.at = "body" /\ told' = told
        /\ Step(s, i, "refresh", "none")
    BY <1>1, <1>4 DEF SaveCommits, At
  <2>2. Effect(a)
    BY <2>1 DEF Effect
  <2>3. audit' = audit /\ \E x \in inserted' : x.by = a.by
    <3> DEFINE new == [by |-> a.by, row |-> [id |-> next_id, user |-> a.call.user,
                                             code |-> a.call.code]]
    <3>1. inserted' = inserted \cup {new} /\ audit' = audit
      BY <2>1 DEF Insert
    <3>2. new.by = a.by /\ new \in {new}
      OBVIOUS
    <3> HIDE DEF new
    <3> QED
      BY <3>1, <3>2
  <2>4. Progress(a, [a.call EXCEPT !.at = "refresh", !.answer = "none"])
    BY <2>1, <2>2, <2>3, StepProgress
  <2> QED
    BY <1>3, <2>1, <2>2, <2>4
<1>5. CASE Refresh(s, i) \/ Reads(s, i)
  <2>1. /\ NoWrite /\ told' = told /\ audit' = audit /\ inserted' = inserted
        /\ Step(s, i, "audit", "ok")
        /\ a.call.at = "refresh" \/ (a.call.at = "body" /\ a.call.tool # "save_decision")
        /\ a.call.tool # "remove_decision"
    BY <1>1, <1>5 DEF Refresh, Reads, At, NoWrite, tables, history
  <2>2. Effect(a)
    BY <2>1 DEF Effect
  <2>3. a.call.tool = "save_decision" => \E x \in inserted' : x.by = a.by
    BY <1>2, <2>1 DEF Standing
  <2>4. Progress(a, [a.call EXCEPT !.at = "audit", !.answer = "ok"])
    BY <2>1, <2>2, <2>3, StepProgress
  <2> QED
    BY <1>3, <2>1, <2>2, <2>4
<1>6. CASE DeleteExecutes(s, i)
  <2>1. Effect(a)
    BY <1>6 DEF DeleteExecutes, Effect, NoWrite, tables, history
  <2> QED
    BY <1>6, <2>1, DeleteExecutesProgress DEF Good
<1>7. CASE DeleteCommits(s, i)
  <2>1. /\ Delete(a.by, a.call) /\ a.call.at = "commit" /\ told' = told
        /\ Step(s, i, "audit", "ok")
        /\ a.call.tool # "save_decision"
    BY <1>1, <1>7 DEF DeleteCommits, At
  <2>2. Effect(a) /\ audit' = audit
    BY <2>1 DEF Effect, Delete
  <2>3. InCapitals(a.call.user, a.call.code, a.call.seen \cap rows') = {}
    <3>1. InCapitals(a.call.user, a.call.code, a.call.seen \cap rows) \subseteq a.call.doomed
      BY <1>2, <2>1 DEF Standing
    <3>2. rows' = rows \ a.call.doomed
      BY <2>1 DEF Delete
    <3> QED
      BY <3>1, <3>2 DEF InCapitals
  <2>4. Progress(a, [a.call EXCEPT !.at = "audit", !.answer = "ok"])
    BY <2>1, <2>2, <2>3, StepProgress
  <2> QED
    BY <1>3, <2>1, <2>2, <2>4
<1>8. CASE BodyRejects(s, i) \/ BodyFails(s, i)
  <2>1. /\ a.call.at \in {"body", "refresh", "commit"} /\ told' = told
        /\ Step(s, i, "audit", "error")
    BY <1>1, <1>8 DEF BodyRejects, BodyFails, history
  <2>2. /\ \/ a.call.at = "body" /\ Insert(a.by, a.call)
           \/ a.call.at = "commit" /\ Delete(a.by, a.call)
           \/ NoWrite
        /\ audit' = audit
    BY <1>1, <1>8, <2>1 DEF BodyRejects, BodyFails, NoWrite, tables, history, Write, Insert, Delete
  <2>3. Effect(a)
    BY <2>1, <2>2 DEF Effect
  <2>4. Progress(a, [a.call EXCEPT !.at = "audit", !.answer = "error"])
    BY <2>1, <2>2, <2>3, StepProgress
  <2> QED
    BY <1>3, <2>1, <2>3, <2>4
<1>9. CASE WriteAudit(s, i) \/ AuditFails(s, i)
  <2>1. a.call.at = "audit" /\ (Log(a.by, a.call) \/ NoWrite) /\ Tell(s, i)
    BY <1>1, <1>9 DEF WriteAudit, AuditFails
  <2>2. Effect(a)
    BY <1>1, <2>1 DEF Effect, Tell, Answered
  <2>3. Progress(a, [a.call EXCEPT !.at = "returned", !.doomed = {}, !.seen = {}])
    BY <2>1, <2>2, TellProgress
  <2> QED
    BY <1>1, <2>1, <2>2, <2>3 DEF Tell, Good, Becomes
<1> QED
  BY <1>4, <1>5, <1>6, <1>7, <1>8, <1>9 DEF Call
-----------------------------------------------------------------------------
(* The invariant is kept.                                                  *)

(* A call of a round that is under way has a name of the present turn.     *)
LEMMA LiveName ==
  ASSUME TypeOK, NamesInv, NEW s \in Sessions, NEW i \in DOMAIN calls[s]
  PROVE  /\ Id(s, i).session = s
         /\ Id(s, i).turn = turn[s]
         /\ turn[s] # 0
         /\ Id(s, i).number = call_count[s] + i
         /\ i \in 1 .. Len(calls[s])
         /\ call_count[s] \in Nat
<1>1. i \in 1 .. Len(calls[s])
  BY LenProperties DEF TypeOK
<1>2. calls[s] # << >>
  BY <1>1
<1> QED
  BY <1>1, <1>2 DEF TypeOK, NamesInv, Id

LEMMA UnderWayPrime ==
  ASSUME NEW b \in UnderWay'
  PROVE  \/ b \in orphans'
         \/ \E s \in Sessions : \E i \in DOMAIN calls'[s] :
              b = [by |-> [session |-> s, turn |-> turn'[s], number |-> calls'[s][i].number],
                   call |-> calls'[s][i]]
BY DEF UnderWay, Tracked, Id

(* Calls that leave, or go on unheard, change nothing of the rest. *)
LEMMA Shrink ==
  ASSUME UnderWayInv, UnderWay' \subseteq UnderWay,
         UNCHANGED << rows, next_id, audit, inserted, told >>
  PROVE  UnderWayInv'
<1>1. \A b \in UnderWay : Standing(b)'
  BY DEF UnderWayInv, Standing
<1> QED
  BY <1>1 DEF UnderWayInv

(* When the only change is to one call, so is that of what is under way. *)
LEMMA Replaced ==
  ASSUME TypeOK, NamesInv, NEW s \in Sessions, NEW i \in DOMAIN calls[s],
         NEW a, a = [by |-> Id(s, i), call |-> calls[s][i]], NEW r,
         Becomes(s, i, r), r.number = a.call.number,
         UNCHANGED << turn, orphans >>, NEW b \in UnderWay'
  PROVE  (b \in UnderWay /\ b # a) \/ b = [by |-> a.by, call |-> r]
<1>1. calls \in [Sessions -> Seq(CallRecord)]
  BY DEF TypeOK
<1>2. a.by = Id(s, i) /\ a.call = calls[s][i]
  OBVIOUS
<1>3. CASE b \in orphans
  <2>1. b.by.turn # turn[b.by.session]
    BY <1>3 DEF NamesInv
  <2>2. b # a
    BY <1>2, <2>1, LiveName
  <2> QED
    BY <1>3, <2>2, UnderWayElements
<1>4. ASSUME NEW z \in Sessions, NEW j \in DOMAIN calls'[z],
             b = [by |-> [session |-> z, turn |-> turn'[z], number |-> calls'[z][j].number],
                  call |-> calls'[z][j]]
      PROVE  (b \in UnderWay /\ b # a) \/ b = [by |-> a.by, call |-> r]
  <2>1. j \in DOMAIN calls[z]
    BY <1>1 DEF Becomes
  <2>2. CASE z = s /\ j = i
    <3>1. calls'[z][j] = r
      BY <1>1, <2>1, <2>2 DEF Becomes
    <3>2. a.by = [session |-> z, turn |-> turn'[z], number |-> r.number]
      BY <1>2, <2>2 DEF Id
    <3> QED
      BY <1>4, <3>1, <3>2
  <2>3. CASE z # s \/ j # i
    <3>1. calls'[z][j] = calls[z][j]
      BY <1>1, <2>1, <2>3 DEF Becomes
    <3>2. b = [by |-> Id(z, j), call |-> calls[z][j]]
      BY <1>4, <3>1 DEF Id
    <3>3. b \in UnderWay
      BY <2>1, <3>2, UnderWayElements
    <3>4. b.by # a.by
      <4>1. /\ Id(z, j).session = z /\ Id(z, j).number = call_count[z] + j
            /\ Id(s, i).session = s /\ Id(s, i).number = call_count[s] + i
            /\ call_count[s] \in Nat /\ i \in Nat /\ j \in Nat
        BY <2>1, LiveName
      <4> QED
        BY <1>2, <2>3, <3>2, <4>1
    <3> QED
      BY <3>3, <3>4
  <2> QED
    BY <2>2, <2>3
<1> QED
  BY <1>3, <1>4, UnderWayPrime

LEMMA CallUnderWay ==
  ASSUME TypeOK, NamesInv, UnderWayInv, NEW s \in Sessions, NEW i \in DOMAIN calls[s],
         NEW a \in UnderWay, a = [by |-> Id(s, i), call |-> calls[s][i]], Effect(a), NEW r,
         Becomes(s, i, r), Progress(a, r), UNCHANGED << turn, orphans >>
  PROVE  UnderWayInv'
<1> DEFINE new == [by |-> a.by, call |-> r]
<1>1. \A b \in UnderWay' : (b \in UnderWay /\ b # a) \/ b = new
  <2>1. r.number = a.call.number
    BY DEF Progress
  <2> TAKE b \in UnderWay'
  <2> QED
    BY <2>1, Replaced
<1>2. new.by = a.by /\ new.call = r
  OBVIOUS
<1>3. Standing(new)'
  BY DEF Progress
<1> HIDE DEF new
<1>4. \A b \in UnderWay' : Standing(b)'
  BY <1>1, <1>3, EffectOnOthers
<1>5. \A b, c \in UnderWay' : b.by = c.by => b = c
  BY <1>1, <1>2 DEF UnderWayInv
<1>6. \A b, c \in UnderWay' : b # c /\ b.call.at = "commit" /\ c.call.at = "commit" =>
                                b.call.doomed \cap c.call.doomed = {}
  BY <1>1, <1>2 DEF UnderWayInv, Progress
<1> QED
  BY <1>4, <1>5, <1>6 DEF UnderWayInv

(* Lists with the same positions are of the same length. *)
LEMMA SameLength ==
  ASSUME NEW T, NEW s \in Seq(T), NEW t \in Seq(T), DOMAIN s = DOMAIN t
  PROVE  Len(s) = Len(t)
<1>1. DOMAIN s = 1 .. Len(s) /\ DOMAIN t = 1 .. Len(t) /\ Len(s) \in Nat /\ Len(t) \in Nat
  BY LenProperties
<1>2. \A m, n \in Nat : 1 .. m = 1 .. n => ~ (m < n)
  <2> SUFFICES ASSUME NEW m \in Nat, NEW n \in Nat, m < n PROVE 1 .. m # 1 .. n
    OBVIOUS
  <2>1. n \in 1 .. n /\ n \notin 1 .. m
    OBVIOUS
  <2> QED
    BY <2>1
<1>3. Len(s) \in Nat /\ Len(t) \in Nat /\ ~ (Len(s) < Len(t)) /\ ~ (Len(t) < Len(s))
  BY <1>1, <1>2
<1> QED
  BY <1>3

LEMMA CallNames ==
  ASSUME TypeOK, TypeOK', NamesInv, NEW s \in Sessions, NEW i \in DOMAIN calls[s],
         NEW a, a = [by |-> Id(s, i), call |-> calls[s][i]], Effect(a), NEW r,
         Becomes(s, i, r), r.number = a.call.number,
         UNCHANGED << turn, turns, call_count, orphans >>
  PROVE  NamesInv'
<1>1. calls \in [Sessions -> Seq(CallRecord)] /\ calls' \in [Sessions -> Seq(CallRecord)]
  BY DEF TypeOK
<1>2. ASSUME NEW z \in Sessions
      PROVE  DOMAIN calls'[z] = DOMAIN calls[z] /\ Len(calls'[z]) = Len(calls[z])
  <2>1. DOMAIN calls'[z] = DOMAIN calls[z]
    BY <1>1 DEF Becomes
  <2> QED
    BY <1>1, <2>1, SameLength
<1>3. ASSUME NEW z \in Sessions
      PROVE  turn'[z] <= turns' /\ (turn'[z] = 0 => calls'[z] = << >>)
  <2>1. CASE z = s
    BY <2>1, LiveName DEF NamesInv
  <2>2. CASE z # s
    BY <1>1, <2>2 DEF NamesInv, Becomes
  <2> QED
    BY <2>1, <2>2
<1>4. ASSUME NEW z \in Sessions, NEW j \in DOMAIN calls'[z]
      PROVE  calls'[z][j].number = call_count'[z] + j
  <2>1. j \in DOMAIN calls[z] /\ calls'[z][j].number = calls[z][j].number
    BY <1>1, <1>2, <1>4 DEF Becomes
  <2> QED
    BY <2>1 DEF NamesInv
<1>5. ASSUME NEW by \in Known'
      PROVE  /\ by.turn # 0
             /\ by.turn <= turns'
             /\ by.turn = turn'[by.session] =>
                  by.number <= call_count'[by.session] + Len(calls'[by.session])
  <2>1. by \in Known \/ by = Id(s, i)
    <3>1. by \in Known \/ by = a.by \/ \E o \in orphans' : by = o.by
      BY EffectKnown
    <3>2. (\E o \in orphans' : by = o.by) => by \in Known
      BY DEF Known
    <3> QED
      BY <3>1, <3>2
  <2>2. CASE by = Id(s, i)
    <3>1. /\ by.session = s /\ by.turn = turn[s] /\ turn[s] # 0
          /\ by.number = call_count[s] + i
          /\ i \in 1 .. Len(calls[s]) /\ call_count[s] \in Nat /\ Len(calls[s]) \in Nat
      BY <1>1, <2>2, LiveName, LenProperties
    <3>2. turn[s] <= turns
      BY DEF NamesInv
    <3> QED
      BY <1>2, <3>1, <3>2
  <2>3. CASE by \in Known
    <3>1. by.session \in Sessions
      BY <2>3, KnownType DEF CallId
    <3> QED
      BY <1>2, <2>3, <3>1 DEF NamesInv
  <2> QED
    BY <2>1, <2>2, <2>3
<1>6. \A o \in orphans' : o.by.turn # turn'[o.by.session]
  BY DEF NamesInv
<1> QED
  BY <1>3, <1>4, <1>5, <1>6 DEF NamesInv

(* One call goes on. *)
LEMMA CallTool ==
  ASSUME OwnInv, ToolInv, NEW s \in Sessions, NEW i \in DOMAIN calls[s], Call(s, i)
  PROVE  ToolInv'
<1>1. PICK a : a = [by |-> Id(s, i), call |-> calls[s][i]]
  OBVIOUS
<1>2. a \in UnderWay
  BY <1>1, UnderWayElements
<1>3. TypeOK /\ NamesInv /\ UnderWayInv /\ LedgerInv /\ TypeOK'
  BY CallStepType DEF ToolInv
<1>4. RowsNumbered
  BY <1>3 DEF LedgerInv, RowsAccounted, RowsNumbered
<1>5. a.call.user = owner[a.by.session]
  BY <1>1 DEF OwnInv, Own, Id
<1>6. Effect(a) /\ \E r : Becomes(s, i, r) /\ Progress(a, r)
  BY <1>1, <1>2, <1>3, <1>4, CallProgress
<1>7. PICK r : Becomes(s, i, r) /\ Progress(a, r)
  BY <1>6
<1>8. r.number = a.call.number
  BY <1>7 DEF Progress
<1>9. UNCHANGED << owner, turn, turns, call_count, orphans >>
  BY DEF Call, SaveCommits, Refresh, DeleteExecutes, DeleteCommits, Reads, BodyRejects,
         BodyFails, WriteAudit, AuditFails, session, counters, Fault
<1>10. UnderWayInv'
  BY <1>1, <1>2, <1>3, <1>6, <1>7, <1>9, CallUnderWay
<1>11. NamesInv'
  BY <1>1, <1>3, <1>6, <1>7, <1>8, <1>9, CallNames
<1>12. LedgerInv'
  BY <1>2, <1>3, <1>6, <1>9, <1>5, EffectLedger
<1> QED
  BY <1>3, <1>10, <1>11, <1>12 DEF ToolInv

(* The database gets to an orphaned write. *)
LEMMA SettleTool ==
  ASSUME OwnInv, ToolInv, TypeOK', NEW o \in orphans, Settle(o)
  PROVE  ToolInv'
<1>1. TypeOK /\ NamesInv /\ UnderWayInv /\ LedgerInv
  BY DEF ToolInv
<1>2. o \in UnderWay
  BY UnderWayElements
<1>3. /\ Effect(o)
      /\ orphans' = orphans \ {o}
      /\ UNCHANGED << owner, turn, call_count, calls, turns >>
  BY DEF Settle, Effect, Write, NoWrite, session, counters
<1>4. \A b \in UnderWay' : b \in UnderWay /\ b # o
  <2> TAKE b \in UnderWay'
  <2>1. CASE b \in orphans'
    BY <1>3, <2>1, UnderWayElements
  <2>2. ASSUME NEW s \in Sessions, NEW i \in DOMAIN calls'[s],
               b = [by |-> [session |-> s, turn |-> turn'[s], number |-> calls'[s][i].number],
                    call |-> calls'[s][i]]
        PROVE  b \in UnderWay /\ b # o
    <3>1. b = [by |-> Id(s, i), call |-> calls[s][i]] /\ i \in DOMAIN calls[s]
      BY <1>3, <2>2 DEF Id
    <3>2. b.by.session = s /\ b.by.turn = turn[s]
      BY <1>1, <3>1, LiveName
    <3>3. o.by.turn # turn[o.by.session]
      BY <1>1 DEF NamesInv
    <3> QED
      BY <3>1, <3>2, <3>3, UnderWayElements
  <2> QED
    BY <2>1, <2>2, UnderWayPrime
<1>5. UnderWayInv'
  <2>1. \A b \in UnderWay' : Standing(b)'
    BY <1>1, <1>2, <1>3, <1>4, EffectOnOthers
  <2> QED
    BY <1>1, <1>4, <2>1 DEF UnderWayInv
<1>6. \A by \in Known' : by \in Known
  <2>1. \A by \in Known' : by \in Known \/ by = o.by \/ \E x \in orphans' : by = x.by
    BY <1>3, EffectKnown
  <2>2. o.by \in Known /\ \A x \in orphans' : x.by \in Known
    BY <1>3 DEF Known
  <2> QED
    BY <2>1, <2>2
<1>7. NamesInv'
  BY <1>1, <1>3, <1>6 DEF NamesInv
<1>8. o.call.user = owner[o.by.session]
  BY DEF OwnInv, Own
<1>9. LedgerInv'
  BY <1>1, <1>2, <1>3, <1>8, EffectLedger
<1> QED
  BY <1>5, <1>7, <1>9 DEF ToolInv

(* A round starts with calls no one has heard of. *)
LEMMA StartRoundTool ==
  ASSUME ToolInv, NEW s \in Sessions, StartRound(s)
  PROVE  ToolInv'
<1>1. TypeOK /\ NamesInv /\ UnderWayInv /\ LedgerInv /\ TypeOK'
  BY StartRoundType DEF ToolInv
<1>2. PICK n, round :
         /\ n \in 1 .. MaxAsked - asked
         /\ \E requests \in [1 .. n -> Requests] :
              round = [i \in 1 .. n |-> Dispatch(s, requests[i], call_count[s] + i)]
         /\ calls' = [calls EXCEPT ![s] = round]
         /\ told' = told \cup
              {Told([session |-> s, turn |-> turn[s], number |-> round[i].number], round[i]) :
                 i \in {j \in 1 .. n : round[j].at = "returned"}}
  BY StartRoundSteps
<1>3. PICK requests \in [1 .. n -> Requests] :
         round = [i \in 1 .. n |-> Dispatch(s, requests[i], call_count[s] + i)]
  BY <1>2
<1>4. /\ turn[s] # 0 /\ calls[s] = << >>
      /\ UNCHANGED << owner, turn, call_count, turns, orphans >>
      /\ UNCHANGED << rows, next_id, audit, inserted, deleted >>
  BY DEF StartRound, session, tables
<1>5. calls \in [Sessions -> Seq(CallRecord)] /\ calls' = [calls EXCEPT ![s] = round]
  BY <1>1, <1>2 DEF TypeOK
<1>6. /\ DOMAIN round = 1 .. n
      /\ \A i \in 1 .. n :
           /\ round[i].number = call_count[s] + i
           /\ round[i].at \in {"body", "returned"}
           /\ round[i].at = "body" => ~ (call_count[s] + i > MaxCalls) /\ round[i].tool # "unknown"
           /\ round[i].answer # "ok"
           /\ round[i].seen = {}
  BY <1>3 DEF Dispatch
<1>7. n \in Nat /\ asked \in Nat /\ call_count[s] \in Nat
  BY <1>1, <1>2, ExecutorAssumption DEF TypeOK
<1>8. \A z \in Sessions : z # s => calls'[z] = calls[z]
  BY <1>5
<1>9. calls'[s] = round
  BY <1>5
<1> DEFINE new(i) == [by |-> [session |-> s, turn |-> turn[s], number |-> round[i].number],
                      call |-> round[i]]
<1>10. ASSUME NEW b \in UnderWay'
       PROVE  b \in UnderWay \/ \E i \in 1 .. n : b = new(i)
  <2>1. CASE b \in orphans'
    BY <1>4, <2>1, UnderWayElements
  <2>2. ASSUME NEW z \in Sessions, NEW j \in DOMAIN calls'[z],
               b = [by |-> [session |-> z, turn |-> turn'[z], number |-> calls'[z][j].number],
                    call |-> calls'[z][j]]
        PROVE  b \in UnderWay \/ \E i \in 1 .. n : b = new(i)
    <3>1. CASE z = s
      BY <1>4, <1>6, <1>9, <2>2, <3>1
    <3>2. CASE z # s
      <4>1. b = [by |-> Id(z, j), call |-> calls[z][j]] /\ j \in DOMAIN calls[z]
        BY <1>4, <1>8, <2>2, <3>2 DEF Id
      <4> QED
        BY <4>1, UnderWayElements
    <3> QED
      BY <3>1, <3>2
  <2> QED
    BY <2>1, <2>2, UnderWayPrime
<1>11. \A i \in 1 .. n : /\ new(i).by.session = s
                         /\ new(i).by.turn = turn[s]
                         /\ new(i).by.number = call_count[s] + i
                         /\ new(i).call = round[i]
  BY <1>6
<1>12. ASSUME NEW t \in told'
       PROVE  t \in told \/ \E i \in 1 .. n : round[i].at = "returned" /\ t = Told(new(i).by, round[i])
  BY <1>2
(* No name of the new round is known. *)
<1>13. \A i \in 1 .. n : new(i).by \notin Known
  <2> TAKE i \in 1 .. n
  <2>1. Len(calls[s]) = 0
    BY <1>4
  <2>2. \A by \in Known : by.session = s /\ by.turn = turn[s] => by.number <= call_count[s] + 0
    BY <2>1 DEF NamesInv, ToolInv
  <2>3. ~ (call_count[s] + i <= call_count[s] + 0)
    BY <1>7
  <2> QED
    BY <1>11, <2>2, <2>3
<1> HIDE DEF new
<1>14. \A i \in 1 .. n : Standing(new(i))'
  <2> TAKE i \in 1 .. n
  <2> PICK b : b = new(i)
    OBVIOUS
  <2>1. /\ \A x \in inserted' : x.by # b.by
        /\ \A x \in audit' : x.by # b.by
        /\ \A t \in told : t.by # b.by
    BY <1>4, <1>13 DEF Known
  <2>2. b.call = round[i] /\ b.by.number = call_count[s] + i
    BY <1>11
  <2>3. b.call.at = "body" => b.by.number <= MaxCalls
    BY <1>6, <1>7, <2>2, ExecutorAssumption
  <2>4. ASSUME round[i].at = "body", NEW t \in told' PROVE t.by # b.by
    <3>1. CASE t \in told
      BY <2>1, <3>1
    <3>2. ASSUME NEW j \in 1 .. n, round[j].at = "returned", t = Told(new(j).by, round[j])
          PROVE  t.by # b.by
      <4>1. t.by.number = call_count[s] + j
        BY <1>11, <3>2 DEF Told
      <4>2. j # i
        BY <2>4, <3>2
      <4> QED
        BY <1>7, <2>2, <4>1, <4>2
    <3> QED
      BY <1>12, <3>1, <3>2
  <2>5. Standing(b)'
    BY <1>6, <2>1, <2>2, <2>3, <2>4 DEF Standing
  <2>6. b = new(i)'
    BY <1>4 DEF new
  <2> QED
    BY <2>5, <2>6
<1>15. \A b \in UnderWay : \A i \in 1 .. n : b.by # new(i).by
  <2> TAKE b \in UnderWay
  <2> TAKE i \in 1 .. n
  <2>1. CASE b \in orphans
    BY <1>13, <2>1 DEF Known
  <2>2. ASSUME NEW z \in Sessions, NEW j \in DOMAIN calls[z],
               b = [by |-> Id(z, j), call |-> calls[z][j]]
        PROVE  b.by # new(i).by
    <3>1. z # s
      BY <1>4, <2>2
    <3>2. b.by.session = z
      BY <2>2 DEF Id
    <3> QED
      BY <1>11, <3>1, <3>2
  <2> QED
    BY <2>1, <2>2, UnderWayElements
<1>16. UnderWayInv'
  <2>1. ASSUME NEW b \in UnderWay PROVE Standing(b)'
    <3>1. Standing(b)
      BY <1>1 DEF UnderWayInv
    <3>2. ASSUME \A t \in told : t.by # b.by, NEW t \in told' PROVE t.by # b.by
      <4>1. \A i \in 1 .. n : Told(new(i).by, round[i]).by # b.by
        BY <1>15 DEF Told
      <4> QED
        BY <1>12, <3>2, <4>1
    <3> QED
      BY <1>4, <3>1, <3>2 DEF Standing
  <2>2. ASSUME NEW b \in UnderWay', NEW c \in UnderWay', b.by = c.by
        PROVE  b = c
    <3>1. CASE b \in UnderWay /\ c \in UnderWay
      BY <1>1, <2>2, <3>1 DEF UnderWayInv
    <3>2. ASSUME NEW i \in 1 .. n, NEW j \in 1 .. n, b = new(i), c = new(j)
          PROVE  b = c
      <4>1. call_count[s] + i = call_count[s] + j
        BY <1>11, <2>2, <3>2
      <4>2. i = j
        BY <1>7, <4>1
      <4> QED
        BY <3>2, <4>2
    <3>3. CASE (b \in UnderWay /\ \E i \in 1 .. n : c = new(i))
                 \/ (c \in UnderWay /\ \E i \in 1 .. n : b = new(i))
      BY <1>15, <2>2, <3>3
    <3> QED
      BY <1>10, <3>1, <3>2, <3>3
  <2>3. \A i \in 1 .. n : new(i).call.at # "commit"
    BY <1>6, <1>11
  <2>4. \A b \in UnderWay' : Standing(b)'
    <3> TAKE b \in UnderWay'
    <3>1. CASE b \in UnderWay
      BY <2>1, <3>1
    <3>2. ASSUME NEW i \in 1 .. n, b = new(i)
          PROVE  Standing(b)'
      <4>1. new(i)' = new(i)
        BY <1>4 DEF new
      <4> QED
        BY <1>14, <3>2, <4>1
    <3> QED
      BY <1>10, <3>1, <3>2
  <2>5. \A b, c \in UnderWay' : b # c /\ b.call.at = "commit" /\ c.call.at = "commit" =>
                                  b.call.doomed \cap c.call.doomed = {}
    BY <1>1, <1>10, <2>3 DEF UnderWayInv
  <2> QED
    BY <2>2, <2>4, <2>5 DEF UnderWayInv
<1>17. ASSUME NEW by \in Known'
       PROVE  by \in Known \/ \E i \in 1 .. n : by = new(i).by
  <2>1. \A i \in 1 .. n : Told(new(i).by, round[i]).by = new(i).by
    BY DEF Told
  <2> QED
    BY <1>4, <1>12, <2>1 DEF Known
<1>18. Len(calls[s]) = 0 /\ Len(calls'[s]) = n
  <2>1. round \in Seq(CallRecord)
    BY <1>1, <1>9 DEF TypeOK
  <2>2. Len(round) \in Nat /\ DOMAIN round = 1 .. Len(round)
    BY <2>1, LenProperties
  <2>3. Len(round) = n
    BY <1>6, <1>7, <2>1, <2>2, LenProperties
  <2> QED
    BY <1>4, <1>9, <2>3
<1>19. NamesInv'
  <2>1. \A z \in Sessions : turn'[z] <= turns' /\ (turn'[z] = 0 => calls'[z] = << >>)
    BY <1>1, <1>4, <1>8 DEF NamesInv
  <2>2. \A z \in Sessions : \A i \in DOMAIN calls'[z] :
          calls'[z][i].number = call_count'[z] + i
    <3> TAKE z \in Sessions
    <3>1. CASE z = s
      BY <1>4, <1>6, <1>9, <3>1
    <3>2. CASE z # s
      BY <1>1, <1>4, <1>8, <3>2 DEF NamesInv
    <3> QED
      BY <3>1, <3>2
  <2>3. ASSUME NEW by \in Known'
        PROVE  /\ by.turn # 0
               /\ by.turn <= turns'
               /\ by.turn = turn'[by.session] =>
                    by.number <= call_count'[by.session] + Len(calls'[by.session])
    <3>1. CASE by \in Known /\ by.session = s
      <4>1. by.number \in Nat
        BY <1>1, <3>1, KnownType DEF CallId
      <4>2. /\ by.turn # 0 /\ by.turn <= turns
            /\ by.turn = turn[s] => by.number <= call_count[s] + Len(calls[s])
        BY <1>1, <3>1 DEF NamesInv
      <4>3. call_count[s] + Len(calls[s]) = call_count[s] /\ call_count[s] <= call_count[s] + n
        BY <1>7, <1>18
      <4>4. by.turn = turn[s] => by.number <= call_count[s] + n
        BY <1>7, <4>1, <4>2, <4>3
      <4> QED
        BY <1>4, <1>18, <3>1, <4>2, <4>4
    <3>2. CASE by \in Known /\ by.session # s
      <4>1. by.session \in Sessions
        BY <1>1, <3>2, KnownType DEF CallId
      <4> QED
        BY <1>1, <1>4, <1>8, <3>2, <4>1 DEF NamesInv
    <3>3. ASSUME NEW i \in 1 .. n, by = new(i).by
          PROVE  /\ by.turn # 0
                 /\ by.turn <= turns'
                 /\ by.turn = turn'[by.session] =>
                      by.number <= call_count'[by.session] + Len(calls'[by.session])
      <4>1. by.session = s /\ by.turn = turn[s] /\ by.number = call_count[s] + i
        BY <1>11, <3>3
      <4>2. turn[s] <= turns /\ i \in Nat /\ i <= n
        BY <1>1, <1>7 DEF NamesInv
      <4> QED
        BY <1>4, <1>7, <1>18, <4>1, <4>2
    <3> QED
      BY <1>17, <3>1, <3>2, <3>3
  <2>4. \A o \in orphans' : o.by.turn # turn'[o.by.session]
    BY <1>1, <1>4 DEF NamesInv
  <2> QED
    BY <2>1, <2>2, <2>3, <2>4 DEF NamesInv
(* The answers of the round's refused calls claim nothing. *)
<1>20. ASSUME NEW t \in told'
       PROVE  t \in told \/ (t.by \notin Known /\ t.answer # "ok" /\ t.seen = {})
  <2>1. \A i \in 1 .. n : LET u == Told(new(i).by, round[i])
                         IN u.by \notin Known /\ u.answer # "ok" /\ u.seen = {}
    BY <1>6, <1>13 DEF Told
  <2> QED
    BY <1>12, <2>1
<1>21. LedgerInv'
  <2>1. RowsAccounted' /\ \A x \in inserted' \cup deleted' : x.row.id < next_id'
    BY <1>1, <1>4 DEF LedgerInv, RowsAccounted
  <2>2. AuditTruthful'
    <3>1. /\ \A x, y \in audit' : x.by = y.by => x = y
          /\ \A x \in audit' :
               x.by.number <= MaxCalls /\ x.user = owner'[x.by.session] /\ x.tool # "unknown"
          /\ \A x \in audit' : x.tool = "save_decision" /\ ~ x.flagged =>
               \E y \in inserted' : y.by = x.by
      BY <1>1, <1>4 DEF LedgerInv, AuditTruthful
    <3>2. ASSUME NEW t \in told', NEW x \in audit', t.by = x.by
          PROVE  /\ t.answer \in {"ok", "error"}
                 /\ t.tool = x.tool
                 /\ x.flagged <=> t.answer = "error"
      <4>1. x.by \in Known
        BY <1>4 DEF Known
      <4>2. t \in told
        BY <1>20, <3>2, <4>1
      <4> QED
        BY <1>1, <1>4, <3>2, <4>2 DEF LedgerInv, AuditTruthful
    <3> QED
      BY <3>1, <3>2 DEF AuditTruthful
  <2>3. AnswersTrue'
    <3>1. ASSUME NEW t \in told', t.answer = "ok" PROVE t \in told
      BY <1>20, <3>1
    <3>2. ASSUME NEW x \in inserted' \cup deleted', NEW t \in told', t.by = x.by
          PROVE  t.answer # "retry" /\ t.tool # "unknown"
      <4>1. x.by \in Known
        BY <1>4 DEF Known
      <4>2. t \in told
        BY <1>20, <3>2, <4>1
      <4> QED
        BY <1>1, <1>4, <3>2, <4>2 DEF LedgerInv, AnswersTrue
    <3>3. \A x \in inserted' \cup deleted' : x.by.number <= MaxCalls
      BY <1>1, <1>4 DEF LedgerInv, AnswersTrue
    <3>4. \A t \in told' : t.tool = "save_decision" /\ t.answer = "ok" =>
            \E x \in inserted' : x.by = t.by
      BY <1>1, <1>4, <3>1 DEF LedgerInv, AnswersTrue
    <3>5. \A t \in told' : t.tool = "remove_decision" /\ t.answer = "ok" =>
            InCapitals(owner'[t.by.session], t.code, t.seen \cap rows') = {}
      BY <1>1, <1>4, <3>1 DEF LedgerInv, AnswersTrue
    <3> QED
      BY <3>2, <3>3, <3>4, <3>5 DEF AnswersTrue
  <2>4. \A t \in told' : \A x \in t.seen : x.id < next_id'
    BY <1>1, <1>4, <1>20 DEF LedgerInv
  <2> QED
    BY <2>1, <2>2, <2>3, <2>4 DEF LedgerInv
<1> QED
  BY <1>1, <1>16, <1>19, <1>21 DEF ToolInv

(* A round that is over, or cancelled, leaves at most its orphans. *)
LEMMA RoundEndsUnderWay ==
  ASSUME TypeOK, NEW s \in Sessions, calls' = [calls EXCEPT ![s] = << >>],
         \A z \in Sessions : z # s => turn'[z] = turn[z],
         \A o \in orphans' : o \in orphans \/
           \E i \in DOMAIN calls[s] : o = [by |-> Id(s, i), call |-> calls[s][i]]
  PROVE  UnderWay' \subseteq UnderWay
<1>1. calls \in [Sessions -> Seq(CallRecord)]
  BY DEF TypeOK
<1> SUFFICES ASSUME NEW b \in UnderWay' PROVE b \in UnderWay
  OBVIOUS
<1>2. CASE b \in orphans'
  BY <1>2, UnderWayElements
<1>3. ASSUME NEW z \in Sessions, NEW j \in DOMAIN calls'[z],
             b = [by |-> [session |-> z, turn |-> turn'[z], number |-> calls'[z][j].number],
                  call |-> calls'[z][j]]
      PROVE  b \in UnderWay
  <2>1. z # s
    BY <1>1
  <2>2. calls'[z] = calls[z]
    BY <1>1, <2>1
  <2>3. b = [by |-> Id(z, j), call |-> calls[z][j]] /\ j \in DOMAIN calls[z]
    BY <1>3, <2>1, <2>2 DEF Id
  <2> QED
    BY <2>3, UnderWayElements
<1> QED
  BY <1>2, <1>3, UnderWayPrime

LEMMA CancelTool ==
  ASSUME ToolInv, NEW s \in Sessions, Cancel(s)
  PROVE  ToolInv'
<1>1. TypeOK /\ NamesInv /\ UnderWayInv /\ LedgerInv /\ TypeOK'
  BY CancelType DEF ToolInv
<1>2. /\ calls' = [calls EXCEPT ![s] = << >>]
      /\ turn' = [turn EXCEPT ![s] = 0]
      /\ UNCHANGED << owner, call_count, turns >>
      /\ UNCHANGED << rows, next_id, audit, inserted, deleted, told >>
  BY DEF Cancel, tables, counters, history
<1>3. ASSUME NEW o \in orphans'
      PROVE  \/ o \in orphans
             \/ \E i \in DOMAIN calls[s] : o = [by |-> Id(s, i), call |-> calls[s][i]]
  BY DEF Cancel
<1>4. calls \in [Sessions -> Seq(CallRecord)] /\ turn \in [Sessions -> Nat]
  BY <1>1 DEF TypeOK
<1>5. UnderWay' \subseteq UnderWay
  BY <1>1, <1>2, <1>3, <1>4, RoundEndsUnderWay
<1>6. UnderWayInv'
  BY <1>1, <1>2, <1>5, Shrink
<1>7. ASSUME NEW i \in DOMAIN calls[s]
      PROVE  /\ Id(s, i).session = s /\ Id(s, i).turn # 0 /\ Id(s, i).turn <= turns
  BY <1>1, LiveName DEF NamesInv
<1>8. ASSUME NEW by \in Known'
      PROVE  by \in Known \/ (by.session = s /\ by.turn # 0 /\ by.turn <= turns)
  <2>1. CASE by \in Known
    BY <2>1
  <2>2. ASSUME NEW o \in orphans', by = o.by
        PROVE  by \in Known \/ (by.session = s /\ by.turn # 0 /\ by.turn <= turns)
    <3>1. CASE o \in orphans
      BY <2>2, <3>1 DEF Known
    <3>2. ASSUME NEW i \in DOMAIN calls[s], o = [by |-> Id(s, i), call |-> calls[s][i]]
          PROVE  by.session = s /\ by.turn # 0 /\ by.turn <= turns
      BY <1>7, <2>2, <3>2
    <3> QED
      BY <1>3, <3>1, <3>2
  <2> QED
    BY <1>2, <2>1, <2>2 DEF Known
<1>9. NamesInv'
  <2>1. \A z \in Sessions : turn'[z] <= turns' /\ (turn'[z] = 0 => calls'[z] = << >>)
    <3> TAKE z \in Sessions
    <3>1. CASE z = s
      <4>1. turn[s] <= turns /\ turn[s] \in Nat /\ turns \in Nat
        BY <1>1 DEF NamesInv, TypeOK
      <4> QED
        BY <1>2, <1>4, <3>1, <4>1
    <3>2. CASE z # s
      BY <1>1, <1>2, <1>4, <3>2 DEF NamesInv
    <3> QED
      BY <3>1, <3>2
  <2>2. \A z \in Sessions : \A i \in DOMAIN calls'[z] :
          calls'[z][i].number = call_count'[z] + i
    BY <1>1, <1>2, <1>4 DEF NamesInv
  <2>3. ASSUME NEW by \in Known'
        PROVE  /\ by.turn # 0
               /\ by.turn <= turns'
               /\ by.turn = turn'[by.session] =>
                    by.number <= call_count'[by.session] + Len(calls'[by.session])
    <3>1. by.turn # 0 /\ by.turn <= turns
      BY <1>1, <1>8 DEF NamesInv
    <3>2. by.session # s => by \in Known /\ by.session \in Sessions
      BY <1>1, <1>8, KnownType DEF CallId
    <3>3. CASE by.session = s
      BY <1>2, <1>4, <3>1, <3>3
    <3>4. CASE by.session # s
      BY <1>1, <1>2, <1>4, <3>1, <3>2, <3>4 DEF NamesInv
    <3> QED
      BY <3>3, <3>4
  <2>4. ASSUME NEW o \in orphans'
        PROVE  o.by.turn # turn'[o.by.session]
    <3>1. CASE o.by.session = s
      BY <1>2, <1>4, <2>3, <3>1 DEF Known
    <3>2. CASE o.by.session # s
      <4>1. o \in orphans /\ o.by.session \in Sessions
        BY <1>1, <1>3, <1>7, <3>2 DEF TypeOK, CallId
      <4> QED
        BY <1>1, <1>2, <1>4, <3>2, <4>1 DEF NamesInv
    <3> QED
      BY <3>1, <3>2
  <2> QED
    BY <2>1, <2>2, <2>3, <2>4 DEF NamesInv
<1>10. LedgerInv'
  BY <1>1, <1>2 DEF LedgerInv, RowsAccounted, AuditTruthful, AnswersTrue
<1> QED
  BY <1>1, <1>6, <1>9, <1>10 DEF ToolInv

(* The calls of a finished round stay counted. *)
LEMMA FinishRoundTool ==
  ASSUME ToolInv, TypeOK', NEW s \in Sessions, FinishRound(s)
  PROVE  ToolInv'
<1>1. TypeOK /\ NamesInv /\ UnderWayInv /\ LedgerInv
  BY DEF ToolInv
<1>2. /\ calls' = [calls EXCEPT ![s] = << >>]
      /\ call_count' = [call_count EXCEPT ![s] = @ + Len(calls[s])]
      /\ UNCHANGED << owner, turn, turns, orphans >>
      /\ UNCHANGED << rows, next_id, audit, inserted, deleted, told >>
  BY DEF FinishRound, tables, counters, history
<1>3. calls \in [Sessions -> Seq(CallRecord)] /\ call_count \in [Sessions -> Nat]
  BY <1>1 DEF TypeOK
<1>4. UnderWay' \subseteq UnderWay
  BY <1>1, <1>2, RoundEndsUnderWay
<1>5. UnderWayInv'
  BY <1>1, <1>2, <1>4, Shrink
<1>6. Known' = Known
  BY <1>2 DEF Known
<1>7. Len(calls[s]) \in Nat /\ Len(<< >>) = 0
  BY <1>3, LenProperties
<1>8. NamesInv'
  <2>1. \A z \in Sessions : turn'[z] <= turns' /\ (turn'[z] = 0 => calls'[z] = << >>)
    BY <1>1, <1>2, <1>3 DEF NamesInv
  <2>2. \A z \in Sessions : \A i \in DOMAIN calls'[z] :
          calls'[z][i].number = call_count'[z] + i
    BY <1>1, <1>2, <1>3 DEF NamesInv
  <2>3. ASSUME NEW by \in Known'
        PROVE  /\ by.turn # 0
               /\ by.turn <= turns'
               /\ by.turn = turn'[by.session] =>
                    by.number <= call_count'[by.session] + Len(calls'[by.session])
    <3>1. by \in Known /\ by.session \in Sessions
      BY <1>1, <1>6, KnownType DEF CallId
    <3>2. CASE by.session = s
      <4>1. call_count'[s] = call_count[s] + Len(calls[s]) /\ Len(calls'[s]) = 0
            /\ call_count[s] \in Nat
        BY <1>2, <1>3, <1>7
      <4> QED
        BY <1>1, <1>2, <1>7, <3>1, <3>2, <4>1 DEF NamesInv
    <3>3. CASE by.session # s
      BY <1>1, <1>2, <1>3, <3>1, <3>3 DEF NamesInv
    <3> QED
      BY <3>2, <3>3
  <2>4. \A o \in orphans' : o.by.turn # turn'[o.by.session]
    BY <1>1, <1>2 DEF NamesInv
  <2> QED
    BY <2>1, <2>2, <2>3, <2>4 DEF NamesInv
<1>9. LedgerInv'
  BY <1>1, <1>2 DEF LedgerInv, RowsAccounted, AuditTruthful, AnswersTrue
<1> QED
  BY <1>5, <1>8, <1>9 DEF ToolInv

(* A turn begins under a number no name has, and ends with no call under way. *)
LEMMA TurnTool ==
  ASSUME ToolInv, TypeOK', NEW s \in Sessions, BeginTurn(s) \/ EndTurn(s)
  PROVE  ToolInv'
<1>1. TypeOK /\ NamesInv /\ UnderWayInv /\ LedgerInv
  BY DEF ToolInv
<1>2. /\ UNCHANGED << owner, calls, orphans >>
      /\ UNCHANGED << rows, next_id, audit, inserted, deleted, told >>
      /\ \A z \in Sessions : z # s => turn'[z] = turn[z] /\ call_count'[z] = call_count[z]
  BY <1>1 DEF BeginTurn, EndTurn, tables, history, TypeOK
<1>3. calls[s] = << >>
  BY <1>1 DEF BeginTurn, EndTurn, NamesInv
<1>4. turns' >= turns /\ (turn'[s] = 0 \/ turn'[s] > turns) /\ turn'[s] <= turns'
      /\ turns \in Nat /\ turns' \in Nat
  BY <1>1 DEF BeginTurn, EndTurn, TypeOK, counters
<1>5. UnderWay' \subseteq UnderWay
  <2>1. calls' = [calls EXCEPT ![s] = << >>]
    BY <1>1, <1>2, <1>3 DEF TypeOK
  <2> QED
    BY <1>1, <1>2, <2>1, RoundEndsUnderWay
<1>6. UnderWayInv'
  BY <1>1, <1>2, <1>5, Shrink
<1>7. Known' = Known
  BY <1>2 DEF Known
<1>8. \A by \in Known : by.turn # turn'[s] /\ by.turn <= turns' /\ by.turn # 0
  <2> TAKE by \in Known
  <2>1. by.turn \in Nat /\ by.turn # 0 /\ by.turn <= turns
    BY <1>1, KnownType DEF NamesInv, CallId
  <2> QED
    BY <1>4, <2>1
<1>9. \A z \in Sessions : turn'[z] <= turns' /\ (turn'[z] = 0 => calls'[z] = << >>)
  <2> TAKE z \in Sessions
  <2>1. CASE z = s
    BY <1>2, <1>3, <1>4, <2>1
  <2>2. CASE z # s
    <3>1. turn[z] \in Nat /\ turn[z] <= turns /\ turn'[z] = turn[z]
      BY <1>1, <1>2, <2>2 DEF NamesInv, TypeOK
    <3> QED
      BY <1>1, <1>2, <1>4, <3>1 DEF NamesInv
  <2> QED
    BY <2>1, <2>2
<1>10. NamesInv'
  <2>1. \A z \in Sessions : \A i \in DOMAIN calls'[z] :
          calls'[z][i].number = call_count'[z] + i
    BY <1>1, <1>2, <1>3 DEF NamesInv
  <2>2. ASSUME NEW by \in Known', by.turn = turn'[by.session]
        PROVE  by.number <= call_count'[by.session] + Len(calls'[by.session])
    <3>1. by \in Known /\ by.session \in Sessions
      BY <1>1, <1>7, KnownType DEF CallId
    <3>2. by.session # s
      BY <1>8, <2>2, <3>1
    <3> QED
      BY <1>1, <1>2, <2>2, <3>1, <3>2 DEF NamesInv
  <2>3. \A o \in orphans' : o.by.turn # turn'[o.by.session]
    <3> TAKE o \in orphans'
    <3>1. o \in orphans /\ o.by \in Known /\ o.by.session \in Sessions
      BY <1>1, <1>2, KnownType DEF Known, CallId
    <3> QED
      BY <1>1, <1>2, <1>8, <3>1 DEF NamesInv
  <2> QED
    BY <1>7, <1>8, <1>9, <2>1, <2>2, <2>3 DEF NamesInv
<1>11. LedgerInv'
  BY <1>1, <1>2 DEF LedgerInv, RowsAccounted, AuditTruthful, AnswersTrue
<1> QED
  BY <1>6, <1>10, <1>11 DEF ToolInv

LEMMA InitTool == Init => ToolInv
<1> SUFFICES ASSUME Init PROVE ToolInv
  OBVIOUS
<1>1. TypeOK
  BY InitType
<1>2. UnderWay = {}
  BY DEF Init, UnderWay, Tracked
<1>3. Known = {}
  BY DEF Init, Known
<1>4. NamesInv
  BY <1>3 DEF Init, NamesInv
<1>5. LedgerInv
  BY DEF Init, LedgerInv, RowsAccounted, AuditTruthful, AnswersTrue
<1> QED
  BY <1>1, <1>2, <1>4, <1>5 DEF ToolInv, UnderWayInv

LEMMA NextTool == OwnInv /\ ToolInv /\ [Next]_vars => ToolInv'
<1> SUFFICES ASSUME OwnInv, ToolInv, [Next]_vars PROVE ToolInv'
  OBVIOUS
<1>1. TypeOK'
  BY NextType DEF ToolInv
<1>2. ASSUME NEW s \in Sessions, BeginTurn(s) \/ EndTurn(s)
      PROVE  ToolInv'
  BY <1>1, <1>2, TurnTool
<1>3. ASSUME NEW s \in Sessions, StartRound(s)
      PROVE  ToolInv'
  BY <1>3, StartRoundTool
<1>4. ASSUME NEW s \in Sessions, FinishRound(s)
      PROVE  ToolInv'
  BY <1>1, <1>4, FinishRoundTool
<1>5. ASSUME NEW s \in Sessions, Cancel(s)
      PROVE  ToolInv'
  BY <1>5, CancelTool
<1>6. ASSUME NEW s \in Sessions, NEW i \in DOMAIN calls[s], Call(s, i)
      PROVE  ToolInv'
  BY <1>6, CallTool
<1>7. ASSUME NEW o \in orphans, Settle(o)
      PROVE  ToolInv'
  BY <1>1, <1>7, SettleTool
<1>8. CASE UNCHANGED vars
  <2>1. /\ UNCHANGED << owner, turn, call_count, calls, orphans, turns >>
        /\ UNCHANGED << rows, next_id, audit, inserted, deleted, told >>
    BY <1>8 DEF vars, tables, session, counters, history
  <2>2. UnderWay' = UnderWay
    BY <2>1 DEF UnderWay, Tracked, Id
  <2>3. UnderWayInv'
    BY <2>1, <2>2, Shrink DEF ToolInv
  <2>4. NamesInv'
    BY <2>1 DEF ToolInv, NamesInv, Known
  <2>5. LedgerInv'
    BY <2>1 DEF ToolInv, LedgerInv, RowsAccounted, AuditTruthful, AnswersTrue
  <2> QED
    BY <1>1, <2>3, <2>4, <2>5 DEF ToolInv
<1> QED
  BY <1>2, <1>3, <1>4, <1>5, <1>6, <1>7, <1>8 DEF Next

LEMMA ToolInvariant == Spec => []ToolInv
BY InitTool, NextTool, OwnInvariant, PTL DEF Spec

(* Each call inserts at most one row and each row is deleted at most once,  *)
(* whatever fails, is cancelled or lands late (no mutating tool is run      *)
(* again: tool_executor.execute).                                           *)
THEOREM RowsAreAccounted == Spec => []RowsAccounted
<1>1. ToolInv => RowsAccounted
  BY DEF ToolInv, LedgerInv
<1> QED
  BY <1>1, ToolInvariant, PTL

(* The audit log has at most one line for a call, for its session's user    *)
(* and for no call that was refused or invalid; it is flagged when and only *)
(* when the model was told that the call failed, and an unflagged save was  *)
(* done, told or not (execute, _write_audit_log).                           *)
THEOREM AuditTellsTheTruth == Spec => []AuditTruthful
<1>1. ToolInv => AuditTruthful
  BY DEF ToolInv, LedgerInv
<1> QED
  BY <1>1, ToolInvariant, PTL

(* What the model is told was done was done: the save has its row, and of   *)
(* the rows a removal's DELETE saw none with the upper-case code is left;   *)
(* and nothing is done for a call that was refused or told to try again     *)
(* (execute, remove_student_decision).                                      *)
THEOREM AnswersAreTrue == Spec => []AnswersTrue
<1>1. ToolInv => AnswersTrue
  BY DEF ToolInv, LedgerInv
<1> QED
  BY <1>1, ToolInvariant, PTL
=============================================================================
