---------------------------- MODULE ToolExecutor ----------------------------
(***************************************************************************)
(* The tool calls of the chat service: tool_node runs the calls of one AI  *)
(* message concurrently, ToolExecutor.execute checks, invokes and audits   *)
(* each (core/tool_executor.py), and the two tools that write, save_       *)
(* decision and remove_decision, reach student_decisions through           *)
(* postgres_service.  Several sessions, of one user or of several, have a  *)
(* turn at once; a turn is cancelled by the graph's timeout or by a        *)
(* dropped socket at any await.                                            *)
(*                                                                         *)
(* The six tools that only read are one, "read".  A course code is a       *)
(* course and whether it is spelled in upper case.                         *)
(***************************************************************************)
EXTENDS Integers, Sequences, FiniteSets, Functions

CONSTANTS
  Sessions, Users, Courses,
  MaxCalls,    \* MAX_TOOL_CALLS_PER_TURN (10 in the code)
  Requests,    \* tool calls the model may ask for
  MaxAsked,    \* bound: tool calls the model asks for, over all turns
  MaxTurns,    \* bound: turns, over all sessions
  MaxFaults    \* bound: failed database calls

Codes == [course : Courses, upper : BOOLEAN]

(* Mutant: the code is taken as the model spelled it. *)
AsTyped(code) == code

Upper(code) == [code EXCEPT !.upper = TRUE]

Tools == {"save_decision", "remove_decision", "read", "unknown"}

(* Good, rejected by the tool's args_schema, or rejected by its body. *)
Arguments == {"ok", "schema", "value"}

(* user_id is what the model put there: the executor sees it all the same. *)
Request == [tool : Tools, code : Codes, user_id : Users, arguments : Arguments]

ASSUME ExecutorAssumption ==
  /\ MaxCalls \in Nat
  /\ Requests \subseteq Request
  /\ MaxAsked \in Nat
  /\ MaxTurns \in Nat
  /\ MaxFaults \in Nat

VARIABLES
  owner,       \* the authenticated user of each session
  rows,        \* student_decisions: [id, user, code]
  next_id,     \* its sequence
  audit,       \* tool_audit_log: [by, user, tool, flagged]
  turn,        \* the turn each session is in, 0: none
  call_count,  \* state["call_count"] of that turn
  calls,       \* the calls of the round under way
  orphans,     \* writes under way whose call was cancelled
  turns, asked, faults,   \* counters for the bounds
  inserted,    \* history variable: which call inserted which row
  deleted,     \* history variable: which call deleted which row
  told         \* history variable: what each call that returned answered

tables == << rows, next_id, audit >>
session == << owner, turn, call_count >>
counters == << turns, asked, faults >>
history == << inserted, deleted, told >>
vars == << tables, session, calls, orphans, counters, history >>

Init ==
  /\ owner \in [Sessions -> Users]
  /\ rows = {}
  /\ next_id = 1
  /\ audit = {}
  /\ turn = [s \in Sessions |-> 0]
  /\ call_count = [s \in Sessions |-> 0]
  /\ calls = [s \in Sessions |-> << >>]
  /\ orphans = {}
  /\ turns = 0
  /\ asked = 0
  /\ faults = 0
  /\ inserted = {}
  /\ deleted = {}
  /\ told = {}

Fault ==
  /\ faults < MaxFaults
  /\ faults' = faults + 1
  /\ UNCHANGED << turns, asked >>

(* What names a call: it is numbered within its turn. *)
Id(s, i) == [session |-> s, turn |-> turn[s], number |-> calls[s][i].number]

-----------------------------------------------------------------------------
(* The turn.                                                               *)

BeginTurn(s) ==
  /\ turn[s] = 0
  /\ turns < MaxTurns
  /\ turns' = turns + 1
  /\ turn' = [turn EXCEPT ![s] = turns']
  /\ call_count' = [call_count EXCEPT ![s] = 0]
  /\ UNCHANGED << tables, owner, calls, asked, faults, orphans, history >>

(* Mutant: the user_id the model supplied is taken. *)
DispatchTrusting(s, request, number) ==
  [tool |-> request.tool, code |-> request.code, number |-> number,
   user |-> request.user_id, arguments |-> request.arguments, doomed |-> {}, seen |-> {},
   at |-> "body", answer |-> "none"]

(* execute up to its first await: the cap, the dispatch, the user_id forced *)
(* on the arguments, their validation.  at = "body" awaits the tool.        *)
Dispatch(s, request, number) ==
  [tool |-> request.tool, code |-> request.code, number |-> number,
   user |-> owner[s], arguments |-> request.arguments, doomed |-> {}, seen |-> {},
   at |-> IF number > MaxCalls \/ request.tool = "unknown" \/ request.arguments = "schema"
          THEN "returned" ELSE "body",
   answer |-> IF number > MaxCalls \/ request.tool = "unknown" THEN "error"
              ELSE IF request.arguments = "schema" THEN "retry" ELSE "none"]

(* What the model is told of a call, and, of a removal, which table its      *)
(* DELETE saw.                                                              *)
Told(by, call) ==
  [by |-> by, tool |-> call.tool, code |-> call.code, answer |-> call.answer,
   seen |-> call.seen]

(* The model asks for tools: asyncio.gather starts every call of the message. *)
(* Those that are refused or invalid have their answer at once.             *)
StartRound(s) ==
  /\ turn[s] # 0
  /\ calls[s] = << >>
  /\ \E n \in 1 .. MaxAsked - asked : \E requests \in [1 .. n -> Requests] :
       LET round == [i \in 1 .. n |-> Dispatch(s, requests[i], call_count[s] + i)]
           name(i) == [session |-> s, turn |-> turn[s], number |-> round[i].number]
       IN /\ calls' = [calls EXCEPT ![s] = round]
          /\ told' = told \cup
               {Told(name(i), round[i]) : i \in {j \in 1 .. n : round[j].at = "returned"}}
          /\ asked' = asked + n
  /\ UNCHANGED << tables, session, turns, faults, orphans, inserted, deleted >>

(* gather returns when every call has; the turn's counter counts them all. *)
FinishRound(s) ==
  /\ calls[s] # << >>
  /\ \A i \in DOMAIN calls[s] : calls[s][i].at = "returned"
  /\ call_count' = [call_count EXCEPT ![s] = @ + Len(calls[s])]
  /\ calls' = [calls EXCEPT ![s] = << >>]
  /\ UNCHANGED << tables, owner, turn, counters, orphans, history >>

EndTurn(s) ==
  /\ turn[s] # 0
  /\ calls[s] = << >>
  /\ turn' = [turn EXCEPT ![s] = 0]
  /\ UNCHANGED << tables, owner, call_count, calls, counters, orphans, history >>

-----------------------------------------------------------------------------
(* One call.                                                               *)

At(s, i, tool, at) == calls[s][i].tool = tool /\ calls[s][i].at = at

Step(s, i, at, answer) ==
  calls' = [calls EXCEPT ![s][i] = [@ EXCEPT !.at = at, !.answer = answer]]

(* Mutant: the row has no code but the course. *)
InsertCourse(by, call) ==
  LET row == [id |-> next_id, user |-> call.user, code |-> call.code.course] IN
  /\ rows' = rows \cup {row}
  /\ inserted' = inserted \cup {[by |-> by, row |-> row]}
  /\ next_id' = next_id + 1
  /\ UNCHANGED << audit, deleted >>

Insert(by, call) ==
  LET row == [id |-> next_id, user |-> call.user, code |-> call.code] IN
  /\ rows' = rows \cup {row}
  /\ inserted' = inserted \cup {[by |-> by, row |-> row]}
  /\ next_id' = next_id + 1
  /\ UNCHANGED << audit, deleted >>

Delete(by, call) ==
  /\ rows' = rows \ call.doomed
  /\ deleted' = deleted \cup {[by |-> by, row |-> r] : r \in call.doomed}
  /\ UNCHANGED << next_id, audit, inserted >>

(* Mutant: a failure is not flagged. *)
LogUnflagged(by, call) ==
  /\ audit' = audit \cup {[by |-> by, user |-> owner[by.session], tool |-> call.tool,
                           flagged |-> FALSE]}
  /\ UNCHANGED << rows, next_id, inserted, deleted >>

Log(by, call) ==
  /\ audit' = audit \cup {[by |-> by, user |-> owner[by.session], tool |-> call.tool,
                           flagged |-> call.answer = "error"]}
  /\ UNCHANGED << rows, next_id, inserted, deleted >>

(* A call that waits for a commit.  If it fails or is cancelled before it   *)
(* has heard, the commit takes effect or does not.                          *)
Writing(call) ==
  \/ call.tool = "save_decision" /\ call.at = "body" /\ call.arguments = "ok"
  \/ call.at \in {"commit", "audit"}

Write(by, call) ==
  \/ call.at = "body" /\ Insert(by, call)
  \/ call.at = "commit" /\ Delete(by, call)
  \/ call.at = "audit" /\ Log(by, call)

NoWrite == UNCHANGED << tables, inserted, deleted >>

(* INSERT and COMMIT of save_student_decision; the refresh follows. *)
SaveCommits(s, i) ==
  /\ At(s, i, "save_decision", "body")
  /\ calls[s][i].arguments = "ok"
  /\ Insert(Id(s, i), calls[s][i])
  /\ Step(s, i, "refresh", "none")
  /\ UNCHANGED << session, orphans, counters, told >>

Refresh(s, i) ==
  /\ At(s, i, "save_decision", "refresh")
  /\ Step(s, i, "audit", "ok")
  /\ UNCHANGED << tables, session, orphans, counters, history >>

(* The rows that transactions whose DELETE has executed have locked. *)
Locked ==
  LET inFlight == (UNION {Range(calls[s]) : s \in Sessions}) \cup {o.call : o \in orphans}
  IN UNION {call.doomed : call \in {c \in inFlight : c.at = "commit"}}

(* DELETE: it waits for rows another transaction is deleting, and it sees    *)
(* those that are committed now.                                            *)
DeleteExecutes(s, i) ==
  LET doomed == {r \in rows : r.user = calls[s][i].user /\ r.code = Upper(calls[s][i].code)}
  IN /\ At(s, i, "remove_decision", "body")
     /\ calls[s][i].arguments = "ok"
     /\ doomed \cap Locked = {}
     /\ calls' = [calls EXCEPT ![s][i] = [@ EXCEPT !.at = "commit", !.doomed = doomed,
                                                   !.seen = rows]]
     /\ UNCHANGED << tables, session, orphans, counters, history >>

DeleteCommits(s, i) ==
  /\ At(s, i, "remove_decision", "commit")
  /\ Delete(Id(s, i), calls[s][i])
  /\ Step(s, i, "audit", "ok")
  /\ UNCHANGED << session, orphans, counters, told >>

Reads(s, i) ==
  /\ At(s, i, "read", "body")
  /\ calls[s][i].arguments = "ok"
  /\ Step(s, i, "audit", "ok")
  /\ UNCHANGED << tables, session, orphans, counters, history >>

(* A ValueError of the body. *)
BodyRejects(s, i) ==
  /\ calls[s][i].at = "body"
  /\ calls[s][i].arguments = "value"
  /\ Step(s, i, "audit", "error")
  /\ UNCHANGED << tables, session, orphans, counters, history >>

(* Any other exception: PostgresServiceError, Neo4jServiceError, ...        *)
BodyFails(s, i) ==
  /\ calls[s][i].at \in {"body", "refresh", "commit"}
  /\ Fault
  /\ \/ Writing(calls[s][i]) /\ Write(Id(s, i), calls[s][i])
     \/ NoWrite
  /\ Step(s, i, "audit", "error")
  /\ UNCHANGED << session, orphans, told >>

Tell(s, i) ==
  /\ told' = told \cup {Told(Id(s, i), calls[s][i])}
  /\ calls' = [calls EXCEPT ![s][i] = [@ EXCEPT !.at = "returned", !.doomed = {},
                                                !.seen = {}]]

(* _write_audit_log: a row of its own transaction, flagged on failure. *)
WriteAudit(s, i) ==
  /\ calls[s][i].at = "audit"
  /\ Log(Id(s, i), calls[s][i])
  /\ Tell(s, i)
  /\ UNCHANGED << session, orphans, counters >>

(* Mutant: the failure propagates and the call is made again. *)
AuditFailsRerun(s, i) ==
  /\ calls[s][i].at = "audit"
  /\ Fault
  /\ NoWrite
  /\ Step(s, i, "body", "none")
  /\ UNCHANGED << session, orphans, told >>

(* It swallows its own failure: the call returns what it was to return. *)
AuditFails(s, i) ==
  /\ calls[s][i].at = "audit"
  /\ Fault
  /\ Log(Id(s, i), calls[s][i]) \/ NoWrite
  /\ Tell(s, i)
  /\ UNCHANGED << session, orphans >>

(* GRAPH_TIMEOUT_SECONDS pass or the socket drops: CancelledError, which no  *)
(* except clause of execute catches, in every call.  A commit that was sent  *)
(* is with the database.                                                    *)
Cancel(s) ==
  /\ calls[s] # << >>
  /\ orphans' = orphans \cup
       {[by |-> Id(s, i), call |-> calls[s][i]] :
          i \in {j \in DOMAIN calls[s] : Writing(calls[s][j])}}
  /\ turn' = [turn EXCEPT ![s] = 0]
  /\ calls' = [calls EXCEPT ![s] = << >>]
  /\ UNCHANGED << tables, owner, call_count, counters, history >>

(* The database gets to it, perhaps after the session's next turn began, or  *)
(* notices that the connection is gone and rolls back.                      *)
Settle(o) ==
  /\ Write(o.by, o.call) \/ NoWrite
  /\ orphans' = orphans \ {o}
  /\ UNCHANGED << session, calls, counters, told >>

Call(s, i) ==
  \/ SaveCommits(s, i)
  \/ Refresh(s, i)
  \/ DeleteExecutes(s, i)
  \/ DeleteCommits(s, i)
  \/ Reads(s, i)
  \/ BodyRejects(s, i)
  \/ BodyFails(s, i)
  \/ WriteAudit(s, i)
  \/ AuditFails(s, i)

Next ==
  \/ \E s \in Sessions :
    \/ BeginTurn(s)
    \/ StartRound(s)
    \/ FinishRound(s)
    \/ EndTurn(s)
    \/ Cancel(s)
    \/ \E i \in DOMAIN calls[s] : Call(s, i)
  \/ \E o \in orphans : Settle(o)

Spec == Init /\ [][Next]_vars

-----------------------------------------------------------------------------
(* Properties.                                                             *)

CallId == [session : Sessions, turn : Nat, number : Nat]
Row == [id : Nat, user : Users, code : Codes]
Answer == {"none", "ok", "error", "retry"}
Pc == {"body", "refresh", "commit", "audit", "returned"}
AuditRow == [by : CallId, user : Users, tool : Tools, flagged : BOOLEAN]
CallAnswer == [by : CallId, tool : Tools, code : Codes, answer : Answer, seen : SUBSET Row]
CallRecord ==
  [tool : Tools, code : Codes, number : Nat, user : Users, arguments : Arguments, doomed : SUBSET Row,
   seen : SUBSET Row, at : Pc, answer : Answer]

(* Every variable has its type. *)
TypeOK ==
  /\ owner \in [Sessions -> Users]
  /\ rows \subseteq Row
  /\ next_id \in Nat
  /\ audit \subseteq AuditRow
  /\ turn \in [Sessions -> Nat]
  /\ call_count \in [Sessions -> Nat]
  /\ calls \in [Sessions -> Seq(CallRecord)]
  /\ orphans \subseteq [by : CallId, call : CallRecord]
  /\ turns \in Nat
  /\ asked \in Nat
  /\ faults \in Nat
  /\ inserted \subseteq [by : CallId, row : Row]
  /\ deleted \subseteq [by : CallId, row : Row]
  /\ told \subseteq CallAnswer

(* Whatever user_id the model supplies, and whoever else has a turn, a      *)
(* session's calls write and delete the rows of its own user only.          *)
EffectsAreOwn ==
  \A x \in inserted \cup deleted : x.row.user = owner[x.by.session]

(* Nothing is written twice and nothing is lost: the table holds the rows   *)
(* that calls inserted, at most one each, less those that remove_decision   *)
(* deleted, each reported deleted once.  No failure, audit failures         *)
(* included, runs a mutating tool again.                                    *)
RowsAccounted ==
  /\ rows = {x.row : x \in inserted} \ {x.row : x \in deleted}
  /\ \A x, y \in inserted : x.by = y.by => x = y
  /\ \A x, y \in inserted : x.row.id = y.row.id => x = y
  /\ \A x, y \in deleted : x.row = y.row => x = y

(* The audit log tells the truth: one row at most for a call, its user's;   *)
(* none for a call that was refused or had invalid parameters, whether it   *)
(* was told so at once or not; flagged exactly when the model was told that *)
(* the call failed; and a save that is in the log unflagged was done, even  *)
(* when the turn was cancelled and nobody was told.  (The converse does not *)
(* hold of the code: a save whose refresh fails after its commit is done,   *)
(* flagged, and answered with an error, save_student_decision.)             *)
AuditTruthful ==
  /\ \A a, b \in audit : a.by = b.by => a = b
  /\ \A a \in audit :
       a.by.number <= MaxCalls /\ a.user = owner[a.by.session] /\ a.tool # "unknown"
  /\ \A t \in told, a \in audit : t.by = a.by =>
       /\ t.answer \in {"ok", "error"}
       /\ t.tool = a.tool
       /\ a.flagged <=> t.answer = "error"
  /\ \A a \in audit : a.tool = "save_decision" /\ ~ a.flagged =>
       \E x \in inserted : x.by = a.by

(* The user's rows of a course that spell its code in capitals. *)
InCapitals(user, code, table) ==
  {r \in table : r.user = user /\ r.code.course = code.course /\ r.code.upper}

(* What the model is told it did was done: a save answered with a row is in *)
(* the table, or was until a later remove_decision; of the rows a removal's *)
(* DELETE saw, none of the course that spells it in capitals is left once   *)
(* the removal is answered with success, however the model spelled it (one  *)
(* saved in lower case does stay); no effect comes from a call that was told *)
(* to try again, named an unknown tool or is past the cap.                  *)
AnswersTrue ==
  /\ \A t \in told : t.tool = "save_decision" /\ t.answer = "ok" =>
       \E x \in inserted : x.by = t.by
  /\ \A t \in told : t.tool = "remove_decision" /\ t.answer = "ok" =>
       InCapitals(owner[t.by.session], t.code, t.seen \cap rows) = {}
  /\ \A x \in inserted \cup deleted :
       /\ x.by.number <= MaxCalls
       /\ \A t \in told : t.by = x.by => t.answer # "retry" /\ t.tool # "unknown"
=============================================================================
