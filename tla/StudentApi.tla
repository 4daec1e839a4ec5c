----------------------------- MODULE StudentApi -----------------------------
(***************************************************************************)
(* Accounts and student profiles (course-search-api): registration and     *)
(* log-in (routes/auth.py), the declared program and the list of completed *)
(* courses (routes/students.py).  Requests are served by threads and by    *)
(* several instances of the service, each in a transaction of its own on   *)
(* one PostgreSQL database.                                                *)
(*                                                                         *)
(* PostgreSQL is external, at its default isolation, READ COMMITTED: a     *)
(* statement sees what was committed when it began, waits for the rows     *)
(* that another transaction is deleting, and for the keys that another is  *)
(* inserting; a cycle of waits ends in an error for one of them.           *)
(***************************************************************************)
EXTENDS Integers, Sequences, FiniteSets, SequencesExt

CONSTANTS
  Requests,      \* identities of the requests
  Bodies,        \* what each request may ask
  Courses, Programs,
  MaxCourses,    \* _MAX_COMPLETED_COURSES
  Enrolled,      \* the accounts there are to begin with
  Completed,     \* and their completed courses
  MaxFaults,     \* bound: calls of the database that fail, accounts closed
  None

Kinds == { "replace", "program", "register", "login" }

ASSUME ApiAssumption ==
  /\ DOMAIN Bodies = Requests
  /\ \A r \in Requests : \A b \in Bodies[r] : b.kind \in Kinds
  /\ MaxCourses \in Nat /\ MaxFaults \in Nat
  /\ None \notin Requests \cup Programs
  /\ \A r \in Requests : \A b \in Bodies[r] : b.kind = "replace" => b.items \in Seq(ToSet(b.items))
  /\ \A t \in Completed : t.by = None
  /\ \A t, w \in Completed : t.user = w.user /\ t.course = w.course => t = w

(* The accounts there are to begin with are numbered as the table numbers   *)
(* them and have one lower-case address each; what is completed refers to   *)
(* them and to the catalogue.                                               *)
ASSUME AccountsAssumption ==
  /\ IsFiniteSet(Enrolled)
  /\ \A u \in Enrolled :
       /\ u = [id |-> u.id, email |-> [name |-> u.email.name, upper |-> FALSE],
               program |-> u.program, active |-> u.active]
       /\ u.id \in 1..Cardinality(Enrolled)
       /\ u.program \in Programs \cup {None} /\ u.active \in BOOLEAN
  /\ \A u, v \in Enrolled : u.id = v.id \/ u.email.name = v.email.name => u = v
  /\ \A t \in Completed : t.course \in Courses /\ \E u \in Enrolled : u.id = t.user
  /\ \A r \in Requests : \A b \in Bodies[r] : b.kind \in { "register", "login" } =>
       b.address = [name |-> b.address.name, upper |-> b.address.upper]

VARIABLES
  users,     \* the users table
  rows,      \* the completed_courses table; `by' names the request that wrote a row
  req,       \* per request: where it is and what its transaction holds
  faults

vars == << users, rows, req, faults >>

Idle ==
  [pc |-> "idle", body |-> None, user |-> None, seen |-> {}, doomed |-> {}, pending |-> {},
   next |-> 1, status |-> None, answer |-> None, after |-> {}]

Init ==
  /\ users = Enrolled
  /\ rows = Completed
  /\ req = [r \in Requests |-> Idle]
  /\ faults = 0

At(r, pc) == req[r].pc = pc
Body(r) == req[r].body
Asks(r, kind) == ~At(r, "idle") /\ Body(r).kind = kind
Answered(r, status) == At(r, "answered") /\ req[r].status = status
RowsOf(u) == { t \in rows : t.user = u }
Account(id) == { u \in users : u.id = id }

(* The items a list asks for, as they would be rows. *)
Item(r, i) == [user |-> Body(r).user, course |-> Body(r).items[i].course,
               grade |-> Body(r).items[i].grade, by |-> r]
Wanted(r) == { Item(r, i) : i \in DOMAIN Body(r).items }

Goto(r, pc) == req' = [req EXCEPT ![r].pc = pc]

(* The handler returns or raises; the session is closed, which undoes a      *)
(* transaction that was not committed and frees its locks.                   *)
Answer(r, status, answer) ==
  req' = [req EXCEPT ![r].pc = "answered", ![r].status = status, ![r].answer = answer,
                     ![r].user = None, ![r].next = 1,
                     ![r].seen = {}, ![r].doomed = {}, ![r].pending = {}]

Reject(r, status) == Answer(r, status, None) /\ UNCHANGED << users, rows, faults >>

(* A request arrives; `after' are the requests answered before. *)
Arrive(r, b) ==
  /\ At(r, "idle")
  /\ req' = [req EXCEPT ![r] = [Idle EXCEPT !.pc = "arrived", !.body = b,
                                            !.after = { q \in Requests : At(q, "answered") }]]
  /\ UNCHANGED << users, rows, faults >>

-----------------------------------------------------------------------------
(* Students: get_current_user, then the handler *)

GetCurrentUser(r) ==
  /\ At(r, "arrived") /\ (Asks(r, "replace") \/ Asks(r, "program"))
  /\ LET found == { u \in Account(Body(r).user) : u.active } IN
     \/ found = {} /\ Reject(r, 401)
     \/ \E u \in found :
          /\ req' = [req EXCEPT ![r].pc = "checking", ![r].user = u]
          /\ UNCHANGED << users, rows, faults >>

(* Mutant: the courses are not looked up. *)
UncheckedCourses(codes) == TRUE

Existing(codes) == ToSet(codes) \subseteq Courses

(* Length, duplicates, unknown courses, in this order; then the DELETE       *)
(* begins, with the snapshot it is going to work on.                         *)
CheckCourses(r) ==
  /\ At(r, "checking") /\ Asks(r, "replace")
  /\ LET codes == [i \in DOMAIN Body(r).items |-> Body(r).items[i].course] IN
     \/ Len(codes) > MaxCourses /\ Reject(r, 422)
     \/ Len(codes) <= MaxCourses /\ ~IsInjective(codes) /\ Reject(r, 400)
     \/ /\ Len(codes) <= MaxCourses /\ IsInjective(codes)
        /\ ~Existing(codes)
        /\ Reject(r, 422)
     \/ /\ Len(codes) <= MaxCourses /\ IsInjective(codes)
        /\ Existing(codes)
        /\ req' = [req EXCEPT ![r].pc = "locking", ![r].seen = RowsOf(Body(r).user)]
        /\ UNCHANGED << users, rows, faults >>

Others(r) == Requests \ {r}

(* Mutant: the list is merged, not replaced. *)
DoomedIfAskedFor(r) ==
  { t \in req[r].seen \cap rows : t.course \in { w.course : w \in Wanted(r) } }

Doomed(r) == req[r].seen \cap rows

(* It goes on once no row of its snapshot is being deleted by another; those *)
(* that are gone by then it skips, and those that came since it never sees.  *)
DeleteExecutes(r) ==
  /\ At(r, "locking")
  /\ \A q \in Others(r) : req[r].seen \cap req[q].doomed = {}
  /\ req' = [req EXCEPT ![r].pc = "inserting", ![r].seen = {}, ![r].doomed = Doomed(r)]
  /\ UNCHANGED << users, rows, faults >>

SameKey(t, w) == t.user = w.user /\ t.course = w.course

(* Requests whose end decides whether this INSERT violates the constraint. *)
WaitsFor(r) ==
  { q \in Others(r) :
      \/ /\ At(r, "inserting") /\ req[r].next <= Len(Body(r).items)
         /\ \E t \in req[q].pending \cup req[q].doomed : SameKey(t, Item(r, req[r].next))
      \/ At(r, "locking") /\ req[r].seen \cap req[q].doomed # {} }

(* Mutant: the row is skipped. *)
ConflictSkipped(r) ==
  req' = [req EXCEPT ![r].next = @ + 1] /\ UNCHANGED << users, rows, faults >>

(* Mutant: the error is caught and the row tried again. *)
ConflictRetried(r) == UNCHANGED vars

(* IntegrityError is not handled here: a 500. *)
Conflict(r) == Reject(r, 500)

InsertRow(r) ==
  /\ At(r, "inserting") /\ req[r].next <= Len(Body(r).items) /\ WaitsFor(r) = {}
  /\ LET row == Item(r, req[r].next) IN
     IF \E t \in rows \ req[r].doomed : SameKey(t, row)
       THEN Conflict(r)
       ELSE /\ req' = [req EXCEPT ![r].next = @ + 1, ![r].pending = @ \cup {row}]
            /\ UNCHANGED << users, rows, faults >>

Replaced(r) == (rows \ req[r].doomed) \cup req[r].pending

CommitCourses(r) ==
  /\ At(r, "inserting") /\ req[r].next > Len(Body(r).items)
  /\ rows' = Replaced(r)
  /\ req' = [req EXCEPT ![r].pc = "reading", ![r].doomed = {}, ![r].pending = {}]
  /\ UNCHANGED << users, faults >>

(* The list is read again, in a transaction of its own. *)
ReadCourses(r) ==
  /\ At(r, "reading") /\ Asks(r, "replace")
  /\ Answer(r, 200, RowsOf(Body(r).user))
  /\ UNCHANGED << users, rows, faults >>

(* The program is checked and set; the session writes the column only if it  *)
(* differs from what get_current_user loaded.                                *)
SetProgram(r) ==
  /\ At(r, "checking") /\ Asks(r, "program")
  /\ \/ Body(r).program \notin Programs \cup {None} /\ Reject(r, 422)
     \/ /\ Body(r).program \in Programs \cup {None}
        /\ users' = { IF u.id = Body(r).user /\ Body(r).program # req[r].user.program
                        THEN [u EXCEPT !.program = Body(r).program] ELSE u : u \in users }
        /\ Goto(r, "reading")
        /\ UNCHANGED << rows, faults >>

ReadProgram(r) ==
  /\ At(r, "reading") /\ Asks(r, "program")
  /\ \E u \in Account(Body(r).user) : Answer(r, 200, u.program)
  /\ UNCHANGED << users, rows, faults >>

-----------------------------------------------------------------------------
(* Registration and log-in; an address is a name and how it is spelled *)

(* Mutant: the address is taken as it was typed. *)
AsTyped(address) == address

Lower(address) == [address EXCEPT !.upper = FALSE]

With(address) == { u \in users : u.email = address }

LookUp(r) ==
  /\ At(r, "arrived") /\ Asks(r, "register")
  /\ \/ With(Lower(Body(r).address)) # {} /\ Reject(r, 400)
     \/ /\ With(Lower(Body(r).address)) = {}
        /\ IF Body(r).program \in Programs \cup {None}
             THEN Goto(r, "creating") /\ UNCHANGED << users, rows, faults >>
             ELSE Reject(r, 422)

Created(r) ==
  [id |-> Cardinality(users) + 1, email |-> Lower(Body(r).address),
   program |-> Body(r).program, active |-> TRUE]

(* The INSERT and its COMMIT; the unique index on email decides. *)
CreateUser(r) ==
  /\ At(r, "creating")
  /\ \/ With(Lower(Body(r).address)) # {} /\ Reject(r, 400)
     \/ /\ With(Lower(Body(r).address)) = {}
        /\ users' = users \cup { Created(r) }
        /\ req' = [req EXCEPT ![r].pc = "refreshing", ![r].user = Created(r)]
        /\ UNCHANGED << rows, faults >>

RefreshUser(r) ==
  /\ At(r, "refreshing")
  /\ Answer(r, 200, req[r].user.id)
  /\ UNCHANGED << users, rows, faults >>

MayLogIn(b) == { u \in With(Lower(b.address)) : u.active /\ b.right_password }

LogIn(r) ==
  /\ At(r, "arrived") /\ Asks(r, "login")
  /\ \/ MayLogIn(Body(r)) = {} /\ Reject(r, 401)
     \/ \E u \in MayLogIn(Body(r)) :
          Answer(r, 200, u.id) /\ UNCHANGED << users, rows, faults >>

-----------------------------------------------------------------------------
(* Failures, and what others do *)

(* A call of the database fails: nothing handles it. *)
CallFails(r) ==
  /\ req[r].pc \notin { "idle", "answered" } /\ faults < MaxFaults
  /\ faults' = faults + 1
  /\ Answer(r, 500, None)
  /\ UNCHANGED << users, rows >>

(* The COMMIT took effect and its reply was lost. *)
ReplyLost(r) ==
  /\ At(r, "inserting") /\ req[r].next > Len(Body(r).items) /\ faults < MaxFaults
  /\ faults' = faults + 1
  /\ rows' = Replaced(r)
  /\ Answer(r, 500, None)
  /\ UNCHANGED users

(* PostgreSQL ends a cycle of waits with an error for one of them. *)
DeadlockDetected(r) ==
  /\ \E cycle \in SUBSET Requests :
       r \in cycle /\ \A q \in cycle : /\ WaitsFor(q) \cap cycle # {}
                                      /\ \E p \in cycle : q \in WaitsFor(p)
  /\ Reject(r, 500)

(* An administrator closes an account. *)
Deactivate(id) ==
  /\ \E u \in Account(id) : u.active
  /\ faults < MaxFaults
  /\ faults' = faults + 1
  /\ users' = { IF u.id = id THEN [u EXCEPT !.active = FALSE] ELSE u : u \in users }
  /\ UNCHANGED << rows, req >>

Serve(r) ==
  \/ GetCurrentUser(r) \/ CheckCourses(r) \/ DeleteExecutes(r)
  \/ InsertRow(r) \/ CommitCourses(r) \/ ReadCourses(r)
  \/ SetProgram(r) \/ ReadProgram(r)
  \/ LookUp(r) \/ CreateUser(r) \/ RefreshUser(r) \/ LogIn(r)
  \/ DeadlockDetected(r)

Next ==
  \/ \E r \in Requests : \/ \E b \in Bodies[r] : Arrive(r, b)
                         \/ Serve(r) \/ CallFails(r) \/ ReplyLost(r)
  \/ \E u \in users : Deactivate(u.id)

(* A thread goes on when its call returns, and the database serves it. *)
Spec == Init /\ [][Next]_vars /\ \A r \in Requests : WF_vars(Serve(r))

-----------------------------------------------------------------------------
(* Properties *)

TypeOK ==
  /\ \A u \in users : u.program \in Programs \cup {None} /\ u.active \in BOOLEAN
  /\ \A t \in rows : Account(t.user) # {} /\ t.course \in Courses
                    /\ t.by \in Requests \cup {None}
  /\ \A r \in Requests :
       /\ req[r].pc \in { "idle", "arrived", "checking", "locking", "inserting",
                         "reading", "creating", "refreshing", "answered" }
       /\ ~At(r, "idle") => Body(r) \in Bodies[r]
       /\ req[r].pending \subseteq (IF Asks(r, "replace") THEN Wanted(r) ELSE {})
       /\ At(r, "answered") => req[r].status \in { 200, 400, 401, 422, 500 }
  /\ faults \in 0..MaxFaults

(* A replacement that was answered 200 put an end to everything answered before it  *)
(* arrived, whatever else was under way: no earlier row of the student is left, nor *)
(* an earlier program (update_completed_courses and update_program).               *)
SupersededGone ==
  \A r \in Requests : Answered(r, 200) =>
    /\ Asks(r, "replace") =>
         \A t \in RowsOf(Body(r).user) : t.by # None /\ t.by \notin req[r].after
    /\ Asks(r, "program") =>
         \A u \in Account(Body(r).user) : \E w \in Requests \ req[r].after :
           Asks(w, "program") /\ Body(w).user = u.id /\ Body(w).program = u.program

(* Of a replacement, readers see all its rows or none, a student has no course     *)
(* twice, and a request that was rejected left nothing behind.                     *)
AllOrNothing ==
  /\ \A r \in Requests :
       LET mine == { t \in rows : t.by = r } IN
       mine # {} => mine = Wanted(r) /\ ~\E s \in { 400, 401, 422 } : Answered(r, s)
  /\ \A t, w \in rows : SameKey(t, w) => t = w

(* One address, however it is spelled, is one account; each registration that was  *)
(* answered with a token made one of its own, and from then on a log-in with the   *)
(* right password finds it as long as it is active.                                *)
AccountsTruthful ==
  /\ \A u, v \in users : u.email.name = v.email.name => u = v
  /\ \A r \in Requests : Answered(r, 200) /\ Asks(r, "register") =>
       \E u \in Account(req[r].answer) :
         /\ u.email.name = Body(r).address.name
         /\ \A q \in Requests :
              /\ Asks(q, "register") /\ Answered(q, 200) /\ q # r => req[q].answer # u.id
              /\ /\ Asks(q, "login") /\ r \in req[q].after /\ Body(q).right_password
                 /\ Body(q).address.name = u.email.name /\ u.active
                 /\ At(q, "answered")
                 => req[q].status = 500 \/ req[q].answer = u.id

(* Every request is answered, although transactions wait for each other.  *)
EveryRequestAnswered == \A r \in Requests : At(r, "arrived") ~> At(r, "answered")

(* "Replaces the entire list atomically" (students.py:112): the list of a student   *)
(* only ever changes to the list that one request asked for.                       *)
ListOf(table, u) == { << t.course, t.grade >> : t \in { x \in table : x.user = u } }

ReplacesAtomically ==
  [][\A u \in { x.id : x \in users } :
       ListOf(rows', u) # ListOf(rows, u) =>
         \E r \in Requests : /\ Asks(r, "replace") /\ Body(r).user = u
                             /\ ListOf(rows', u) = { << t.course, t.grade >> : t \in Wanted(r) }]_vars
=============================================================================
