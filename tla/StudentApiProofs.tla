-------------------------- MODULE StudentApiProofs --------------------------
(***************************************************************************)
(* Replacements of completed courses are seen whole or not at all, and no  *)
(* student has a course twice, for any number of requests, any lists, and  *)
(* any failures: what the snapshots and the locks of READ COMMITTED leave. *)
(***************************************************************************)
EXTENDS StudentApi, FiniteSetTheorems, TLAPS

Fields ==
  { "pc", "body", "user", "seen", "doomed", "pending", "next", "status", "answer", "after" }

PCs ==
  { "idle", "arrived", "checking", "locking", "inserting", "reading", "creating", "refreshing",
    "answered" }

Shape ==
  /\ DOMAIN req = Requests
  /\ \A r \in Requests :
       /\ DOMAIN req[r] = Fields
       /\ req[r].pc \in PCs
       /\ req[r].pc # "idle" => Body(r) \in Bodies[r]

(* Only a replacement that passed its checks holds rows, and what it has      *)
(* inserted is the beginning of its list.                                     *)
Inserted(r) == { Item(r, i) : i \in 1..(req[r].next - 1) }

TransactionOf(r) ==
  /\ req[r].pc # "locking" => req[r].seen = {}
  /\ req[r].pc # "inserting" => req[r].doomed = {} /\ req[r].pending = {}
  /\ req[r].pc \in { "locking", "inserting" } =>
       /\ Body(r).kind = "replace"
       /\ \A i, k \in DOMAIN Body(r).items :
            Body(r).items[i].course = Body(r).items[k].course => i = k
  /\ req[r].pc \in { "arrived", "checking", "locking" } => req[r].next = 1
  /\ req[r].pc = "inserting" =>
       /\ req[r].next \in 1..(Len(Body(r).items) + 1)
       /\ req[r].pending = Inserted(r)

Transactions == \A r \in Requests : TransactionOf(r)

(* A row that a request wrote, wherever it is held, was committed by a        *)
(* replacement and is in its list.                                            *)
Written(t) ==
  t.by \in Requests =>
    /\ req[t.by].pc \in { "reading", "answered" }
    /\ req[t.by].pc = "answered" => req[t.by].status \notin { 400, 401, 422 }
    /\ t \in Wanted(t.by)

AllWritten ==
  /\ \A t \in rows : Written(t)
  /\ \A r \in Requests : \A t \in req[r].seen \cup req[r].doomed : Written(t)

(* The rows of one request stand and fall together: in the table, and in      *)
(* every snapshot and every set of deleted rows.                              *)
Together(held) ==
  \A t \in held, w \in rows : t.by = w.by /\ t.by \in Requests => w \in held

Whole ==
  /\ \A t \in rows : t.by \in Requests => Wanted(t.by) \subseteq rows
  /\ \A r \in Requests : Together(req[r].seen) /\ Together(req[r].doomed)

(* No two rows with one key, the rows that are about to be committed and      *)
(* those of other transactions included.                                      *)
Unique ==
  /\ \A t, w \in rows : SameKey(t, w) => t = w
  /\ \A r \in Requests : \A t \in req[r].pending, w \in rows \ req[r].doomed : ~SameKey(t, w)
  /\ \A r, q \in Requests : r # q =>
       \A t \in req[r].pending, w \in req[q].pending : ~SameKey(t, w)

IInv == Shape /\ Transactions /\ AllWritten /\ Whole /\ Unique

(* What is claimed follows. *)
LEMMA WholeIsAllOrNothing == IInv => AllOrNothing
<1> SUFFICES ASSUME IInv PROVE AllOrNothing
  OBVIOUS
<1>1. ASSUME NEW r \in Requests, NEW t \in rows, t.by = r
      PROVE  /\ Wanted(r) \subseteq rows
             /\ { x \in rows : x.by = r } \subseteq Wanted(r)
             /\ \A x \in Wanted(r) : x.by = r
             /\ ~\E s \in { 400, 401, 422 } : Answered(r, s)
  BY <1>1 DEF IInv, Whole, AllWritten, Written, Wanted, Item, Answered, At
<1>2. \A t, w \in rows : SameKey(t, w) => t = w
  BY DEF IInv, Unique
<1> QED
  BY <1>1, <1>2 DEF AllOrNothing

(* No request has begun. *)
LEMMA InitIInv == Init => IInv
<1> SUFFICES ASSUME Init PROVE IInv
  OBVIOUS
<1>1. \A r \in Requests : req[r] = Idle
  BY DEF Init
<1>2. Shape
  BY <1>1 DEF Init, Shape, Idle, Fields, PCs
<1>3. Transactions
  BY <1>1 DEF Transactions, TransactionOf, Idle
<1>4. \A t \in rows : t.by \notin Requests
  BY ApiAssumption DEF Init
<1>5. AllWritten /\ Whole
  BY <1>1, <1>4 DEF AllWritten, Whole, Together, Written, Idle
<1>6. Unique
  BY <1>1, ApiAssumption DEF Unique, Idle, Init, SameKey
<1> QED
  BY <1>2, <1>3, <1>5, <1>6 DEF IInv

(* What r did concerns r alone. *)
OnlyOf(r) ==
  /\ DOMAIN req' = Requests
  /\ \A q \in Requests \ {r} : req'[q] = req[q]

(* A step of one request that touches no row and leaves it without any: it    *)
(* goes on, is rejected, or has its answer.                                   *)
Quiet(r) ==
  /\ OnlyOf(r)
  /\ rows' = rows
  /\ DOMAIN req'[r] = Fields
  /\ req'[r].pc \in PCs \ { "idle", "locking", "inserting" }
  /\ req'[r].body \in Bodies[r]
  /\ req'[r].seen = {} /\ req'[r].doomed = {} /\ req'[r].pending = {}
  /\ req'[r].pc \in { "arrived", "checking" } => req'[r].next = 1
  /\ req[r].pc \in { "reading", "answered" } =>
       /\ req'[r].body = req[r].body
       /\ \/ req'[r].pc = "reading"
          \/ req'[r].pc = "answered" /\ req'[r].status \notin { 400, 401, 422 }

LEMMA QuietStep ==
  ASSUME IInv, NEW r \in Requests, Quiet(r)
  PROVE  IInv'
<1>1. Shape'
  BY DEF IInv, Shape, Quiet, OnlyOf, Body
<1>2. Transactions'
  <2>1. ASSUME NEW q \in Requests \ {r} PROVE req'[q] = req[q] /\ Inserted(q)' = Inserted(q)
    BY DEF Quiet, OnlyOf, Inserted, Item, Body
  <2> QED
    BY <2>1 DEF IInv, Transactions, TransactionOf, Quiet, OnlyOf, Body, PCs
<1>3. ASSUME NEW t, Written(t) PROVE Written(t)'
  BY <1>3 DEF Written, Quiet, OnlyOf, Wanted, Item, Body
<1>4. AllWritten'
  BY <1>3 DEF IInv, AllWritten, Quiet, OnlyOf
<1>5. ASSUME NEW t \in rows, t.by \in Requests PROVE Wanted(t.by)' = Wanted(t.by)
  BY <1>5 DEF IInv, AllWritten, Written, Quiet, OnlyOf, Wanted, Item, Body
<1>6. Whole'
  BY <1>5 DEF IInv, Whole, Together, Quiet, OnlyOf
<1>7. Unique'
  BY DEF IInv, Unique, Quiet, OnlyOf, SameKey
<1> QED
  BY <1>1, <1>2, <1>4, <1>6, <1>7 DEF IInv

(* What a transaction that is under way has put at stake for the others: the  *)
(* facts about the rows of other requests carry over.                         *)
LEMMA OthersCarryOver ==
  ASSUME IInv, NEW r \in Requests, OnlyOf(r), req'[r].body = req[r].body,
         req[r].pc \notin { "reading", "answered" }
  PROVE  /\ \A t : Written(t) => Written(t)'
         /\ \A q \in Requests : Wanted(q)' = Wanted(q)
         /\ \A q \in Requests \ {r} : req'[q] = req[q] /\ TransactionOf(q)'
         /\ \A t \in rows : t.by # r
         /\ \A q \in Requests : \A t \in req[q].seen \cup req[q].doomed : t.by # r
<1>1. \A q \in Requests : req'[q].body = req[q].body
  BY DEF OnlyOf
<1>2. \A q \in Requests : Wanted(q)' = Wanted(q)
  BY <1>1 DEF Wanted, Item, Body
<1>3. \A q \in Requests \ {r} : req'[q] = req[q] /\ Inserted(q)' = Inserted(q)
  BY <1>1 DEF OnlyOf, Inserted, Item, Body
<1>4. \A q \in Requests \ {r} : TransactionOf(q)'
  BY <1>3 DEF IInv, Transactions, TransactionOf, Body
<1>5. \A t : Written(t) => Written(t)'
  BY <1>2, <1>3 DEF Written
<1>6. \A t : Written(t) => t.by # r
  BY DEF Written
<1> QED
  BY <1>2, <1>3, <1>4, <1>5, <1>6 DEF IInv, AllWritten

(* A list that passes its checks repeats no course.                           *)
LEMMA OnlyChecked ==
  ASSUME IInv, NEW r \in Requests, CheckCourses(r), req'[r].pc = "locking"
  PROVE  /\ At(r, "checking") /\ Asks(r, "replace")
         /\ IsInjective([i \in DOMAIN Body(r).items |-> Body(r).items[i].course])
         /\ req' = [req EXCEPT ![r].pc = "locking", ![r].seen = RowsOf(Body(r).user)]
         /\ rows' = rows
<1>1. DOMAIN req = Requests /\ DOMAIN req[r] = Fields
  BY DEF IInv, Shape
<1>2. ASSUME NEW status, Reject(r, status) PROVE FALSE
  BY <1>1, <1>2 DEF Reject, Answer, Fields
<1> QED
  BY <1>2 DEF CheckCourses

(* The DELETE begins: its snapshot holds all rows of a request or none, since *)
(* they are rows of one student.                                              *)
LEMMA LockingStep ==
  ASSUME IInv, NEW r \in Requests, CheckCourses(r), req'[r].pc = "locking"
  PROVE  IInv'
<1>1. /\ req[r].pc = "checking" /\ Body(r).kind = "replace"
      /\ \A i, k \in DOMAIN Body(r).items :
           Body(r).items[i].course = Body(r).items[k].course => i = k
      /\ rows' = rows
  BY OnlyChecked DEF At, Asks, IsInjective
<1>2. /\ OnlyOf(r) /\ DOMAIN req'[r] = Fields
      /\ req'[r].body = req[r].body
      /\ req'[r].seen = RowsOf(Body(r).user)
      /\ req'[r].doomed = req[r].doomed /\ req'[r].pending = req[r].pending
      /\ req'[r].next = req[r].next
  <2>1. req' = [req EXCEPT ![r].pc = "locking", ![r].seen = RowsOf(Body(r).user)]
    BY OnlyChecked
  <2>2. DOMAIN req = Requests /\ DOMAIN req[r] = Fields
    BY DEF IInv, Shape
  <2> QED
    BY <2>1, <2>2 DEF OnlyOf, Fields
<1>3. /\ \A t : Written(t) => Written(t)'
      /\ \A q \in Requests : Wanted(q)' = Wanted(q)
      /\ \A q \in Requests \ {r} : req'[q] = req[q] /\ TransactionOf(q)'
  BY <1>1, <1>2, OthersCarryOver
<1>4. Shape'
  BY <1>1, <1>2, <1>3 DEF IInv, Shape, Body, OnlyOf, PCs
<1>5. TransactionOf(r) /\ Body(r)' = Body(r)
  BY <1>2 DEF IInv, Transactions, Body
<1>6. Transactions'
  <2>1. TransactionOf(r)'
    BY <1>1, <1>2, <1>5 DEF TransactionOf
  <2> QED
    BY <1>3, <2>1 DEF Transactions
<1>7. AllWritten'
  BY <1>1, <1>2, <1>3 DEF IInv, AllWritten, RowsOf
<1>8. Whole'
  <2>1. Together(RowsOf(Body(r).user))
    BY DEF IInv, AllWritten, Written, Together, RowsOf, Wanted, Item
  <2>2. \A t \in rows : t.by \in Requests => Wanted(t.by)' \subseteq rows
    BY <1>3 DEF IInv, Whole
  <2>3. \A q \in Requests : Together(req'[q].seen) /\ Together(req'[q].doomed)
    BY <1>2, <1>3, <2>1 DEF IInv, Whole
  <2> QED
    BY <1>1, <2>2, <2>3 DEF Whole, Together
<1>9. Unique'
  <2>1. \A q \in Requests : req'[q].pending = req[q].pending /\ req'[q].doomed = req[q].doomed
    BY <1>2, <1>3
  <2> QED
    BY <1>1, <2>1 DEF IInv, Unique, SameKey
<1> QED
  BY <1>4, <1>6, <1>7, <1>8, <1>9 DEF IInv

(* The DELETE executes: the rows of a request that it deletes are all that    *)
(* are left of it.                                                            *)
LEMMA DeleteStep ==
  ASSUME IInv, NEW r \in Requests, DeleteExecutes(r)
  PROVE  IInv'
<1>1. /\ req[r].pc = "locking"
      /\ req' = [req EXCEPT ![r].pc = "inserting", ![r].seen = {}, ![r].doomed = Doomed(r)]
      /\ rows' = rows
  BY DEF DeleteExecutes, At
<1>2. /\ OnlyOf(r) /\ DOMAIN req'[r] = Fields /\ rows' = rows
      /\ req'[r].pc = "inserting" /\ req'[r].body = req[r].body
      /\ req'[r].seen = {} /\ req'[r].doomed = req[r].seen \cap rows
      /\ req'[r].pending = {} /\ req'[r].next = 1
  BY <1>1 DEF IInv, Shape, Transactions, TransactionOf, OnlyOf, Fields, Doomed
<1>3. /\ \A t : Written(t) => Written(t)'
      /\ \A q \in Requests : Wanted(q)' = Wanted(q)
      /\ \A q \in Requests \ {r} : req'[q] = req[q] /\ TransactionOf(q)'
  BY <1>1, <1>2, OthersCarryOver
<1>4. Shape'
  BY <1>1, <1>2, <1>3 DEF IInv, Shape, Body, OnlyOf, PCs
<1>5. Transactions'
  <2>1. Body(r)' = Body(r) /\ Body(r) \in Bodies[r] /\ Body(r).kind = "replace"
    BY <1>1, <1>2 DEF Body, IInv, Shape, Transactions, TransactionOf
  <2>2. Len(Body(r).items) \in Nat
    BY <2>1, ApiAssumption
  <2>3. Inserted(r)' = {}
    BY <1>2 DEF Inserted
  <2>4. req[r].pc = "locking" /\ TransactionOf(r)
    BY <1>1 DEF IInv, Transactions
  <2>5. 1 \in 1..(Len(Body(r).items) + 1)
    BY <2>2
  <2>6. TransactionOf(r)'
    BY <1>2, <2>1, <2>3, <2>4, <2>5 DEF TransactionOf
  <2> QED
    BY <1>3, <2>6 DEF Transactions
<1>6. AllWritten'
  BY <1>1, <1>2, <1>3 DEF IInv, AllWritten
<1>7. Whole'
  BY <1>1, <1>2, <1>3 DEF IInv, Whole, Together
<1>8. Unique'
  <2>1. \A q \in Requests \ {r} : req'[q].pending = req[q].pending /\ req'[q].doomed = req[q].doomed
    BY <1>3
  <2>2. Unique
    BY DEF IInv
  <2> QED
    BY <1>2, <2>1, <2>2 DEF Unique, SameKey
<1> QED
  BY <1>4, <1>5, <1>6, <1>7, <1>8 DEF IInv

(* A row is inserted: nobody else is about to commit its key, or to delete a  *)
(* row that has it, and no row in the table has it.                           *)
LEMMA InsertStep ==
  ASSUME IInv, NEW r \in Requests, InsertRow(r), ~Conflict(r)
  PROVE  IInv'
<1> DEFINE row == Item(r, req[r].next)
<1>1. /\ req[r].pc = "inserting" /\ req[r].next <= Len(Body(r).items)
      /\ WaitsFor(r) = {}
      /\ ~\E t \in rows \ req[r].doomed : SameKey(t, row)
      /\ req' = [req EXCEPT ![r].next = @ + 1, ![r].pending = @ \cup {row}]
      /\ rows' = rows
  BY DEF InsertRow, At
<1>2. /\ OnlyOf(r) /\ DOMAIN req'[r] = Fields /\ rows' = rows
      /\ req'[r].pc = "inserting" /\ req'[r].body = req[r].body
      /\ req'[r].seen = req[r].seen /\ req'[r].doomed = req[r].doomed
      /\ req'[r].pending = req[r].pending \cup {row} /\ req'[r].next = req[r].next + 1
  BY <1>1 DEF IInv, Shape, OnlyOf, Fields
<1>3. /\ \A t : Written(t) => Written(t)'
      /\ \A q \in Requests : Wanted(q)' = Wanted(q)
      /\ \A q \in Requests \ {r} : req'[q] = req[q] /\ TransactionOf(q)'
  BY <1>1, <1>2, OthersCarryOver
<1>4. Shape'
  BY <1>1, <1>2, <1>3 DEF IInv, Shape, Body, OnlyOf, PCs
<1>5. /\ Body(r)' = Body(r) /\ Body(r) \in Bodies[r] /\ Body(r).kind = "replace"
      /\ Len(Body(r).items) \in Nat /\ DOMAIN Body(r).items = 1..Len(Body(r).items)
      /\ req[r].next \in 1..(Len(Body(r).items) + 1)
      /\ req[r].pending = Inserted(r)
  <2>1. Body(r)' = Body(r) /\ Body(r) \in Bodies[r] /\ Body(r).kind = "replace"
    BY <1>1, <1>2 DEF Body, IInv, Shape, Transactions, TransactionOf
  <2>2. Body(r).items \in Seq(ToSet(Body(r).items))
    BY <2>1, ApiAssumption
  <2> QED
    BY <1>1, <2>1, <2>2 DEF IInv, Transactions, TransactionOf
<1>6. Transactions'
  <2>1. Inserted(r)' = Inserted(r) \cup {row}
    <3>1. \A i : Item(r, i)' = Item(r, i)
      BY <1>2 DEF Item, Body
    <3>2. 1..(req'[r].next - 1) = 1..(req[r].next - 1) \cup {req[r].next}
      BY <1>2, <1>5
    <3> QED
      BY <3>1, <3>2 DEF Inserted
  <2>2. req'[r].next \in 1..(Len(Body(r).items) + 1)
    BY <1>1, <1>2, <1>5
  <2>3. TransactionOf(r)'
    BY <1>1, <1>2, <1>5, <2>1, <2>2 DEF IInv, Transactions, TransactionOf, Body
  <2> QED
    BY <1>3, <2>3 DEF Transactions
<1>7. AllWritten'
  BY <1>1, <1>2, <1>3 DEF IInv, AllWritten
<1>8. Whole'
  BY <1>1, <1>2, <1>3 DEF IInv, Whole, Together
<1>9. \A q \in Requests \ {r} : \A t \in req[q].pending : ~SameKey(t, row)
  BY <1>1 DEF WaitsFor, At, Others
<1>10. Unique'
  <2>1. \A q \in Requests \ {r} : req'[q].pending = req[q].pending /\ req'[q].doomed = req[q].doomed
    BY <1>3
  <2>2. \A t \in req'[r].pending, w \in rows \ req'[r].doomed : ~SameKey(t, w)
    <3>1. \A t \in req[r].pending, w \in rows \ req[r].doomed : ~SameKey(t, w)
      BY DEF IInv, Unique
    <3> QED
      BY <1>1, <1>2, <3>1 DEF SameKey
  <2>3. \A q \in Requests \ {r} : \A t \in req'[r].pending, w \in req[q].pending :
          ~SameKey(t, w) /\ ~SameKey(w, t)
    BY <1>2, <1>9 DEF IInv, Unique, SameKey
  <2>4. Unique
    BY DEF IInv
  <2> QED
    BY <1>2, <2>1, <2>2, <2>3, <2>4 DEF Unique, SameKey
<1> QED
  BY <1>4, <1>6, <1>7, <1>8, <1>10 DEF IInv

(* The transaction of r commits, or did although its caller never learns it:  *)
(* the rows it deleted go, with all of their requests', and its list comes.   *)
Committed(r) ==
  /\ OnlyOf(r)
  /\ req[r].pc = "inserting" /\ req[r].next > Len(Body(r).items)
  /\ rows' = Replaced(r)
  /\ DOMAIN req'[r] = Fields
  /\ req'[r].body = req[r].body
  /\ \/ req'[r].pc = "reading"
     \/ req'[r].pc = "answered" /\ req'[r].status = 500
  /\ req'[r].seen = {} /\ req'[r].doomed = {} /\ req'[r].pending = {}

LEMMA CommitStep ==
  ASSUME IInv, NEW r \in Requests, Committed(r)
  PROVE  IInv'
<1>1. /\ \A t : Written(t) => Written(t)'
      /\ \A q \in Requests : Wanted(q)' = Wanted(q)
      /\ \A q \in Requests \ {r} : req'[q] = req[q] /\ TransactionOf(q)'
      /\ \A t \in rows : t.by # r
      /\ \A q \in Requests : \A t \in req[q].seen \cup req[q].doomed : t.by # r
  BY OthersCarryOver DEF Committed
<1>2. req[r].pending = Wanted(r)
  <2>1. TransactionOf(r) /\ Body(r) \in Bodies[r]
    BY DEF Committed, IInv, Transactions, Shape
  <2>2. Body(r).items \in Seq(ToSet(Body(r).items))
    BY <2>1, ApiAssumption DEF TransactionOf, Committed
  <2>3. DOMAIN Body(r).items = 1..(req[r].next - 1)
    BY <2>1, <2>2 DEF TransactionOf, Committed
  <2> QED
    BY <2>1, <2>3 DEF TransactionOf, Committed, Inserted, Wanted
<1>3. \A t \in Wanted(r) : t.by = r
  BY DEF Wanted, Item
<1>4. rows' = (rows \ req[r].doomed) \cup Wanted(r)
  BY <1>2 DEF Committed, Replaced
<1>5. /\ req'[r].pc \in { "reading", "answered" }
      /\ req'[r].pc = "answered" => req'[r].status = 500
      /\ req'[r].seen = {} /\ req'[r].doomed = {} /\ req'[r].pending = {}
  BY DEF Committed
<1>6. Shape'
  BY <1>1 DEF IInv, Shape, Committed, OnlyOf, Body, PCs
<1>7. Transactions'
  <2>1. TransactionOf(r)'
    BY <1>5 DEF TransactionOf
  <2> QED
    BY <1>1, <2>1 DEF Transactions
<1>8. AllWritten'
  <2>1. \A t \in Wanted(r) : Written(t)'
    BY <1>1, <1>3, <1>5 DEF Written
  <2> QED
    BY <1>1, <1>4, <1>5, <2>1 DEF IInv, AllWritten
<1>9. Whole'
  <2>1. ASSUME NEW t \in rows', t.by \in Requests PROVE Wanted(t.by)' \subseteq rows'
    <3>1. CASE t \in Wanted(r)
      BY <1>1, <1>3, <1>4, <2>1, <3>1
    <3>2. CASE t \in rows \ req[r].doomed
      <4>1. Wanted(t.by) \subseteq rows /\ Together(req[r].doomed)
        BY <2>1, <3>2 DEF IInv, Whole
      <4>2. \A w \in Wanted(t.by) : w.by = t.by
        BY DEF Wanted, Item
      <4> QED
        BY <1>1, <1>4, <2>1, <3>2, <4>1, <4>2 DEF Together
    <3> QED
      BY <1>4, <3>1, <3>2
  <2>2. ASSUME NEW q \in Requests \ {r} PROVE Together(req[q].seen)' /\ Together(req[q].doomed)'
    <3>1. Together(req[q].seen) /\ Together(req[q].doomed)
      BY DEF IInv, Whole
    <3> QED
      BY <1>1, <1>3, <1>4, <3>1 DEF Together
  <2>3. Together(req[r].seen)' /\ Together(req[r].doomed)'
    BY <1>5 DEF Together
  <2> QED
    BY <2>1, <2>2, <2>3 DEF Whole
<1>10. Unique'
  <2>1. Unique
    BY DEF IInv
  <2>2. \A q \in Requests \ {r} : req'[q].pending = req[q].pending /\ req'[q].doomed = req[q].doomed
    BY <1>1
  <2>3. \A t, w \in Wanted(r) : SameKey(t, w) => t = w
    <3>1. TransactionOf(r)
      BY DEF IInv, Transactions
    <3> QED
      BY <3>1 DEF TransactionOf, Committed, Wanted, Item, SameKey
  <2>4. \A t, w \in rows' : SameKey(t, w) => t = w
    BY <1>2, <1>4, <2>1, <2>3 DEF Unique, SameKey
  <2>5. \A q \in Requests \ {r} : \A t \in req[q].pending, w \in rows' \ req[q].doomed : ~SameKey(t, w)
    BY <1>2, <1>4, <2>1 DEF Unique, SameKey
  <2> QED
    BY <1>5, <2>1, <2>2, <2>4, <2>5 DEF Unique, SameKey
<1> QED
  BY <1>6, <1>7, <1>8, <1>9, <1>10 DEF IInv

(* An answer ends what the request holds.                                     *)
LEMMA Answers ==
  ASSUME IInv, NEW r \in Requests, NEW status, NEW answer, Answer(r, status, answer)
  PROVE  /\ OnlyOf(r) /\ DOMAIN req'[r] = Fields
         /\ req'[r].pc = "answered" /\ req'[r].status = status
         /\ req'[r].body = req[r].body
         /\ req'[r].seen = {} /\ req'[r].doomed = {} /\ req'[r].pending = {}
<1>1. DOMAIN req = Requests /\ DOMAIN req[r] = Fields
  BY DEF IInv, Shape
<1> QED
  BY <1>1 DEF Answer, OnlyOf, Fields

(* A request ends without a commit: with any status if it never committed     *)
(* anything, with 200 or 500 otherwise.                                       *)
LEMMA AnswerStep ==
  ASSUME IInv, NEW r \in Requests, NEW status, NEW answer, Answer(r, status, answer),
         rows' = rows, req[r].pc # "idle",
         req[r].pc \in { "reading", "answered" } => status \notin { 400, 401, 422 }
  PROVE  IInv'
<1>1. req[r].body \in Bodies[r]
  BY DEF IInv, Shape, Body
<1>2. Quiet(r)
  BY <1>1, Answers DEF Quiet, PCs
<1> QED
  BY <1>2, QuietStep

(* A request goes on and touches nothing that counts here.                    *)
LEMMA GoOnStep ==
  ASSUME IInv, NEW r \in Requests, NEW pc, Goto(r, pc), rows' = rows,
         req[r].pc \notin { "idle", "locking", "inserting", "reading", "answered" },
         pc \in { "reading", "creating", "refreshing" }
  PROVE  IInv'
<1>1. DOMAIN req = Requests /\ DOMAIN req[r] = Fields /\ req[r].body \in Bodies[r] /\ TransactionOf(r)
  BY DEF IInv, Shape, Transactions, Body
<1>2. Quiet(r)
  BY <1>1 DEF Quiet, OnlyOf, Goto, Fields, PCs, TransactionOf
<1> QED
  BY <1>2, QuietStep

(* Every step of a request that is not a commit of its own.                   *)
LEMMA ReplacementSteps ==
  ASSUME IInv, NEW r \in Requests,
         \/ GetCurrentUser(r) \/ CheckCourses(r) \/ DeleteExecutes(r)
         \/ InsertRow(r) \/ CommitCourses(r) \/ ReadCourses(r) \/ ReplyLost(r)
  PROVE  IInv'
<1>1. CASE GetCurrentUser(r)
  <2>1. req[r].pc = "arrived" /\ rows' = rows
    BY <1>1 DEF GetCurrentUser, At, Reject
  <2>2. CASE Reject(r, 401)
    BY <2>1, <2>2, AnswerStep DEF Reject
  <2>3. CASE \E u \in users : req' = [req EXCEPT ![r].pc = "checking", ![r].user = u]
    <3>1. DOMAIN req = Requests /\ DOMAIN req[r] = Fields /\ req[r].body \in Bodies[r] /\ TransactionOf(r)
      BY <2>1 DEF IInv, Shape, Transactions, Body
    <3>2. Quiet(r)
      BY <2>1, <2>3, <3>1 DEF Quiet, OnlyOf, Fields, PCs, TransactionOf
    <3> QED
      BY <3>2, QuietStep
  <2> QED
    BY <1>1, <2>2, <2>3 DEF GetCurrentUser, Account
<1>2. CASE CheckCourses(r)
  <2>1. CASE \E status : Reject(r, status)
    BY <1>2, <2>1, AnswerStep DEF CheckCourses, At, Reject
  <2>2. CASE req' = [req EXCEPT ![r].pc = "locking", ![r].seen = RowsOf(Body(r).user)]
    <3>1. DOMAIN req = Requests /\ DOMAIN req[r] = Fields
      BY DEF IInv, Shape
    <3>2. req'[r].pc = "locking"
      BY <2>2, <3>1 DEF Fields
    <3> QED
      BY <1>2, <3>2, LockingStep
  <2> QED
    BY <1>2, <2>1, <2>2 DEF CheckCourses
<1>3. CASE DeleteExecutes(r)
  BY <1>3, DeleteStep
<1>4. CASE InsertRow(r)
  <2>1. CASE Conflict(r)
    BY <1>4, <2>1, AnswerStep DEF InsertRow, At, Conflict, Reject
  <2>2. CASE ~Conflict(r)
    BY <1>4, <2>2, InsertStep
  <2> QED
    BY <2>1, <2>2
<1>5. CASE CommitCourses(r)
  <2>1. DOMAIN req = Requests /\ DOMAIN req[r] = Fields /\ TransactionOf(r)
    BY DEF IInv, Shape, Transactions
  <2>2. Committed(r)
    BY <1>5, <2>1 DEF CommitCourses, Committed, OnlyOf, At, Fields, TransactionOf
  <2> QED
    BY <2>2, CommitStep
<1>6. CASE ReadCourses(r)
  BY <1>6, AnswerStep DEF ReadCourses, At
<1>7. CASE ReplyLost(r)
  <2>1. Committed(r)
    BY <1>7, Answers DEF ReplyLost, Committed, At
  <2> QED
    BY <2>1, CommitStep
<1> QED
  BY <1>1, <1>2, <1>3, <1>4, <1>5, <1>6, <1>7

(* The program, registration, log-in: no rows are touched.                    *)
LEMMA OtherSteps ==
  ASSUME IInv, NEW r \in Requests,
         \/ SetProgram(r) \/ ReadProgram(r) \/ LookUp(r) \/ CreateUser(r) \/ RefreshUser(r)
         \/ LogIn(r) \/ DeadlockDetected(r) \/ CallFails(r) \/ \E b \in Bodies[r] : Arrive(r, b)
  PROVE  IInv'
<1>1. CASE SetProgram(r)
  BY <1>1, AnswerStep, GoOnStep DEF SetProgram, At, Reject
<1>2. CASE ReadProgram(r)
  BY <1>2, AnswerStep DEF ReadProgram, At
<1>3. CASE LookUp(r)
  BY <1>3, AnswerStep, GoOnStep DEF LookUp, At, Reject
<1>4. CASE CreateUser(r)
  <2>1. req[r].pc = "creating" /\ rows' = rows
    BY <1>4 DEF CreateUser, At, Reject
  <2>2. CASE Reject(r, 400)
    BY <2>1, <2>2, AnswerStep DEF Reject
  <2>3. CASE req' = [req EXCEPT ![r].pc = "refreshing", ![r].user = Created(r)]
    <3>1. DOMAIN req = Requests /\ DOMAIN req[r] = Fields /\ req[r].body \in Bodies[r] /\ TransactionOf(r)
      BY <2>1 DEF IInv, Shape, Transactions, Body
    <3>2. Quiet(r)
      BY <2>1, <2>3, <3>1 DEF Quiet, OnlyOf, Fields, PCs, TransactionOf
    <3> QED
      BY <3>2, QuietStep
  <2> QED
    BY <1>4, <2>2, <2>3 DEF CreateUser
<1>5. CASE RefreshUser(r)
  BY <1>5, AnswerStep DEF RefreshUser, At
<1>6. CASE LogIn(r)
  BY <1>6, AnswerStep DEF LogIn, At, Reject
<1>7. CASE DeadlockDetected(r)
  <2>1. WaitsFor(r) # {}
    BY <1>7 DEF DeadlockDetected
  <2>2. req[r].pc \in { "locking", "inserting" }
    BY <2>1 DEF WaitsFor, At
  <2> QED
    BY <1>7, <2>2, AnswerStep DEF DeadlockDetected, Reject
<1>8. CASE CallFails(r)
  BY <1>8, AnswerStep DEF CallFails
<1>9. CASE \E b \in Bodies[r] : Arrive(r, b)
  <2>1. PICK b \in Bodies[r] : Arrive(r, b)
    BY <1>9
  <2>2. DOMAIN req = Requests
    BY DEF IInv, Shape
  <2>3. req[r].pc = "idle" /\ rows' = rows /\ OnlyOf(r)
    BY <2>1, <2>2 DEF Arrive, At, OnlyOf
  <2>4. req'[r] = [Idle EXCEPT !.pc = "arrived", !.body = b,
                              !.after = { q \in Requests : At(q, "answered") }]
    BY <2>1, <2>2 DEF Arrive
  <2>5. Quiet(r)
    BY <2>3, <2>4 DEF Quiet, Idle, Fields, PCs
  <2> QED
    BY <2>5, QuietStep
<1> QED
  BY <1>1, <1>2, <1>3, <1>4, <1>5, <1>6, <1>7, <1>8, <1>9

(* Every step keeps the invariant.                                            *)
LEMMA NextIInv == IInv /\ [Next]_vars => IInv'
<1> SUFFICES ASSUME IInv, [Next]_vars PROVE IInv'
  OBVIOUS
<1>1. ASSUME UNCHANGED << rows, req >> PROVE IInv'
  BY <1>1 DEF IInv, Shape, Transactions, TransactionOf, Inserted, AllWritten, Written, Wanted, Item,
              Body, Whole, Together, Unique, SameKey
<1>2. CASE UNCHANGED vars
  BY <1>1, <1>2 DEF vars
<1>3. CASE \E u \in users : Deactivate(u.id)
  BY <1>1, <1>3 DEF Deactivate
<1>4. CASE \E r \in Requests :
             \/ \E b \in Bodies[r] : Arrive(r, b)
             \/ Serve(r) \/ CallFails(r) \/ ReplyLost(r)
  BY <1>4, ReplacementSteps, OtherSteps DEF Serve
<1> QED
  BY <1>2, <1>3, <1>4 DEF Next

(* For any set of requests, any lists, any faults and any closed accounts: of a    *)
(* replacement of completed courses all rows are in the table or none is, those of *)
(* a rejected request never are, and no student has a course twice.                *)
THEOREM ReplacementsWhole == Spec => []AllOrNothing
<1>1. Init => IInv
  BY InitIInv
<1>2. IInv /\ [Next]_vars => IInv'
  BY NextIInv
<1>3. IInv => AllOrNothing
  BY WholeIsAllOrNothing
<1> QED
  BY <1>1, <1>2, <1>3, PTL DEF Spec

-----------------------------------------------------------------------------
(* Accounts, and what an answer says *)

(* Accounts are numbered in the order they came, and their addresses are      *)
(* lower-case: one name, one account.                                         *)
UserOK(u) ==
  /\ u = [id |-> u.id, email |-> [name |-> u.email.name, upper |-> FALSE],
          program |-> u.program, active |-> u.active]
  /\ u.id \in 1..Cardinality(users)
  /\ u.program \in Programs \cup {None} /\ u.active \in BOOLEAN

UsersInv ==
  /\ IsFiniteSet(users)
  /\ \A u \in users : UserOK(u)
  /\ \A u, v \in users : u.id = v.id \/ u.email.name = v.email.name => u = v

RowsInv ==
  \A t \in rows : /\ Account(t.user) # {} /\ t.course \in Courses
                  /\ t.by \in Requests \cup {None}

OwnKinds == { "replace", "program" }

(* A student's request that is being served, or was.                          *)
Done(r) == req[r].pc = "reading" \/ Answered(r, 200)

(* What the place of a request in its handler says of it. *)
PlaceOf(r) ==
  /\ req[r].pc \in { "checking", "reading" } => Body(r).kind \in OwnKinds
  /\ req[r].pc \in { "creating", "refreshing" } => Body(r).kind = "register"
  /\ req[r].pc = "creating" => Body(r).program \in Programs \cup {None}
  /\ req[r].pc \in { "locking", "inserting" } =>
       \A i \in DOMAIN Body(r).items : Body(r).items[i].course \in Courses
  /\ req[r].pc = "answered" => req[r].status \in { 200, 400, 401, 422, 500 }
  /\ req[r].after \subseteq { q \in Requests : req[q].pc = "answered" }

KnownOf(r) ==
  /\ req[r].pc # "idle" /\ Body(r).kind \in OwnKinds
  /\ req[r].pc \in { "checking", "locking", "inserting" } \/ Done(r)
  => Account(Body(r).user) # {}

(* The rows of a student that a replacement is to put an end to are in its    *)
(* snapshot, then among those that it deletes, then gone.                     *)
Older(r) == { t \in RowsOf(Body(r).user) : t.by = None \/ t.by \in req[r].after }

ListGoneOf(r) ==
  /\ req[r].pc = "locking" => Older(r) \subseteq req[r].seen
  /\ req[r].pc = "inserting" => Older(r) \subseteq req[r].doomed
  /\ Done(r) /\ Body(r).kind = "replace" => Older(r) = {}

(* The program of a student is what get_current_user loaded, or what a        *)
(* request set that was not over when this one arrived.                       *)
SetSince(r, u) ==
  \E w \in Requests \ req[r].after :
    Asks(w, "program") /\ Body(w).user = u.id /\ Body(w).program = u.program

ProgramGoneOf(r) ==
  (req[r].pc # "idle" /\ Body(r).kind = "program") =>
    \A u \in Account(Body(r).user) :
      /\ req[r].pc = "checking" => u.program = req[r].user.program \/ SetSince(r, u)
      /\ Done(r) => SetSince(r, u)

(* The account that a registration made. *)
Made(r) == Asks(r, "register") /\ (req[r].pc = "refreshing" \/ Answered(r, 200))
Held(r) == IF req[r].pc = "refreshing" THEN req[r].user.id ELSE req[r].answer

MadeOf(r) == Made(r) => \E u \in Account(Held(r)) : u.email.name = Body(r).address.name

Apart == \A r, q \in Requests : Made(r) /\ Made(q) /\ Held(r) = Held(q) => r = q

(* A log-in that came after a registration with its address. *)
Follows(q, r) ==
  /\ Asks(q, "login") /\ Answered(r, 200) /\ Asks(r, "register") /\ r \in req[q].after
  /\ Body(q).right_password /\ Body(q).address.name = Body(r).address.name

LogInOf(q) ==
  \A r \in Requests : req[q].pc = "answered" /\ Follows(q, r) =>
    \A u \in Account(req[r].answer) :
      u.active => req[q].status = 500 \/ req[q].answer = u.id

ServedOf(r) ==
  PlaceOf(r) /\ KnownOf(r) /\ ListGoneOf(r) /\ ProgramGoneOf(r) /\ MadeOf(r) /\ LogInOf(r)

AccountsInv ==
  /\ IInv /\ UsersInv /\ RowsInv /\ Apart /\ faults \in 0..MaxFaults
  /\ \A r \in Requests : ServedOf(r)

(* Accounts stay, under their number and their address: none is opened again, *)
(* and a program is one that a request under way asks for.                    *)
AskedNow(v) ==
  \E w \in Requests : /\ req[w].pc \notin { "idle", "answered" } /\ Body(w).kind = "program"
                      /\ Body(w).user = v.id /\ Body(w).program = v.program

AccountsKept ==
  /\ \A u \in users : \E v \in users' : v.id = u.id /\ v.email = u.email
  /\ \A v \in users' :
       \/ v.id = Cardinality(users) + 1
       \/ \E u \in users : /\ v.id = u.id /\ v.email = u.email /\ (v.active => u.active)
                           /\ v.program = u.program \/ AskedNow(v)

LEMMA Fields4 ==
  ASSUME NEW u, NEW id, NEW email, NEW program, NEW active,
         u = [id |-> id, email |-> email, program |-> program, active |-> active]
  PROVE  u.id = id /\ u.email = email /\ u.program = program /\ u.active = active
OBVIOUS

LEMMA UserFields ==
  ASSUME NEW u, UserOK(u)
  PROVE  /\ u.email = [name |-> u.email.name, upper |-> FALSE]
         /\ u.id \in 1..Cardinality(users)
         /\ u.program \in Programs \cup {None} /\ u.active \in BOOLEAN
<1>1. u = [id |-> u.id, email |-> [name |-> u.email.name, upper |-> FALSE],
           program |-> u.program, active |-> u.active]
  BY DEF UserOK
<1>2. u.email = [name |-> u.email.name, upper |-> FALSE]
  BY ONLY <1>1, Fields4
<1> QED
  BY <1>2 DEF UserOK

LEMMA UsersUntouched ==
  ASSUME UsersInv, users' = users
  PROVE  UsersInv' /\ AccountsKept
BY DEF UsersInv, UserOK, AccountsKept

(* A change of columns other than the number and the address.                 *)
LEMMA UsersRevised ==
  ASSUME UsersInv, NEW f, f = [u \in users |-> f[u]], users' = { f[u] : u \in users },
         \A u \in users :
           /\ f[u] = [id |-> u.id, email |-> u.email, program |-> f[u].program,
                      active |-> f[u].active]
           /\ f[u].program \in Programs \cup {None} /\ f[u].active \in BOOLEAN
           /\ f[u].active => u.active
           /\ f[u].program = u.program \/ AskedNow(f[u])
  PROVE  UsersInv' /\ AccountsKept
<1>1. \A u \in users : f[u].id = u.id /\ f[u].email = u.email
  OBVIOUS
<1>2. f \in Bijection(users, users')
  <2>1. f \in [users -> users']
    OBVIOUS
  <2>2. \A u, v \in users : f[u] = f[v] => u = v
    BY <1>1 DEF UsersInv
  <2>3. \A v \in users' : \E u \in users : f[u] = v
    OBVIOUS
  <2> QED
    BY <2>1, <2>2, <2>3 DEF Bijection, Injection, Surjection, IsInjective
<1>3. IsFiniteSet(users') /\ Cardinality(users') = Cardinality(users)
  BY <1>2, FS_Bijection DEF ExistsBijection, UsersInv
<1>4. ASSUME NEW v \in users' PROVE UserOK(v)'
  <2>1. PICK u \in users : v = f[u]
    OBVIOUS
  <2>2. UserOK(u)
    BY DEF UsersInv
  <2>3. /\ v = [id |-> u.id, email |-> u.email, program |-> v.program, active |-> v.active]
        /\ v.program \in Programs \cup {None} /\ v.active \in BOOLEAN
    BY <2>1
  <2>4. v.id = u.id /\ v.email = u.email
    BY <2>1, <1>1
  <2>5. u.email = [name |-> u.email.name, upper |-> FALSE] /\ u.id \in 1..Cardinality(users)
    BY <2>2, UserFields
  <2> QED
    BY <1>3, <2>3, <2>4, <2>5 DEF UserOK
<1>5. \A v, w \in users' : v.id = w.id \/ v.email.name = w.email.name => v = w
  <2>1. SUFFICES ASSUME NEW u \in users, NEW x \in users,
                        f[u].id = f[x].id \/ f[u].email.name = f[x].email.name
                 PROVE  f[u] = f[x]
    OBVIOUS
  <2> QED
    BY <1>1, <2>1 DEF UsersInv
<1>6. UsersInv'
  BY <1>3, <1>4, <1>5 DEF UsersInv
<1>7. AccountsKept
  <2>1. \A u \in users : f[u] \in users'
    OBVIOUS
  <2>2. \A v \in users' : \E u \in users : v = f[u]
    OBVIOUS
  <2> QED
    BY <1>1, <2>1, <2>2 DEF AccountsKept
<1> QED
  BY <1>6, <1>7

(* A new account, with a free address and the next number.                    *)
LEMMA UsersAdded ==
  ASSUME UsersInv, NEW new, users' = users \cup {new},
         new = [id |-> Cardinality(users) + 1, email |-> [name |-> new.email.name, upper |-> FALSE],
                program |-> new.program, active |-> TRUE],
         new.program \in Programs \cup {None}, With(new.email) = {}
  PROVE  UsersInv' /\ AccountsKept
<1>1. Cardinality(users) \in Nat /\ new.id = Cardinality(users) + 1 /\ new.active = TRUE
      /\ new.email = [name |-> new.email.name, upper |-> FALSE]
  BY FS_CardinalityType, Fields4 DEF UsersInv
<1>2. \A u \in users : /\ u.id \in 1..Cardinality(users) /\ u.id # new.id
                       /\ u.email = [name |-> u.email.name, upper |-> FALSE]
  <2>1. \A u \in users : /\ u.id \in 1..Cardinality(users)
                         /\ u.email = [name |-> u.email.name, upper |-> FALSE]
    BY UserFields DEF UsersInv
  <2>2. \A i \in 1..Cardinality(users) : i # new.id
    BY ONLY <1>1
  <2> QED
    BY <2>1, <2>2
<1>3. new \notin users
  BY <1>2
<1>4. IsFiniteSet(users') /\ Cardinality(users') = Cardinality(users) + 1
  BY <1>3, FS_AddElement DEF UsersInv
<1>5. ASSUME NEW u \in users PROVE UserOK(u)'
  <2>1. UserOK(u)
    BY DEF UsersInv
  <2>2. u.id \in 1..Cardinality(users')
    <3> HIDE DEF UserOK
    <3>1. u.id \in 1..Cardinality(users) /\ Cardinality(users) \in Nat
      BY <1>1, <1>2
    <3> QED
      BY ONLY <3>1, <1>4
  <2> QED
    BY <2>1, <2>2 DEF UserOK
<1>6. UserOK(new)'
  <2>1. new.id \in 1..Cardinality(users')
    BY ONLY <1>1, <1>4
  <2>2. new = [id |-> new.id, email |-> [name |-> new.email.name, upper |-> FALSE],
               program |-> new.program, active |-> new.active]
    BY ONLY <1>1, new = [id |-> Cardinality(users) + 1,
            email |-> [name |-> new.email.name, upper |-> FALSE],
            program |-> new.program, active |-> TRUE]
  <2> QED
    BY <1>1, <2>1, <2>2 DEF UserOK
<1>7. \A u \in users : u.email.name # new.email.name
  BY <1>1, <1>2 DEF With
<1>8. UsersInv'
  BY <1>2, <1>4, <1>5, <1>6, <1>7 DEF UsersInv
<1>9. AccountsKept
  BY <1>1 DEF AccountsKept
<1> QED
  BY <1>8, <1>9

(* What every step keeps: what was answered, what was asked and when, the     *)
(* accounts, and, of the rows, those of answered requests do not come back.   *)
Passing ==
  /\ \A q \in Requests : req[q].pc = "answered" => req'[q] = req[q]
  /\ \A q \in Requests : req[q].pc # "idle" =>
       req'[q].pc # "idle" /\ req'[q].body = req[q].body /\ req'[q].after = req[q].after
  /\ AccountsKept /\ UsersInv'
  /\ \A t \in rows' : t \in rows \/ (t.by \in Requests /\ req[t.by].pc # "answered")

LEMMA KeptSince ==
  ASSUME AccountsInv, Passing, NEW q \in Requests, req'[q].after = req[q].after, NEW u \in users,
         SetSince(q, u), NEW v \in users', v.id = u.id, v.program = u.program
  PROVE  SetSince(q, v)'
<1>1. PICK w \in Requests \ req[q].after :
        Asks(w, "program") /\ Body(w).user = u.id /\ Body(w).program = u.program
  BY DEF SetSince
<1>2. req'[w].pc # "idle" /\ req'[w].body = req[w].body
  BY <1>1 DEF Passing, Asks, At
<1> QED
  BY <1>1, <1>2 DEF SetSince, Asks, At, Body

(* A program set now is one set since the request arrived.                    *)
LEMMA SetNow ==
  ASSUME AccountsInv, Passing, NEW q \in Requests, req'[q].after = req[q].after,
         NEW v, AskedNow(v)
  PROVE  SetSince(q, v)'
<1>1. PICK w \in Requests : /\ req[w].pc \notin { "idle", "answered" } /\ Body(w).kind = "program"
                            /\ Body(w).user = v.id /\ Body(w).program = v.program
  BY DEF AskedNow
<1>2. w \notin req[q].after
  BY <1>1 DEF AccountsInv, ServedOf, PlaceOf
<1>3. req'[w].pc # "idle" /\ req'[w].body = req[w].body
  BY <1>1 DEF Passing
<1> QED
  BY <1>1, <1>2, <1>3 DEF SetSince, Asks, At, Body

(* An account with a number that was in use is the account that had it.       *)
LEMMA SameAccount ==
  ASSUME AccountsInv, Passing, NEW id, Account(id) # {}, NEW v \in users', v.id = id
  PROVE  \E u \in Account(id) : /\ v.id = u.id /\ v.email = u.email /\ (v.active => u.active)
                                /\ v.program = u.program \/ AskedNow(v)
<1>1. PICK u \in users : u.id = id
  BY DEF Account
<1>2. UserOK(u) /\ Cardinality(users) \in Nat
  BY FS_CardinalityType DEF AccountsInv, UsersInv
<1>3. id # Cardinality(users) + 1
  <2>1. id \in 1..Cardinality(users)
    BY <1>1, <1>2, UserFields
  <2> QED
    BY ONLY <1>2, <2>1
<1> QED
  BY <1>3 DEF Passing, AccountsKept, Account

LEMMA StillThere ==
  ASSUME Passing, NEW id, Account(id) # {}
  PROVE  Account(id)' # {}
BY DEF Passing, AccountsKept, Account

(* What is older than a request that stays does not grow.                     *)
LEMMA OlderShrinks ==
  ASSUME AccountsInv, Passing, NEW q \in Requests, req[q].pc # "idle"
  PROVE  Older(q)' \subseteq Older(q)
<1>1. req[q].after \subseteq { p \in Requests : req[p].pc = "answered" }
  BY DEF AccountsInv, ServedOf, PlaceOf
<1> QED
  BY <1>1, ApiAssumption DEF Passing, Older, RowsOf, Body

(* What holds of a request goes on to hold while others take a step.          *)
LEMMA OthersServed ==
  ASSUME AccountsInv, Passing, NEW q \in Requests, req'[q] = req[q]
  PROVE  ServedOf(q)'
<1>1. ServedOf(q) /\ Body(q)' = Body(q)
  BY DEF AccountsInv, Body
<1>2. PlaceOf(q)'
  BY <1>1 DEF ServedOf, PlaceOf, Passing
<1>3. KnownOf(q)'
  <2> SUFFICES ASSUME ~KnownOf(q)' PROVE FALSE
    OBVIOUS
  <2>1. Account(Body(q).user) # {}
    BY <1>1 DEF ServedOf, KnownOf, Done, Answered, At, Body
  <2> QED
    BY <1>1, <2>1, StillThere DEF KnownOf
<1>4. ListGoneOf(q)'
  <2>1. CASE req[q].pc = "idle"
    BY <2>1 DEF ListGoneOf, Done, Answered, At
  <2>2. CASE req[q].pc # "idle"
    BY <1>1, <2>2, OlderShrinks DEF ServedOf, ListGoneOf, Done, Answered, At
  <2> QED
    BY <2>1, <2>2
<1>5. ProgramGoneOf(q)'
  <2> SUFFICES ASSUME req[q].pc # "idle", Body(q).kind = "program", NEW v \in users',
                      v.id = Body(q).user, req[q].pc = "checking" \/ Done(q)
               PROVE  /\ req[q].pc = "checking" => v.program = req[q].user.program \/ SetSince(q, v)'
                      /\ Done(q) => SetSince(q, v)'
    BY <1>1 DEF ProgramGoneOf, Account, Done, Answered, At
  <2>1. Account(Body(q).user) # {}
    BY <1>1 DEF ServedOf, KnownOf, OwnKinds
  <2>2. PICK u \in Account(Body(q).user) : /\ v.id = u.id
                                           /\ v.program = u.program \/ AskedNow(v)
    BY <2>1, SameAccount
  <2>3. u \in users
    BY <2>2 DEF Account
  <2>4. CASE AskedNow(v)
    BY <2>4, SetNow
  <2>5. CASE v.program = u.program
    BY <1>1, <2>2, <2>3, <2>5, KeptSince DEF ServedOf, ProgramGoneOf
  <2> QED
    BY <2>2, <2>4, <2>5
<1>6. MadeOf(q)'
  <2> SUFFICES ASSUME Made(q) PROVE \E v \in users' : v.id = Held(q) /\ v.email.name = Body(q).address.name
    BY <1>1 DEF MadeOf, Made, Held, Asks, Answered, At, Account
  <2>1. PICK u \in users : u.id = Held(q) /\ u.email.name = Body(q).address.name
    BY <1>1 DEF ServedOf, MadeOf, Account
  <2> QED
    BY <2>1 DEF Passing, AccountsKept
<1>7. LogInOf(q)'
  <2> SUFFICES ASSUME NEW r \in Requests, req[q].pc = "answered", Follows(q, r)',
                      NEW v \in users', v.id = req'[r].answer, v.active
               PROVE  req[q].status = 500 \/ req[q].answer = v.id
    BY <1>1 DEF LogInOf, Account
  <2>1. req[r].pc = "answered" /\ req'[r] = req[r]
    BY <1>1 DEF Follows, ServedOf, PlaceOf, Passing
  <2>2. Follows(q, r)
    BY <2>1 DEF Follows, Asks, Answered, At, Body
  <2>3. Account(req[r].answer) # {}
    BY <2>1, <2>2 DEF AccountsInv, ServedOf, MadeOf, Made, Held, Follows
  <2>4. PICK u \in Account(req[r].answer) : v.id = u.id /\ (v.active => u.active)
    BY <2>1, <2>3, SameAccount
  <2> QED
    BY <1>1, <2>2, <2>4 DEF ServedOf, LogInOf
<1> QED
  BY <1>2, <1>3, <1>4, <1>5, <1>6, <1>7 DEF ServedOf

(* A step of r that brings no row back.                                       *)
Moves(r) ==
  /\ OnlyOf(r)
  /\ req[r].pc # "answered" /\ req'[r].pc # "idle"
  /\ req[r].pc # "idle" => req'[r].body = req[r].body /\ req'[r].after = req[r].after

LEMMA MovesPass ==
  ASSUME AccountsInv, NEW r \in Requests, Moves(r), UsersInv', AccountsKept,
         \A t \in rows' : t \in rows \/ t.by = r
  PROVE  Passing
BY DEF Moves, OnlyOf, Passing

LEMMA AnswerFacts ==
  ASSUME AccountsInv, NEW r \in Requests, req[r].pc \notin { "idle", "answered" },
         NEW status, NEW answer, Answer(r, status, answer)
  PROVE  /\ Moves(r) /\ req'[r].pc = "answered"
         /\ req'[r].status = status /\ req'[r].answer = answer
<1>1. DOMAIN req = Requests /\ DOMAIN req[r] = Fields
  BY DEF AccountsInv, IInv, Shape
<1> QED
  BY <1>1 DEF Answer, Moves, OnlyOf, Fields

(* The bookkeeping of a step: r's own facts are what remains to be shown.     *)
OwnFacts(r) == ServedOf(r)' /\ (Made(r)' => Made(r) /\ Held(r)' = Held(r))

LEMMA RequestStep ==
  ASSUME AccountsInv, IInv', NEW r \in Requests, Moves(r), users' = users, rows' = rows,
         faults' \in 0..MaxFaults, Passing => OwnFacts(r)
  PROVE  AccountsInv'
<1>1. UsersInv' /\ AccountsKept
  BY UsersUntouched DEF AccountsInv
<1>2. Passing
  BY <1>1, MovesPass
<1>3. \A q \in Requests : ServedOf(q)'
  BY <1>2, OthersServed DEF Moves, OnlyOf, OwnFacts
<1>4. RowsInv'
  BY DEF AccountsInv, RowsInv, Account
<1>5. Apart'
  <2>1. \A q \in Requests : Made(q)' => Made(q) /\ Held(q)' = Held(q)
    BY <1>2 DEF Moves, OnlyOf, OwnFacts, Made, Held, Asks, Answered, At, Body
  <2> QED
    BY <2>1 DEF AccountsInv, Apart
<1> QED
  BY <1>1, <1>3, <1>4, <1>5 DEF AccountsInv

(* A request that is turned down or fails promises nothing.                   *)
LEMMA TurnedDown ==
  ASSUME AccountsInv, Passing, NEW r \in Requests, Moves(r), req[r].pc # "idle",
         req'[r].pc = "answered", req'[r].status \in { 400, 401, 422, 500 },
         Body(r).kind = "login" => req'[r].status = 500
  PROVE  OwnFacts(r)
<1>1. /\ req'[r].body = req[r].body /\ req'[r].after = req[r].after /\ ~Answered(r, 200)'
      /\ Body(r)' = Body(r)
  BY DEF Moves, Answered, At, Body
<1>2. PlaceOf(r)'
  BY <1>1 DEF AccountsInv, ServedOf, PlaceOf, Passing
<1>3. KnownOf(r)' /\ ListGoneOf(r)' /\ ProgramGoneOf(r)' /\ MadeOf(r)' /\ ~Made(r)'
  BY <1>1 DEF KnownOf, ListGoneOf, ProgramGoneOf, MadeOf, Made, Done
<1>4. LogInOf(r)'
  BY <1>1 DEF LogInOf, Follows, Asks
<1> QED
  BY <1>2, <1>3, <1>4 DEF ServedOf, OwnFacts

LEMMA RejectStep ==
  ASSUME AccountsInv, IInv', NEW r \in Requests, req[r].pc \notin { "idle", "answered" },
         NEW status \in { 400, 401, 422, 500 }, Answer(r, status, None), users' = users,
         rows' = rows, faults' \in 0..MaxFaults, Body(r).kind = "login" => status = 500
  PROVE  AccountsInv'
<1>1. /\ Moves(r) /\ req'[r].pc = "answered" /\ req'[r].status = status
  BY AnswerFacts
<1> QED
  BY <1>1, TurnedDown, RequestStep

(* A request arrives: it is behind all that was answered.                     *)
LEMMA ArriveStep ==
  ASSUME AccountsInv, IInv', NEW r \in Requests, NEW b \in Bodies[r], Arrive(r, b)
  PROVE  AccountsInv'
<1>1. DOMAIN req = Requests /\ req[r].pc = "idle"
  BY DEF AccountsInv, IInv, Shape, Arrive, At
<1>2. PICK new : new = [Idle EXCEPT !.pc = "arrived", !.body = b,
                                    !.after = { q \in Requests : At(q, "answered") }]
  OBVIOUS
<1>3. req' = [req EXCEPT ![r] = new]
  BY <1>2 DEF Arrive
<1>4. req'[r] = new /\ \A q \in Requests \ {r} : req'[q] = req[q]
  BY <1>1, <1>3
<1>5. new.pc = "arrived" /\ new.after = { q \in Requests : req[q].pc = "answered" }
  BY <1>2 DEF Idle, At
<1>6. Moves(r) /\ users' = users /\ rows' = rows /\ faults' = faults
  BY <1>1, <1>3, <1>4, <1>5 DEF Moves, OnlyOf, Arrive
<1>7. ASSUME Passing PROVE OwnFacts(r)
  <2>1. PlaceOf(r)'
    BY <1>4, <1>5, <1>7 DEF PlaceOf, Passing
  <2>2. ~Done(r)' /\ ~Made(r)' /\ ~(req'[r].pc = "answered")
    BY <1>4, <1>5 DEF Done, Made, Answered, At
  <2> QED
    BY <1>4, <1>5, <2>1, <2>2
       DEF OwnFacts, ServedOf, KnownOf, ListGoneOf, ProgramGoneOf, MadeOf, LogInOf
<1> QED
  BY <1>6, <1>7, RequestStep DEF AccountsInv

(* The student is known; the program is the one that was loaded.              *)
LEMMA CurrentUserStep ==
  ASSUME AccountsInv, IInv', NEW r \in Requests, GetCurrentUser(r)
  PROVE  AccountsInv'
<1>1. DOMAIN req = Requests /\ DOMAIN req[r] = Fields
  BY DEF AccountsInv, IInv, Shape
<1>2. req[r].pc = "arrived" /\ Body(r).kind \in OwnKinds
  BY DEF GetCurrentUser, Asks, At, OwnKinds
<1>3. CASE Reject(r, 401)
  BY <1>2, <1>3, RejectStep DEF Reject, OwnKinds, AccountsInv
<1>4. CASE \E u \in Account(Body(r).user) :
             /\ req' = [req EXCEPT ![r].pc = "checking", ![r].user = u]
             /\ UNCHANGED << users, rows, faults >>
  <2>1. PICK u \in Account(Body(r).user) :
          /\ req' = [req EXCEPT ![r].pc = "checking", ![r].user = u]
          /\ UNCHANGED << users, rows, faults >>
    BY <1>4
  <2>2. /\ Moves(r) /\ req'[r].pc = "checking" /\ req'[r].user = u
        /\ req'[r].body = req[r].body /\ req'[r].after = req[r].after
    BY <1>1, <1>2, <2>1 DEF Moves, OnlyOf, Fields
  <2>3. ASSUME Passing PROVE OwnFacts(r)
    <3>1. PlaceOf(r)'
      BY <1>2, <2>2, <2>3 DEF AccountsInv, ServedOf, PlaceOf, Passing, Body
    <3>2. KnownOf(r)'
      BY <2>1, <2>2 DEF KnownOf, Account, Body
    <3>3. ProgramGoneOf(r)'
      <4>1. \A v \in Account(Body(r).user) : v = u
        BY <2>1 DEF Account, AccountsInv, UsersInv
      <4> QED
        BY <2>1, <2>2, <4>1 DEF ProgramGoneOf, Account, Body, Done, Answered, At
    <3>4. ~Done(r)' /\ ~Made(r)' /\ ListGoneOf(r)' /\ MadeOf(r)' /\ LogInOf(r)'
      BY <2>2 DEF Done, Made, Answered, At, ListGoneOf, MadeOf, LogInOf
    <3> QED
      BY <3>1, <3>2, <3>3, <3>4 DEF OwnFacts, ServedOf
  <2> QED
    BY <2>1, <2>2, <2>3, RequestStep DEF AccountsInv
<1> QED
  BY <1>3, <1>4 DEF GetCurrentUser

(* The steps of a replacement up to its commit.                               *)
LEMMA LockStep ==
  ASSUME AccountsInv, IInv', NEW r \in Requests, CheckCourses(r)
  PROVE  AccountsInv'
<1>1. DOMAIN req = Requests /\ DOMAIN req[r] = Fields
  BY DEF AccountsInv, IInv, Shape
<1>2. req[r].pc = "checking" /\ Body(r).kind = "replace"
  BY DEF CheckCourses, Asks, At
<1>3. CASE \E status \in { 400, 422 } : Reject(r, status)
  BY <1>2, <1>3, RejectStep DEF Reject, AccountsInv
<1>4. CASE /\ Existing([i \in DOMAIN Body(r).items |-> Body(r).items[i].course])
           /\ req' = [req EXCEPT ![r].pc = "locking", ![r].seen = RowsOf(Body(r).user)]
           /\ UNCHANGED << users, rows, faults >>
  <2>1. /\ Moves(r) /\ req'[r].pc = "locking" /\ req'[r].seen = RowsOf(Body(r).user)
        /\ req'[r].body = req[r].body /\ req'[r].after = req[r].after
        /\ users' = users /\ rows' = rows
    BY <1>1, <1>2, <1>4 DEF Moves, OnlyOf, Fields
  <2>2. \A i \in DOMAIN Body(r).items : Body(r).items[i].course \in Courses
    BY <1>4 DEF Existing, ToSet
  <2>3. ASSUME Passing PROVE OwnFacts(r)
    <3>1. PlaceOf(r)'
      BY <1>2, <2>1, <2>2, <2>3 DEF AccountsInv, ServedOf, PlaceOf, Passing, Body
    <3>2. KnownOf(r)'
      BY <1>2, <2>1 DEF AccountsInv, ServedOf, KnownOf, OwnKinds, Account, Body
    <3>3. ListGoneOf(r)'
      BY <2>1 DEF ListGoneOf, Older, RowsOf, Body, Done, Answered, At
    <3>4. ~Done(r)' /\ ~Made(r)' /\ ProgramGoneOf(r)' /\ MadeOf(r)' /\ LogInOf(r)'
      BY <2>1 DEF Done, Made, Answered, At, ProgramGoneOf, MadeOf, LogInOf
    <3> QED
      BY <3>1, <3>2, <3>3, <3>4 DEF OwnFacts, ServedOf
  <2> QED
    BY <1>4, <2>1, <2>3, RequestStep DEF AccountsInv
<1> QED
  BY <1>3, <1>4 DEF CheckCourses

LEMMA DeletedStep ==
  ASSUME AccountsInv, IInv', NEW r \in Requests, DeleteExecutes(r)
  PROVE  AccountsInv'
<1>1. DOMAIN req = Requests /\ DOMAIN req[r] = Fields
  BY DEF AccountsInv, IInv, Shape
<1>2. req[r].pc = "locking" /\ Body(r).kind = "replace"
  BY DEF DeleteExecutes, At, AccountsInv, IInv, Transactions, TransactionOf
<1>3. /\ Moves(r) /\ req'[r].pc = "inserting" /\ req'[r].doomed = req[r].seen \cap rows
      /\ req'[r].body = req[r].body /\ req'[r].after = req[r].after
      /\ users' = users /\ rows' = rows /\ faults' = faults
  BY <1>1, <1>2 DEF DeleteExecutes, Doomed, Moves, OnlyOf, Fields
<1>4. ASSUME Passing PROVE OwnFacts(r)
  <2>1. PlaceOf(r)'
    BY <1>2, <1>3, <1>4 DEF AccountsInv, ServedOf, PlaceOf, Passing, Body
  <2>2. KnownOf(r)'
    BY <1>2, <1>3 DEF AccountsInv, ServedOf, KnownOf, OwnKinds, Account, Body
  <2>3. ListGoneOf(r)'
    BY <1>2, <1>3 DEF AccountsInv, ServedOf, ListGoneOf, Older, RowsOf, Body, Done, Answered, At
  <2>4. ~Done(r)' /\ ~Made(r)' /\ ProgramGoneOf(r)' /\ MadeOf(r)' /\ LogInOf(r)'
    BY <1>3 DEF Done, Made, Answered, At, ProgramGoneOf, MadeOf, LogInOf
  <2> QED
    BY <2>1, <2>2, <2>3, <2>4 DEF OwnFacts, ServedOf
<1> QED
  BY <1>3, <1>4, RequestStep DEF AccountsInv

LEMMA RowStep ==
  ASSUME AccountsInv, IInv', NEW r \in Requests, InsertRow(r)
  PROVE  AccountsInv'
<1>1. DOMAIN req = Requests /\ DOMAIN req[r] = Fields
  BY DEF AccountsInv, IInv, Shape
<1>2. req[r].pc = "inserting" /\ Body(r).kind = "replace"
  BY DEF InsertRow, At, AccountsInv, IInv, Transactions, TransactionOf
<1>3. CASE Conflict(r)
  BY <1>2, <1>3, RejectStep DEF Conflict, Reject, AccountsInv
<1>4. CASE ~Conflict(r)
  <2>1. /\ Moves(r) /\ req'[r].pc = "inserting" /\ req'[r].doomed = req[r].doomed
        /\ req'[r].body = req[r].body /\ req'[r].after = req[r].after
        /\ users' = users /\ rows' = rows /\ faults' = faults
    BY <1>1, <1>2, <1>4 DEF InsertRow, Moves, OnlyOf, Fields
  <2>2. ASSUME Passing PROVE OwnFacts(r)
    <3>1. PlaceOf(r)'
      BY <1>2, <2>1, <2>2 DEF AccountsInv, ServedOf, PlaceOf, Passing, Body
    <3>2. KnownOf(r)'
      BY <1>2, <2>1 DEF AccountsInv, ServedOf, KnownOf, OwnKinds, Account, Body
    <3>3. ListGoneOf(r)'
      BY <1>2, <2>1 DEF AccountsInv, ServedOf, ListGoneOf, Older, RowsOf, Body, Done, Answered, At
    <3>4. ~Done(r)' /\ ~Made(r)' /\ ProgramGoneOf(r)' /\ MadeOf(r)' /\ LogInOf(r)'
      BY <2>1 DEF Done, Made, Answered, At, ProgramGoneOf, MadeOf, LogInOf
    <3> QED
      BY <3>1, <3>2, <3>3, <3>4 DEF OwnFacts, ServedOf
  <2> QED
    BY <2>1, <2>2, RequestStep DEF AccountsInv
<1> QED
  BY <1>3, <1>4

(* The commit: what is older goes with the rows that are deleted, and what    *)
(* comes is of this request, for a known student and known courses.           *)
LEMMA ReplacedRows ==
  ASSUME AccountsInv, IInv', NEW r \in Requests, Moves(r), req[r].pc = "inserting",
         req[r].next > Len(Body(r).items), rows' = Replaced(r), users' = users,
         faults' \in 0..MaxFaults, Passing => OwnFacts(r)
  PROVE  AccountsInv'
<1>1. UsersInv' /\ AccountsKept
  BY UsersUntouched DEF AccountsInv
<1>2. TransactionOf(r) /\ Body(r) \in Bodies[r]
  BY DEF AccountsInv, IInv, Transactions, Shape
<1>3. \A t \in req[r].pending :
        \E i \in DOMAIN Body(r).items : t = Item(r, i)
  <2>1. Body(r).items \in Seq(ToSet(Body(r).items))
    BY <1>2, ApiAssumption DEF TransactionOf
  <2>2. DOMAIN Body(r).items = 1..(req[r].next - 1)
    BY <1>2, <2>1 DEF TransactionOf
  <2> QED
    BY <1>2, <2>2 DEF TransactionOf, Inserted
<1>4. Passing
  BY <1>1, <1>3, MovesPass DEF Replaced, Item
<1>5. \A q \in Requests : ServedOf(q)'
  BY <1>4, OthersServed DEF Moves, OnlyOf, OwnFacts
<1>6. RowsInv'
  <2>1. ASSUME NEW t \in req[r].pending
        PROVE  Account(t.user) # {} /\ t.course \in Courses /\ t.by = r
    BY <1>2, <1>3 DEF Item, AccountsInv, ServedOf, PlaceOf, KnownOf, OwnKinds, TransactionOf
  <2> QED
    BY <2>1 DEF AccountsInv, RowsInv, Account, Replaced
<1>7. Apart'
  <2>1. \A q \in Requests : Made(q)' => Made(q) /\ Held(q)' = Held(q)
    BY <1>4 DEF Moves, OnlyOf, OwnFacts, Made, Held, Asks, Answered, At, Body
  <2> QED
    BY <2>1 DEF AccountsInv, Apart
<1> QED
  BY <1>1, <1>5, <1>6, <1>7 DEF AccountsInv

LEMMA CommittedStep ==
  ASSUME AccountsInv, IInv', NEW r \in Requests, CommitCourses(r)
  PROVE  AccountsInv'
<1>1. DOMAIN req = Requests /\ DOMAIN req[r] = Fields
  BY DEF AccountsInv, IInv, Shape
<1>2. /\ req[r].pc = "inserting" /\ Body(r).kind = "replace"
      /\ \A t \in req[r].pending : t.by = r
  BY DEF CommitCourses, At, AccountsInv, IInv, Transactions, TransactionOf, Inserted, Item
<1>3. /\ Moves(r) /\ req'[r].pc = "reading"
      /\ req'[r].body = req[r].body /\ req'[r].after = req[r].after
      /\ users' = users /\ rows' = Replaced(r) /\ faults' = faults
  BY <1>1, <1>2 DEF CommitCourses, Moves, OnlyOf, Fields
<1>4. ASSUME Passing PROVE OwnFacts(r)
  <2>1. PlaceOf(r)'
    BY <1>2, <1>3, <1>4 DEF AccountsInv, ServedOf, PlaceOf, Passing, Body, OwnKinds
  <2>2. KnownOf(r)'
    BY <1>2, <1>3 DEF AccountsInv, ServedOf, KnownOf, OwnKinds, Account, Body
  <2>3. ListGoneOf(r)'
    <3>1. Older(r) \subseteq req[r].doomed /\ r \notin req[r].after
      BY <1>2 DEF AccountsInv, ServedOf, ListGoneOf, PlaceOf
    <3>2. Older(r)' = {}
      BY <1>2, <1>3, <3>1, ApiAssumption DEF Older, RowsOf, Body, Replaced
    <3> QED
      BY <1>3, <3>2 DEF ListGoneOf
  <2>4. Body(r)' = Body(r) /\ ~Made(r)' /\ ProgramGoneOf(r)' /\ MadeOf(r)' /\ LogInOf(r)'
    BY <1>2, <1>3 DEF Made, Answered, Asks, At, Body, ProgramGoneOf, MadeOf, LogInOf
  <2> QED
    BY <2>1, <2>2, <2>3, <2>4 DEF OwnFacts, ServedOf
<1> QED
  BY <1>2, <1>3, <1>4, ReplacedRows DEF AccountsInv, CommitCourses

LEMMA LostReplyStep ==
  ASSUME AccountsInv, IInv', NEW r \in Requests, ReplyLost(r)
  PROVE  AccountsInv'
<1>1. /\ req[r].pc = "inserting" /\ Body(r).kind = "replace"
  BY DEF ReplyLost, At, AccountsInv, IInv, Transactions, TransactionOf
<1>2. faults' \in 0..MaxFaults
  BY ApiAssumption DEF ReplyLost, AccountsInv
<1>3. Moves(r) /\ req'[r].pc = "answered" /\ req'[r].status = 500
  BY <1>1, AnswerFacts DEF ReplyLost
<1> QED
  BY <1>1, <1>2, <1>3, TurnedDown, ReplacedRows DEF ReplyLost

(* The answers that say what was done.                                        *)
LEMMA AnsweredStep ==
  ASSUME AccountsInv, IInv', NEW r \in Requests, ReadCourses(r) \/ ReadProgram(r)
  PROVE  AccountsInv'
<1>1. /\ req[r].pc = "reading" /\ Body(r).kind \in OwnKinds
      /\ users' = users /\ rows' = rows /\ faults' = faults
  BY DEF ReadCourses, ReadProgram, Asks, At, OwnKinds
<1>2. PICK answer : Answer(r, 200, answer)
  BY DEF ReadCourses, ReadProgram
<1>3. Moves(r) /\ req'[r].pc = "answered" /\ req'[r].status = 200
  BY <1>1, <1>2, AnswerFacts
<1>4. req'[r].body = req[r].body /\ req'[r].after = req[r].after /\ Done(r)
  BY <1>1, <1>3 DEF Moves, Done
<1>5. ASSUME Passing PROVE OwnFacts(r)
  <2>1. PlaceOf(r)'
    BY <1>3, <1>4, <1>5 DEF AccountsInv, ServedOf, PlaceOf, Passing, Body
  <2>2. KnownOf(r)'
    BY <1>1, <1>4 DEF AccountsInv, ServedOf, KnownOf, Account, Body
  <2>3. ListGoneOf(r)'
    BY <1>1, <1>3, <1>4 DEF AccountsInv, ServedOf, ListGoneOf, Older, RowsOf, Body
  <2>4. ProgramGoneOf(r)'
    <3> SUFFICES ASSUME Body(r).kind = "program", NEW u \in users, u.id = Body(r).user
                 PROVE  SetSince(r, u)'
      BY <1>1, <1>3, <1>4 DEF ProgramGoneOf, Account, Body
    <3>1. SetSince(r, u)
      BY <1>1, <1>4 DEF AccountsInv, ServedOf, ProgramGoneOf, Account
    <3> QED
      BY <1>1, <1>4, <1>5, <3>1, KeptSince
  <2>5. Body(r)' = Body(r) /\ ~Made(r)' /\ MadeOf(r)' /\ LogInOf(r)'
    BY <1>1, <1>4 DEF Made, Follows, Asks, Body, MadeOf, LogInOf, OwnKinds
  <2> QED
    BY <2>1, <2>2, <2>3, <2>4, <2>5 DEF OwnFacts, ServedOf
<1> QED
  BY <1>1, <1>3, <1>5, RequestStep DEF AccountsInv

(* One column of an account changes.                                          *)
LEMMA ColumnChanges ==
  ASSUME NEW u, UserOK(u), NEW x
  PROVE  /\ [u EXCEPT !.program = x] =
              [id |-> u.id, email |-> u.email, program |-> x, active |-> u.active]
         /\ [u EXCEPT !.active = x] =
              [id |-> u.id, email |-> u.email, program |-> u.program, active |-> x]
         /\ u = [id |-> u.id, email |-> u.email, program |-> u.program, active |-> u.active]
<1>1. DOMAIN u = { "id", "email", "program", "active" }
  <2>1. u = [id |-> u.id, email |-> [name |-> u.email.name, upper |-> FALSE],
             program |-> u.program, active |-> u.active]
    BY DEF UserOK
  <2> QED
    BY ONLY <2>1
<1>2. u = [id |-> u.id, email |-> u.email, program |-> u.program, active |-> u.active]
  <2>1. u.email = [name |-> u.email.name, upper |-> FALSE]
    BY UserFields
  <2> QED
    BY <2>1 DEF UserOK
<1>3. [u EXCEPT !.program = x] =
        [id |-> u.id, email |-> u.email, program |-> x, active |-> u.active]
  BY ONLY <1>2
<1>4. [u EXCEPT !.active = x] =
        [id |-> u.id, email |-> u.email, program |-> u.program, active |-> x]
  BY ONLY <1>2
<1> QED
  BY <1>2, <1>3, <1>4

(* The program is set: every account of the student now has the program that  *)
(* this request asks for, or one that was set since it arrived.               *)
LEMMA ProgramStep ==
  ASSUME AccountsInv, IInv', NEW r \in Requests, SetProgram(r)
  PROVE  AccountsInv'
<1>1. DOMAIN req = Requests /\ DOMAIN req[r] = Fields
  BY DEF AccountsInv, IInv, Shape
<1>2. req[r].pc = "checking" /\ Body(r).kind = "program" /\ rows' = rows /\ faults' = faults
  BY DEF SetProgram, Asks, At, Reject
<1>3. CASE Reject(r, 422)
  BY <1>2, <1>3, RejectStep DEF Reject, AccountsInv
<1>4. CASE /\ Body(r).program \in Programs \cup {None}
           /\ users' = { IF u.id = Body(r).user /\ Body(r).program # req[r].user.program
                           THEN [u EXCEPT !.program = Body(r).program] ELSE u : u \in users }
           /\ Goto(r, "reading")
  <2> DEFINE F(u) == IF u.id = Body(r).user /\ Body(r).program # req[r].user.program
                       THEN [u EXCEPT !.program = Body(r).program] ELSE u
  <2>1. /\ Moves(r) /\ req'[r].pc = "reading"
        /\ req'[r].body = req[r].body /\ req'[r].after = req[r].after /\ Body(r)' = Body(r)
    BY <1>1, <1>2, <1>4 DEF Goto, Moves, OnlyOf, Fields, Body
  <2>2. PICK f : f = [u \in users |-> F(u)]
    OBVIOUS
  <2>3. users' = { f[u] : u \in users } /\ f = [u \in users |-> f[u]]
    BY <1>4, <2>2
  <2>4. ASSUME NEW u \in users
        PROVE  /\ f[u] = [id |-> u.id, email |-> u.email, program |-> f[u].program,
                          active |-> f[u].active]
               /\ f[u].program \in Programs \cup {None} /\ f[u].active = u.active
               /\ f[u].program = u.program \/ (u.id = Body(r).user /\ f[u].program = Body(r).program)
               /\ f[u].id = u.id
    <3>1. UserOK(u) /\ u.program \in Programs \cup {None}
      BY UserFields DEF AccountsInv, UsersInv
    <3>2. CASE f[u] = u
      BY <3>1, <3>2, ColumnChanges
    <3>3. CASE u.id = Body(r).user /\ f[u] = [u EXCEPT !.program = Body(r).program]
      <4>1. f[u] = [id |-> u.id, email |-> u.email, program |-> Body(r).program,
                    active |-> u.active]
        BY <3>1, <3>3, ColumnChanges
      <4> QED
        BY <1>4, <3>3, <4>1
    <3> QED
      BY <2>2, <3>2, <3>3
  <2>5. \A u \in users : f[u].program = u.program \/ AskedNow(f[u])
    BY <1>2, <2>4 DEF AskedNow
  <2>6. \A u \in users : f[u].active \in BOOLEAN /\ (f[u].active => u.active)
    <3>1. \A u \in users : u.active \in BOOLEAN
      BY UserFields DEF AccountsInv, UsersInv
    <3>2. \A u \in users : f[u].active = u.active
      BY <2>4
    <3> QED
      BY ONLY <3>1, <3>2, Zenon
  <2>7. UsersInv' /\ AccountsKept
    BY <2>3, <2>4, <2>5, <2>6, UsersRevised DEF AccountsInv
  <2>8. Passing
    BY <1>2, <2>1, <2>7, MovesPass
  <2>9. PlaceOf(r)'
    BY <1>2, <2>1, <2>8 DEF AccountsInv, ServedOf, PlaceOf, Passing, OwnKinds
  <2>10. KnownOf(r)'
    <3>1. Account(Body(r).user) # {}
      BY <1>2 DEF AccountsInv, ServedOf, KnownOf, OwnKinds
    <3> QED
      BY <2>1, <2>8, <3>1, StillThere DEF KnownOf
  <2>11. ProgramGoneOf(r)'
    <3> SUFFICES ASSUME NEW u \in users, f[u].id = Body(r).user
                 PROVE  SetSince(r, f[u])'
      BY <2>1, <2>3 DEF ProgramGoneOf, Account
    <3>1. u \in Account(Body(r).user) /\ f[u].id = u.id /\ f[u] \in users'
      BY <2>3, <2>4 DEF Account
    <3>2. CASE f[u].program = Body(r).program
      <4>1. AskedNow(f[u])
        BY <1>2, <3>2 DEF AskedNow
      <4> QED
        BY <2>1, <2>8, <4>1, SetNow
    <3>3. CASE f[u].program # Body(r).program
      <4>1. Body(r).program = req[r].user.program /\ f[u] = u
        <5>1. ~(u.id = Body(r).user /\ Body(r).program # req[r].user.program)
          <6> SUFFICES ASSUME u.id = Body(r).user /\ Body(r).program # req[r].user.program
                       PROVE  FALSE
            OBVIOUS
          <6>1. f[u] = [u EXCEPT !.program = Body(r).program]
            BY <2>2
          <6>2. UserOK(u)
            BY DEF AccountsInv, UsersInv
          <6>3. f[u] = [id |-> u.id, email |-> u.email, program |-> Body(r).program,
                        active |-> u.active]
            BY <6>1, <6>2, ColumnChanges
          <6> QED
            BY <3>3, <6>3
        <5> QED
          BY <2>2, <3>1, <5>1
      <4>2. SetSince(r, u)
        BY <1>2, <3>1, <3>3, <4>1 DEF AccountsInv, ServedOf, ProgramGoneOf
      <4> QED
        BY <2>1, <2>8, <3>1, <4>1, <4>2, KeptSince
    <3> QED
      BY <3>2, <3>3
  <2>12. ~Made(r)' /\ ListGoneOf(r)' /\ MadeOf(r)' /\ LogInOf(r)'
    BY <1>2, <2>1 DEF Made, Answered, Asks, At, ListGoneOf, MadeOf, LogInOf
  <2>13. \A q \in Requests : ServedOf(q)'
    BY <2>1, <2>8, <2>9, <2>10, <2>11, <2>12, OthersServed DEF Moves, OnlyOf, ServedOf
  <2>14. RowsInv'
    BY <1>2, <2>8, StillThere DEF AccountsInv, RowsInv
  <2>15. Apart'
    <3>1. \A q \in Requests : Made(q)' => Made(q) /\ Held(q)' = Held(q)
      BY <2>1, <2>12 DEF Moves, OnlyOf, Made, Held, Asks, Answered, At, Body
    <3> QED
      BY <3>1 DEF AccountsInv, Apart
  <2> QED
    BY <1>2, <2>7, <2>13, <2>14, <2>15 DEF AccountsInv
<1> QED
  BY <1>3, <1>4 DEF SetProgram

(* Registration: the address is free when the account is made.                *)
LEMMA LookUpStep ==
  ASSUME AccountsInv, IInv', NEW r \in Requests, LookUp(r)
  PROVE  AccountsInv'
<1>1. DOMAIN req = Requests /\ DOMAIN req[r] = Fields
  BY DEF AccountsInv, IInv, Shape
<1>2. req[r].pc = "arrived" /\ Body(r).kind = "register"
  BY DEF LookUp, Asks, At
<1>3. CASE \E status \in { 400, 422 } : Reject(r, status)
  BY <1>2, <1>3, RejectStep DEF Reject, AccountsInv
<1>4. CASE /\ Body(r).program \in Programs \cup {None}
           /\ Goto(r, "creating") /\ UNCHANGED << users, rows, faults >>
  <2>1. /\ Moves(r) /\ req'[r].pc = "creating"
        /\ req'[r].body = req[r].body /\ req'[r].after = req[r].after
    BY <1>1, <1>2, <1>4 DEF Goto, Moves, OnlyOf, Fields
  <2>2. ASSUME Passing PROVE OwnFacts(r)
    <3>1. PlaceOf(r)'
      BY <1>2, <1>4, <2>1, <2>2 DEF AccountsInv, ServedOf, PlaceOf, Passing, Body
    <3>2. ~Done(r)' /\ ~Made(r)' /\ KnownOf(r)' /\ ListGoneOf(r)' /\ ProgramGoneOf(r)'
          /\ MadeOf(r)' /\ LogInOf(r)'
      BY <2>1 DEF Done, Made, Answered, At, KnownOf, ListGoneOf, ProgramGoneOf, MadeOf, LogInOf
    <3> QED
      BY <3>1, <3>2 DEF OwnFacts, ServedOf
  <2> QED
    BY <1>4, <2>1, <2>2, RequestStep DEF AccountsInv
<1> QED
  BY <1>3, <1>4 DEF LookUp

LEMMA Respelled ==
  ASSUME NEW a, NEW name, NEW upper, NEW x, a = [name |-> name, upper |-> upper]
  PROVE  [a EXCEPT !.upper = x] = [name |-> name, upper |-> x]
OBVIOUS

LEMMA Lowered ==
  ASSUME NEW b, b.address = [name |-> b.address.name, upper |-> b.address.upper]
  PROVE  Lower(b.address) = [name |-> b.address.name, upper |-> FALSE]
<1>1. PICK name, upper : name = b.address.name /\ upper = b.address.upper
  OBVIOUS
<1>2. PICK a : a = b.address
  OBVIOUS
<1>3. a = [name |-> name, upper |-> upper]
  BY <1>1, <1>2
<1>4. [a EXCEPT !.upper = FALSE] = [name |-> name, upper |-> FALSE]
  <2>1. \A x : [a EXCEPT !.upper = x] = [name |-> name, upper |-> x]
    BY ONLY <1>3, Respelled
  <2> QED
    BY ONLY <2>1, Zenon
<1> QED
  BY ONLY <1>1, <1>2, <1>4, Zenon DEF Lower

LEMMA CreateStep ==
  ASSUME AccountsInv, IInv', NEW r \in Requests, CreateUser(r)
  PROVE  AccountsInv'
<1>1. DOMAIN req = Requests /\ DOMAIN req[r] = Fields
  BY DEF AccountsInv, IInv, Shape
<1>2. /\ req[r].pc = "creating" /\ Body(r).kind = "register" /\ Body(r) \in Bodies[r]
      /\ Body(r).program \in Programs \cup {None} /\ rows' = rows /\ faults' = faults
  BY DEF CreateUser, At, Reject, AccountsInv, ServedOf, PlaceOf, IInv, Shape
<1>3. CASE Reject(r, 400)
  BY <1>2, <1>3, RejectStep DEF Reject, AccountsInv
<1>4. CASE /\ With(Lower(Body(r).address)) = {} /\ users' = users \cup { Created(r) }
           /\ req' = [req EXCEPT ![r].pc = "refreshing", ![r].user = Created(r)]
  <2>1. PICK new : new = Created(r)
    OBVIOUS
  <2>2. /\ new = [id |-> Cardinality(users) + 1,
                  email |-> [name |-> Body(r).address.name, upper |-> FALSE],
                  program |-> Body(r).program, active |-> TRUE]
        /\ Lower(Body(r).address) = [name |-> Body(r).address.name, upper |-> FALSE]
    BY <1>2, <2>1, Lowered, AccountsAssumption DEF Created
  <2>3. /\ new.id = Cardinality(users) + 1
        /\ new.email = [name |-> Body(r).address.name, upper |-> FALSE]
        /\ new.program = Body(r).program
    BY ONLY <2>2, Fields4
  <2>4. new.email.name = Body(r).address.name
    BY ONLY <2>3
  <2>5. UsersInv' /\ AccountsKept
    <3>1. new = [id |-> Cardinality(users) + 1,
                 email |-> [name |-> new.email.name, upper |-> FALSE],
                 program |-> new.program, active |-> TRUE]
      BY ONLY <2>2, <2>3, <2>4
    <3>2. With(new.email) = {} /\ users' = users \cup {new}
      BY <1>4, <2>1, <2>2, <2>3
    <3> QED
      BY <1>2, <2>3, <3>1, <3>2, UsersAdded DEF AccountsInv
  <2>6. /\ Moves(r) /\ req'[r].pc = "refreshing" /\ req'[r].user = new
        /\ req'[r].body = req[r].body /\ req'[r].after = req[r].after /\ Body(r)' = Body(r)
    BY <1>1, <1>2, <1>4, <2>1 DEF Moves, OnlyOf, Fields, Body
  <2>7. Passing
    BY <1>2, <2>5, <2>6, MovesPass
  <2>8. PlaceOf(r)'
    BY <1>2, <2>6, <2>7 DEF AccountsInv, ServedOf, PlaceOf, Passing
  <2>9. Held(r)' = new.id /\ MadeOf(r)'
    BY <1>4, <2>1, <2>4, <2>6 DEF Held, MadeOf, Account
  <2>10. KnownOf(r)' /\ ListGoneOf(r)' /\ ProgramGoneOf(r)' /\ LogInOf(r)'
    BY <1>2, <2>6 DEF KnownOf, ListGoneOf, ProgramGoneOf, LogInOf, OwnKinds, Done, Answered, At
  <2>11. \A q \in Requests : ServedOf(q)'
    BY <2>6, <2>7, <2>8, <2>9, <2>10, OthersServed DEF Moves, OnlyOf, ServedOf
  <2>12. RowsInv'
    BY <1>2, <2>7, StillThere DEF AccountsInv, RowsInv
  <2>13. Apart'
    <3>1. \A q \in Requests \ {r} : Made(q)' => Made(q) /\ Held(q)' = Held(q)
      BY <2>6 DEF Moves, OnlyOf, Made, Held, Asks, Answered, At, Body
    <3>2. \A q \in Requests : Made(q) => Held(q) \in 1..Cardinality(users)
      <4>1. \A u \in users : u.id \in 1..Cardinality(users)
        BY UserFields DEF AccountsInv, UsersInv
      <4> QED
        BY <4>1 DEF AccountsInv, ServedOf, MadeOf, Account
    <3>3. \A i \in 1..Cardinality(users) : i # new.id
      <4>1. Cardinality(users) \in Nat
        BY FS_CardinalityType DEF AccountsInv, UsersInv
      <4> QED
        BY ONLY <2>3, <4>1
    <3>4. \A q \in Requests \ {r} : Made(q)' => Held(q)' # Held(r)'
      BY <2>9, <3>1, <3>2, <3>3
    <3>5. ASSUME NEW p \in Requests \ {r}, NEW q \in Requests \ {r}, Made(p)', Made(q)',
                 Held(p)' = Held(q)'
          PROVE  p = q
      BY <3>1, <3>5 DEF AccountsInv, Apart
    <3> QED
      BY <3>4, <3>5 DEF Apart
  <2> QED
    BY <1>2, <2>5, <2>11, <2>12, <2>13 DEF AccountsInv
<1> QED
  BY <1>2, <1>3, <1>4 DEF CreateUser

LEMMA RefreshStep ==
  ASSUME AccountsInv, IInv', NEW r \in Requests, RefreshUser(r)
  PROVE  AccountsInv'
<1>1. /\ req[r].pc = "refreshing" /\ Body(r).kind = "register"
      /\ users' = users /\ rows' = rows /\ faults' = faults
      /\ Answer(r, 200, req[r].user.id)
  BY DEF RefreshUser, At, AccountsInv, ServedOf, PlaceOf
<1>2. /\ Moves(r) /\ req'[r].pc = "answered" /\ req'[r].status = 200
      /\ req'[r].answer = req[r].user.id
  BY <1>1, AnswerFacts
<1>3. /\ req'[r].body = req[r].body /\ req'[r].after = req[r].after /\ Body(r)' = Body(r)
      /\ Made(r) /\ Held(r)' = Held(r)
  BY <1>1, <1>2 DEF Moves, Made, Held, Asks, At, Body
<1>4. ASSUME Passing PROVE OwnFacts(r)
  <2>1. PlaceOf(r)'
    BY <1>2, <1>3, <1>4 DEF AccountsInv, ServedOf, PlaceOf, Passing
  <2>2. MadeOf(r)'
    BY <1>1, <1>3 DEF AccountsInv, ServedOf, MadeOf, Account
  <2>3. KnownOf(r)' /\ ListGoneOf(r)' /\ ProgramGoneOf(r)' /\ LogInOf(r)'
    BY <1>1, <1>2, <1>3
       DEF KnownOf, ListGoneOf, ProgramGoneOf, LogInOf, Follows, Asks, OwnKinds
  <2> QED
    BY <1>3, <2>1, <2>2, <2>3 DEF OwnFacts, ServedOf
<1> QED
  BY <1>1, <1>2, <1>4, RequestStep DEF AccountsInv

(* Log-in: the account of an earlier registration is found by its address.    *)
LEMMA LogInStep ==
  ASSUME AccountsInv, IInv', NEW r \in Requests, LogIn(r)
  PROVE  AccountsInv'
<1>1. /\ req[r].pc = "arrived" /\ Body(r).kind = "login" /\ Body(r) \in Bodies[r]
      /\ users' = users /\ rows' = rows /\ faults' = faults
  BY DEF LogIn, Asks, At, Reject, AccountsInv, IInv, Shape
<1>2. PICK status, answer : /\ Answer(r, status, answer)
                            /\ \/ status = 401 /\ MayLogIn(Body(r)) = {}
                               \/ status = 200 /\ \E u \in MayLogIn(Body(r)) : answer = u.id
  BY DEF LogIn, Reject
<1>3. Moves(r) /\ req'[r].pc = "answered" /\ req'[r].status = status /\ req'[r].answer = answer
  BY <1>1, <1>2, AnswerFacts
<1>4. req'[r].body = req[r].body /\ req'[r].after = req[r].after /\ Body(r)' = Body(r)
  BY <1>1, <1>3 DEF Moves, Body
<1>5. Lower(Body(r).address) = [name |-> Body(r).address.name, upper |-> FALSE]
  BY <1>1, Lowered, AccountsAssumption
<1>6. ASSUME Passing PROVE OwnFacts(r)
  <2>1. PlaceOf(r)'
    BY <1>2, <1>3, <1>4, <1>6 DEF AccountsInv, ServedOf, PlaceOf, Passing
  <2>2. LogInOf(r)'
    <3> SUFFICES ASSUME NEW q \in Requests, Follows(r, q)', NEW u \in users,
                        u.id = req'[q].answer, u.active
                 PROVE  req'[r].answer = u.id
      BY <1>1 DEF LogInOf, Account
    <3>1. q \in req[r].after /\ Body(r).right_password /\ Body(r).address.name = Body(q)'.address.name
      BY <1>4 DEF Follows
    <3>2. req[q].pc = "answered" /\ req'[q] = req[q] /\ Body(q)' = Body(q)
      BY <1>6, <3>1 DEF AccountsInv, ServedOf, PlaceOf, Passing, Body
    <3>3. Made(q) /\ Held(q) = req[q].answer
      BY <3>2 DEF Follows, Made, Held, Asks, Answered, At
    <3>4. u.email.name = Body(q).address.name
      BY <3>2, <3>3 DEF AccountsInv, ServedOf, MadeOf, Account, UsersInv
    <3>5. u.email = Lower(Body(r).address)
      BY <1>5, <3>1, <3>2, <3>4, UserFields DEF AccountsInv, UsersInv
    <3>6. u \in MayLogIn(Body(r))
      BY <3>1, <3>5 DEF MayLogIn, With
    <3>7. \A v \in MayLogIn(Body(r)) : v = u
      BY <3>5 DEF MayLogIn, With, AccountsInv, UsersInv
    <3> QED
      BY <1>2, <1>3, <3>6, <3>7
  <2>3. KnownOf(r)' /\ ListGoneOf(r)' /\ ProgramGoneOf(r)' /\ MadeOf(r)' /\ ~Made(r)'
    BY <1>1, <1>3, <1>4
       DEF KnownOf, ListGoneOf, ProgramGoneOf, MadeOf, Made, Asks, OwnKinds
  <2> QED
    BY <2>1, <2>2, <2>3 DEF OwnFacts, ServedOf
<1> QED
  BY <1>1, <1>3, <1>6, RequestStep DEF AccountsInv

(* An account is closed: it keeps its number, its address and its program.    *)
LEMMA DeactivateStep ==
  ASSUME AccountsInv, IInv', NEW id, Deactivate(id)
  PROVE  AccountsInv'
<1>1. rows' = rows /\ req' = req /\ faults' \in 0..MaxFaults
  BY ApiAssumption DEF Deactivate, AccountsInv
<1>2. PICK f : f = [u \in users |-> IF u.id = id THEN [u EXCEPT !.active = FALSE] ELSE u]
  OBVIOUS
<1>3. users' = { f[u] : u \in users } /\ f = [u \in users |-> f[u]]
  BY <1>2 DEF Deactivate
<1>4. ASSUME NEW u \in users
      PROVE  /\ f[u] = [id |-> u.id, email |-> u.email, program |-> f[u].program,
                        active |-> f[u].active]
             /\ f[u].program \in Programs \cup {None} /\ f[u].active \in BOOLEAN
             /\ f[u].active => u.active
             /\ f[u].program = u.program \/ AskedNow(f[u])
  <2>1. UserOK(u) /\ u.program \in Programs \cup {None} /\ u.active \in BOOLEAN
    BY UserFields DEF AccountsInv, UsersInv
  <2>2. CASE f[u] = u
    BY <2>1, <2>2, ColumnChanges
  <2>3. CASE f[u] = [u EXCEPT !.active = FALSE]
    <3>1. f[u] = [id |-> u.id, email |-> u.email, program |-> u.program, active |-> FALSE]
      BY <2>1, <2>3, ColumnChanges
    <3> QED
      BY <2>1, <3>1
  <2> QED
    BY <1>2, <2>2, <2>3
<1>5. UsersInv' /\ AccountsKept
  BY <1>3, <1>4, UsersRevised DEF AccountsInv
<1>6. Passing
  BY <1>1, <1>5 DEF Passing
<1>7. \A q \in Requests : ServedOf(q)'
  BY <1>1, <1>6, OthersServed
<1>8. RowsInv'
  BY <1>1, <1>6, StillThere DEF AccountsInv, RowsInv
<1>9. Apart'
  BY <1>1 DEF AccountsInv, Apart, Made, Held, Asks, Answered, At, Body
<1> QED
  BY <1>1, <1>5, <1>7, <1>8, <1>9 DEF AccountsInv

(* Failures, and the cycle of waits that PostgreSQL ends.                     *)
LEMMA FailStep ==
  ASSUME AccountsInv, IInv', NEW r \in Requests, CallFails(r) \/ DeadlockDetected(r)
  PROVE  AccountsInv'
<1>1. CASE CallFails(r)
  <2>1. faults' \in 0..MaxFaults
    BY <1>1, ApiAssumption DEF CallFails, AccountsInv
  <2> QED
    BY <1>1, <2>1, RejectStep DEF CallFails
<1>2. CASE DeadlockDetected(r)
  <2>1. WaitsFor(r) # {}
    BY <1>2 DEF DeadlockDetected
  <2>2. req[r].pc \in { "locking", "inserting" }
    BY <2>1 DEF WaitsFor, At
  <2> QED
    <3>1. Reject(r, 500)
      BY <1>2 DEF DeadlockDetected
    <3> QED
      BY <2>2, <3>1, RejectStep DEF Reject, AccountsInv
<1> QED
  BY <1>1, <1>2

LEMMA NextAccounts == AccountsInv /\ [Next]_vars => AccountsInv'
<1> SUFFICES ASSUME AccountsInv, [Next]_vars PROVE AccountsInv'
  OBVIOUS
<1>1. IInv'
  BY NextIInv DEF AccountsInv
<1>2. CASE UNCHANGED vars
  <2>1. UsersInv' /\ AccountsKept
    BY <1>2, UsersUntouched DEF vars, AccountsInv
  <2>2. Passing
    BY <1>2, <2>1 DEF vars, Passing
  <2>3. \A q \in Requests : ServedOf(q)'
    BY <1>2, <2>2, OthersServed DEF vars
  <2>4. RowsInv' /\ Apart' /\ faults' \in 0..MaxFaults
    BY <1>2 DEF vars, AccountsInv, RowsInv, Apart, Account, Made, Held, Asks, Answered, At, Body
  <2> QED
    BY <1>1, <2>1, <2>3, <2>4 DEF AccountsInv
<1>3. CASE \E u \in users : Deactivate(u.id)
  BY <1>1, <1>3, DeactivateStep
<1>4. ASSUME NEW r \in Requests,
             \/ \E b \in Bodies[r] : Arrive(r, b)
             \/ Serve(r) \/ CallFails(r) \/ ReplyLost(r)
      PROVE  AccountsInv'
  BY <1>1, <1>4, ArriveStep, CurrentUserStep, LockStep, DeletedStep, RowStep, CommittedStep,
     LostReplyStep, AnsweredStep, ProgramStep, LookUpStep, CreateStep, RefreshStep, LogInStep,
     FailStep DEF Serve
<1> QED
  BY <1>2, <1>3, <1>4 DEF Next

LEMMA InitAccounts == Init => AccountsInv
<1> SUFFICES ASSUME Init PROVE AccountsInv
  OBVIOUS
<1>1. IInv
  BY InitIInv
<1>2. \A r \in Requests : req[r].pc = "idle" /\ req[r].after = {}
  BY DEF Init, Idle
<1>3. UsersInv
  BY AccountsAssumption DEF Init, UsersInv, UserOK
<1>4. RowsInv
  BY ApiAssumption, AccountsAssumption DEF Init, RowsInv, Account
<1>5. \A r \in Requests : ServedOf(r) /\ ~Made(r)
  BY <1>2 DEF ServedOf, PlaceOf, KnownOf, ListGoneOf, ProgramGoneOf, MadeOf, LogInOf, Made, Done,
              Answered, Asks, At
<1> QED
  BY <1>1, <1>3, <1>4, <1>5, ApiAssumption DEF Init, AccountsInv, Apart

(* What is claimed follows.                                                   *)
LEMMA AccountsInvType == AccountsInv => TypeOK
<1> SUFFICES ASSUME AccountsInv PROVE TypeOK
  OBVIOUS
<1>1. \A u \in users : u.program \in Programs \cup {None} /\ u.active \in BOOLEAN
  BY UserFields DEF AccountsInv, UsersInv
<1>2. ASSUME NEW r \in Requests
      PROVE  /\ req[r].pc \in PCs
             /\ ~At(r, "idle") => Body(r) \in Bodies[r]
             /\ req[r].pending \subseteq (IF Asks(r, "replace") THEN Wanted(r) ELSE {})
             /\ At(r, "answered") => req[r].status \in { 200, 400, 401, 422, 500 }
  <2>1. TransactionOf(r) /\ req[r].pc \in PCs /\ (req[r].pc # "idle" => Body(r) \in Bodies[r])
    BY DEF AccountsInv, IInv, Shape, Transactions
  <2>2. CASE req[r].pc = "inserting"
    <3>1. Body(r).items \in Seq(ToSet(Body(r).items)) /\ Asks(r, "replace")
      BY <2>1, <2>2, ApiAssumption DEF TransactionOf, Asks, At
    <3>2. 1..(req[r].next - 1) \subseteq DOMAIN Body(r).items
      BY <2>1, <2>2, <3>1 DEF TransactionOf
    <3> QED
      BY <2>1, <2>2, <3>1, <3>2 DEF TransactionOf, Inserted, Wanted, At
  <2>3. CASE req[r].pc # "inserting"
    BY <2>1, <2>3 DEF TransactionOf, AccountsInv, ServedOf, PlaceOf, At
  <2> QED
    BY <2>2, <2>3
<1> QED
  BY <1>1, <1>2 DEF AccountsInv, RowsInv, TypeOK, PCs

LEMMA AccountsInvGone == AccountsInv => SupersededGone
<1> SUFFICES ASSUME AccountsInv, NEW r \in Requests, Answered(r, 200)
             PROVE  /\ Asks(r, "replace") =>
                         \A t \in RowsOf(Body(r).user) : t.by # None /\ t.by \notin req[r].after
                    /\ Asks(r, "program") =>
                         \A u \in Account(Body(r).user) : SetSince(r, u)
  BY DEF SupersededGone, SetSince
<1>1. Done(r) /\ ServedOf(r) /\ req[r].pc # "idle"
  BY DEF Done, AccountsInv, Answered, At
<1> QED
  BY <1>1 DEF ServedOf, ListGoneOf, ProgramGoneOf, Older, Asks

LEMMA AccountsInvTruthful == AccountsInv => AccountsTruthful
<1> SUFFICES ASSUME AccountsInv PROVE AccountsTruthful
  OBVIOUS
<1>1. \A u, v \in users : u.email.name = v.email.name => u = v
  BY DEF AccountsInv, UsersInv
<1>2. ASSUME NEW r \in Requests, Answered(r, 200), Asks(r, "register")
      PROVE  \E u \in Account(req[r].answer) :
               /\ u.email.name = Body(r).address.name
               /\ \A q \in Requests :
                    /\ Asks(q, "register") /\ Answered(q, 200) /\ q # r => req[q].answer # u.id
                    /\ /\ Asks(q, "login") /\ r \in req[q].after /\ Body(q).right_password
                       /\ Body(q).address.name = u.email.name /\ u.active
                       /\ At(q, "answered")
                       => req[q].status = 500 \/ req[q].answer = u.id
  <2>1. \A q \in Requests : Answered(q, 200) /\ Asks(q, "register") =>
                              Made(q) /\ Held(q) = req[q].answer
    BY DEF Made, Held, Answered, At
  <2>2. PICK u \in Account(req[r].answer) : u.email.name = Body(r).address.name
    BY <1>2, <2>1 DEF AccountsInv, ServedOf, MadeOf
  <2>3. u.id = req[r].answer
    BY <2>2 DEF Account
  <2>4. ASSUME NEW q \in Requests, Asks(q, "register"), Answered(q, 200), q # r
        PROVE  req[q].answer # u.id
    BY <1>2, <2>1, <2>3, <2>4 DEF AccountsInv, Apart
  <2>5. ASSUME NEW q \in Requests, Asks(q, "login"), r \in req[q].after, Body(q).right_password,
               Body(q).address.name = u.email.name, u.active, At(q, "answered")
        PROVE  req[q].status = 500 \/ req[q].answer = u.id
    BY <1>2, <2>2, <2>5 DEF AccountsInv, ServedOf, LogInOf, Follows, At
  <2> QED
    BY <2>2, <2>4, <2>5
<1> QED
  BY <1>1, <1>2 DEF AccountsTruthful

LEMMA AlwaysAccounts == Spec => []AccountsInv
BY InitAccounts, NextAccounts, PTL DEF Spec

(* The tables refer to what exists, every request is where the handlers can be    *)
(* and is answered with one of their statuses.                                    *)
THEOREM TypeCorrect == Spec => []TypeOK
BY AlwaysAccounts, AccountsInvType, PTL

(* For any requests, in any order of their transactions: a replacement that was   *)
(* answered 200 has put an end to every row of the student, and every program,    *)
(* that was answered before it arrived.                                           *)
THEOREM SupersededListsGone == Spec => []SupersededGone
BY AlwaysAccounts, AccountsInvGone, PTL

(* For any registrations and log-ins, racing or not: one address is one account,  *)
(* each registration that succeeded has one of its own, and a log-in with the     *)
(* right password after it finds that one as long as it is active.                *)
THEOREM AccountsTellTheTruth == Spec => []AccountsTruthful
BY AlwaysAccounts, AccountsInvTruthful, PTL
=============================================================================
