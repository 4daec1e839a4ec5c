--------------------------- MODULE CourseQueries ----------------------------
(***************************************************************************)
(* The queries that show the catalogue and a student's record: the paged   *)
(* listing (routes/courses.py) with the search page's paging               *)
(* (courseStore.ts), a course and its availability, the prerequisite chain *)
(* and the degree requirements (neo4j_service.py), the student's record    *)
(* (postgres_service.py, routes/students.py).                              *)
(*                                                                         *)
(* Courses are [id, dept, number, mode, credits, words], sections          *)
(* [course, crn, status]; a department's name is a sequence of pieces, as  *)
(* << "CS", "CI" >>, and a course's code ends with its number.  Filters    *)
(* name departments in capitals.  PostgreSQL is external: where a query    *)
(* has no ORDER BY, `scan' is the order in which its plan visits the       *)
(* courses, and nothing makes two requests visit them in the same one.     *)
(***************************************************************************)
EXTENDS Integers, Sequences, FiniteSets, SequencesExt, FiniteSetsExt

CONSTANT None

LevelRanges ==
  [undergrad_lower |-> 1000..2999, undergrad_upper |-> 3000..4999, graduate |-> 5000..9999]

(* The elements of a finite set, one after the other as R ranks them. *)
InOrder(S, R) ==
  CHOOSE f \in SetToSeqs(S) : \A i, k \in DOMAIN f : i < k => << f[i], f[k] >> \in R

Ascending(numbers) == InOrder(numbers, { p \in numbers \X numbers : p[1] < p[2] })

-----------------------------------------------------------------------------
(* GET /api/courses; a filter that is None was not given *)

Matches(c, f) ==
  /\ f.dept = None \/ c.dept = f.dept
  /\ f.level = None \/ c.number \in LevelRanges[f.level]
  /\ f.mode = None \/ c.mode = f.mode
  /\ f.credits = None \/ c.credits = f.credits
  /\ f.q = None \/ f.q \in c.words

(* The join has a row for every section of the status. *)
JoinedRows(c, sections, status) ==
  IF status = None THEN 1
  ELSE Cardinality({ t \in sections : t.course = c.id /\ t.status = status })

Rows(scan, sections, f) ==
  FlattenSeq([i \in DOMAIN scan |->
    IF ~Matches(scan[i], f) THEN << >>
    ELSE [k \in 1..JoinedRows(scan[i], sections, f.status) |-> scan[i]]])

Page(rows, offset, limit) ==
  SubSeq(rows, offset + 1, IF Len(rows) <= offset + limit THEN Len(rows) ELSE offset + limit)

(* total counts courses, the page is cut from the rows of one request. *)
ListCourses(scan, sections, f, offset, limit) ==
  IF f.level # None /\ f.level \notin DOMAIN LevelRanges THEN None
  ELSE LET rows == Rows(scan, sections, f) IN
       [items |-> ToSet(Page(rows, offset, limit)), total |-> Cardinality(ToSet(rows))]

(* The search page: the next offset never goes past the last full page.      *)
AdvancePage(offset, limit, total, direction) ==
  LET last == IF total < limit THEN 0 ELSE total - limit
      next == offset + direction * limit
      capped == IF next > last THEN last ELSE next
  IN IF capped < 0 THEN 0 ELSE capped

NextPage(offset, limit, total) ==
  IF offset + limit < total THEN AdvancePage(offset, limit, total, 1) ELSE offset

(* The offsets a student visits who pages forward to the end. *)
OffsetsVisited(limit, total) ==
  LET visit[k \in 0..total] == IF k = 0 THEN 0 ELSE NextPage(visit[k - 1], limit, total)
  IN { visit[k] : k \in 0..total }

-----------------------------------------------------------------------------
(* One course *)

AggregateStatus(statuses) ==
  CASE statuses = {} -> None
    [] "Open" \in statuses -> "Open"
    [] "Open" \notin statuses /\ "Waitlist" \in statuses -> "Waitlist"
    [] OTHER -> "Closed"

ByCrn(sections) == InOrder(sections, { p \in sections \X sections : p[1].crn < p[2].crn })

(* The tool's answer: sections counted, three open ones shown. *)
LookupCourse(courses, sections, id) ==
  LET own == { s \in sections : s.course = id }
      open == { s \in own : s.status = "Open" }
      shown == IF Cardinality(open) <= 3 THEN Cardinality(open) ELSE 3
  IN IF ~\E c \in courses : c.id = id THEN None
     ELSE [total_sections |-> Cardinality(own), open_sections |-> Cardinality(open),
           sample_sections |-> SubSeq(ByCrn(open), 1, shown)]

CodeStartsWith(c, dept) == IsPrefix(dept, Append(c.dept, c.number))

(* The tool filters what the vector search returned, best first. *)
SearchCourses(ranked, limit, dept, mode) ==
  LET kept(c) == (dept = None \/ CodeStartsWith(c, dept)) /\ (mode = None \/ c.mode = mode) IN
  FlattenSeq([i \in 1..(IF Len(ranked) <= limit THEN Len(ranked) ELSE limit) |->
                IF kept(ranked[i]) THEN << ranked[i] >> ELSE << >>])

-----------------------------------------------------------------------------
(* The graph; edges are [from, to, type] *)

(* Paths that follow no edge twice, as MATCH finds them. *)
Trails(edges, code, depth) ==
  LET trails[k \in 1..depth] ==
        IF k = 1 THEN { << e >> : e \in { x \in edges : x.from = code } }
        ELSE UNION { { Append(t, e) : e \in { x \in edges \ ToSet(t) : x.from = Last(t).to } } :
                       t \in trails[k - 1] }
  IN UNION { trails[k] : k \in 1..depth }

(* Mutant: one hop less. *)
PrerequisiteChainShort(edges, code, depth) ==
  UNION { ToSet(t) : t \in Trails(edges, code, depth - 1) }

PrerequisiteChain(edges, code, depth) == UNION { ToSet(t) : t \in Trails(edges, code, depth) }

(* A row for every requirement and course that satisfies it, by sort_order;  *)
(* grouped again, a requirement without courses kept.                        *)
RequirementRows(requirements) ==
  UNION { { [sort_order |-> r.sort_order, course |-> c] :
              c \in IF r.courses = {} THEN {None} ELSE r.courses } : r \in requirements }

DegreeRequirements(requirements) ==
  LET rows == RequirementRows(requirements)
      orders == Ascending({ r.sort_order : r \in rows })
  IN [i \in DOMAIN orders |->
        [sort_order |-> orders[i],
         courses |-> { r.course : r \in { x \in rows : x.sort_order = orders[i] } } \ {None}]]

(* GET /api/programs/{id}/requirements reads the same rows from Postgres. *)
ListRequirements(requirements) ==
  InOrder(requirements, { p \in requirements \X requirements : p[1].sort_order < p[2].sort_order })

-----------------------------------------------------------------------------
(* The student's record; decisions are [id, course, at] *)

NewestFirst(decisions) ==
  InOrder(decisions, { p \in decisions \X decisions :
                         p[1].at > p[2].at \/ (p[1].at = p[2].at /\ p[1].id > p[2].id) })

(* GET /api/students/me shows the newest of them. *)
RecentDecisions(decisions, cap) ==
  LET sorted == NewestFirst(decisions) IN
  SubSeq(sorted, 1, IF Len(sorted) <= cap THEN Len(sorted) ELSE cap)

(* What the prompt's profile is made of; it leaves open which of two         *)
(* decisions of one moment comes first.                                      *)
StudentData(user, decisions) ==
  IF user = None THEN [program |-> None, completed |-> << >>, decisions |-> << >>]
  ELSE [program |-> user.program,
        completed |-> Ascending(user.completed),
        decisions |-> InOrder(decisions, { p \in decisions \X decisions : p[1].at >= p[2].at })]
=============================================================================
