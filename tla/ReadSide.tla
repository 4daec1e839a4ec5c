------------------------------ MODULE ReadSide ------------------------------
(***************************************************************************)
(* The functions of the system that only read: schedule conflicts, the     *)
(* context of a prompt, what the ingestion reads out of the scraped files, *)
(* and the queries over the catalogue, the graph and a student's record.   *)
(* A step asks one of them for an input it can be given; what it answers   *)
(* is compared with what the input says, told without the function.        *)
(***************************************************************************)
EXTENDS ContextBuilder, FiniteSetsExt

INSTANCE Schedule
INSTANCE CatalogParsing
INSTANCE CourseQueries

CONSTANTS
  Blank,           \* an empty course code in a list of codes
  MaxPrereqDepth,  \* _MAX_PREREQ_DEPTH
  MaxShown,        \* _MAX_DECISIONS
  MaxHits,         \* the ten courses the tool's vector search returns
  Lines,           \* what the texts of a context are made of
  Timetables, CodeLists,                              \* of find_schedule_conflicts
  Profiles, Summaries, Graphs, Intents, Budgets,      \* of build_context
  Programs, PrerequisiteTexts, Scrapes,               \* of the parsers
  Catalogues, Filters, Limits,                        \* of the listing
  PrerequisiteGraphs, RequirementSets, Records        \* of the other queries

(* What Postgres, Redis and Neo4j give is text, or nothing; the formatters add *)
(* lines of their own.                                                         *)
ASSUME ReadAssumption ==
  /\ { "program", "none", "course", "not found", "degree", "blank" } \subseteq Lines
  /\ None \notin Seq(Lines) /\ Budgets \subseteq Nat
  /\ \A summary \in Summaries : summary = None \/ summary \in Seq(Lines)
  /\ \A profile \in Profiles :
       profile = None \/ (profile.completed \in Seq(Lines) /\ profile.decisions \in Seq(Lines))
  /\ \A graph \in Graphs :
       \/ graph = None
       \/ /\ graph.courses \in Seq(Lines) /\ graph.edges \in Seq(Lines)
          /\ graph.requirements = None \/ graph.requirements \in Seq(Lines)

(* A section's schedule, before it is written down: days of the week, and times *)
(* on the clock that may be missing.                                            *)
Times == [hour : 1..12, minute : 0..59, marker : { "a", "p", None }] \cup {None}
Letters == UNION { ToSet(DayNames[day]) : day \in DOMAIN DayNames }

(* Courses are numbered in the order of their codes. *)
ASSUME TimetableAssumption ==
  /\ None \notin Seq([days : Seq(Letters), start : Times, end : Times])
  /\ None \notin [days : SUBSET ValidDayCodes, start : Nat, end : Nat]
  /\ None \notin [hour : 1..12, minute : 0..59, marker : { "a", "p", None }]
  /\ \A days \in SUBSET ValidDayCodes : None # days
  /\ None \notin { "a", "p" }
  /\ \A codes \in CodeLists : codes \in Seq(Int)
  /\ \A timetable \in Timetables : \A s \in timetable :
       /\ s.course \in Int
       /\ s.schedule = None \/ s.schedule \in Seq([days : Seq(DOMAIN DayNames), start : Times, end : Times])

IsSequence(s) == s \in Seq(ToSet(s))

(* What is scraped is listed in sequences; a mention has a number. *)
ASSUME CatalogueAssumption ==
  /\ None \notin Nat
  /\ \A ids \in Programs :
       /\ IsSequence(ids)
       /\ \A i \in DOMAIN ids :
            /\ ids[i].total \in BOOLEAN /\ ids[i].or \in BOOLEAN /\ ids[i].choose \in BOOLEAN
            /\ IsSequence(ids[i].segments)
            /\ \A segment \in ToSet(ids[i].segments) : IsSequence(segment)
  /\ \A text \in PrerequisiteTexts :
       /\ IsSequence(text.mentions)
       /\ \A m \in ToSet(text.mentions) : m.number # None
       /\ \A m, n \in ToSet(text.mentions) : Code(m.dept, n.number) # None
  /\ \A listings \in Scrapes :
       IsSequence(listings) /\ \A l \in ToSet(listings) : IsSequence(l.sections)

(* The rows of a table are finitely many and have a key; a query's limit is    *)
(* positive (ge=1), a requirement's courses are courses.                       *)
ASSUME QueryAssumption ==
  /\ MaxPrereqDepth \in Nat \ {0} /\ MaxShown \in Nat /\ MaxHits \in Nat /\ Limits \subseteq Nat \ {0}
  /\ None # "Open" /\ None # [program |-> None, completed |-> {}]
  /\ \A catalogue \in Catalogues :
       /\ IsFiniteSet(catalogue.sections)
       /\ \A c \in catalogue.courses : IsSequence(c.dept)
       /\ \A scan \in catalogue.scans :
            /\ IsSequence(scan) /\ ToSet(scan) = catalogue.courses
            /\ \A i, k \in DOMAIN scan : scan[i] = scan[k] => i = k
       /\ None \notin [items : SUBSET catalogue.courses, total : Nat]
  /\ \A f \in Filters : f.dept = None \/ IsSequence(f.dept)
  /\ \A requirements \in RequirementSets :
       /\ IsFiniteSet(requirements)
       /\ \A r \in requirements :
            /\ r = [sort_order |-> r.sort_order, courses |-> r.courses]
            /\ r.sort_order \in Int /\ None \notin r.courses
       /\ \A r, s \in requirements : r.sort_order = s.sort_order => r = s
  /\ \A decisions \in Records :
       /\ IsFiniteSet(decisions)
       /\ \A d \in decisions : d.at \in Int /\ d.id \in Int
       /\ \A d, e \in decisions : d.id = e.id => d = e

VARIABLES handler, input, answer

vars == << handler, input, answer >>

Init == handler = "idle" /\ input = None /\ answer = None

Ask(name, value, result) ==
  /\ handler' = name /\ input' = value /\ answer' = result

-----------------------------------------------------------------------------
(* Requests *)

(* A section's schedule is what it means; meets is how it is written. *)
Meets(schedule) ==
  IF schedule = None THEN None
  ELSE [i \in DOMAIN schedule |-> [schedule[i] EXCEPT !.days = Written(@)]]

FindScheduleConflicts(timetable, codes) ==
  LET sections == { [course |-> s.course, crn |-> s.crn, meets |-> Meets(s.schedule)] : s \in timetable } IN
  Ask("conflicts", [timetable |-> timetable, codes |-> codes],
      GetScheduleConflicts(sections, codes, Blank))

AskForContext(profile, summary, intent, embedded, graph, max_tokens) ==
  Ask("context",
      [profile |-> profile, summary |-> summary, intent |-> intent, embedded |-> embedded,
       graph |-> graph, max_tokens |-> max_tokens],
      BuildContext(intent, profile, embedded, graph, summary, max_tokens))

ReadRequirements(ids) ==
  Ask("requirements", ids, [rows |-> ParseRequirements(ids), count |-> RequirementCount(ids)])

ReadPrerequisites(text) == Ask("prerequisites", text, ParsePrerequisites(text.source_code, text))

ReadClasses(listings) == Ask("classes", listings, ParseClasses(listings))

(* A student pages forward to the end; each request visits the courses in an *)
(* order of its own.                                                         *)
BrowseCourses(catalogue, f, limit) ==
  LET Shown(scan, offset) == ListCourses(scan, catalogue.sections, f, offset, limit)
      Told(orders, result) ==
        Ask("browse", [catalogue |-> catalogue, filter |-> f, limit |-> limit, orders |-> orders], result)
  IN \E scan \in catalogue.scans :
       LET first == Shown(scan, 0) IN
       \/ first = None /\ Told(<< >>, None)
       \/ /\ first # None
          /\ \E orders \in [OffsetsVisited(limit, first.total) -> catalogue.scans] :
               /\ orders[0] = scan
               /\ Told(orders, [total |-> first.total,
                                pages |-> [o \in DOMAIN orders |-> Shown(orders[o], o).items]])

OpenCourse(catalogue, id) ==
  Ask("course", [catalogue |-> catalogue, id |-> id],
      [tool |-> LookupCourse(catalogue.courses, catalogue.sections, id),
       status |-> AggregateStatus({ s.status : s \in { t \in catalogue.sections : t.course = id } })])

(* An order of the courses stands for the ranking of the vector index. *)
FindCourses(catalogue, f) ==
  \E ranking \in catalogue.scans :
    Ask("search", [ranking |-> ranking, filter |-> f],
        SearchCourses(ranking, MaxHits, f.dept, f.mode))

CheckPrerequisites(edges, code) ==
  Ask("chain", [edges |-> edges, code |-> code], PrerequisiteChain(edges, code, MaxPrereqDepth))

ShowRequirements(requirements) ==
  Ask("degree", requirements,
      [tool |-> DegreeRequirements(requirements), page |-> ListRequirements(requirements)])

ShowStudent(decisions) ==
  Ask("student", decisions,
      [page |-> RecentDecisions(decisions, MaxShown),
       profile |-> StudentData([program |-> None, completed |-> {}], decisions)])

Answered == handler # "idle" /\ handler' = "idle" /\ input' = None /\ answer' = None

AskAnything ==
  \/ \E timetable \in Timetables, codes \in CodeLists : FindScheduleConflicts(timetable, codes)
  \/ \E profile \in Profiles, summary \in Summaries, intent \in Intents, embedded \in BOOLEAN,
        graph \in Graphs, max_tokens \in Budgets :
       AskForContext(profile, summary, intent, embedded, graph, max_tokens)
  \/ \E ids \in Programs : ReadRequirements(ids)
  \/ \E text \in PrerequisiteTexts : ReadPrerequisites(text)
  \/ \E listings \in Scrapes : ReadClasses(listings)
  \/ \E catalogue \in Catalogues, f \in Filters, limit \in Limits : BrowseCourses(catalogue, f, limit)
  \/ \E catalogue \in Catalogues : \E c \in catalogue.courses : OpenCourse(catalogue, c.id)
  \/ \E catalogue \in Catalogues, f \in Filters : FindCourses(catalogue, f)
  \/ \E edges \in PrerequisiteGraphs : \E code \in { e.from : e \in edges } : CheckPrerequisites(edges, code)
  \/ \E requirements \in RequirementSets : ShowRequirements(requirements)
  \/ \E decisions \in Records : ShowStudent(decisions)

Next == (handler = "idle" /\ AskAnything) \/ Answered

Spec == Init /\ [][Next]_vars

-----------------------------------------------------------------------------
(* Schedule conflicts *)

MinutesOf(s) == IF s.schedule = None THEN {} ELSE UNION { Occupied(slot) : slot \in ToSet(s.schedule) }

SharedDays(s, t) == { minute[1] : minute \in MinutesOf(s) \cap MinutesOf(t) }

(* find_schedule_conflicts reports exactly the pairs of sections of two      *)
(* listed courses that are in class during a common minute of the week, each *)
(* once, with the days on which they are: through the two-letter day codes,  *)
(* the markers a start inherits, noon and midnight, several slots a section, *)
(* repeated and blank codes, and sections without a time.                    *)
ConflictsExact ==
  handler = "conflicts" =>
    LET listed == { s \in input.timetable : s.course \in ToSet(input.codes) \ {Blank} }
        clashes == { p \in listed \X listed : p[1].course < p[2].course /\ SharedDays(p[1], p[2]) # {} }
    IN answer = { [course_a |-> p[1].course, crn_a |-> p[1].crn, course_b |-> p[2].course,
                   crn_b |-> p[2].crn, overlap_days |-> SharedDays(p[1], p[2])] : p \in clashes }

-----------------------------------------------------------------------------
(* The context of a prompt *)

ContextSources ==
  << IF input.profile = None THEN None ELSE FormatStudentProfile(input.profile), input.summary,
     Retrieve(input.intent, input.profile, input.embedded, input.graph) >>

Present == { i \in 1..3 : ContextSources[i] \notin { None, << >> } }

(* The characters that the sections up to the i-th take when none is cut. *)
Needed(i) ==
  LET taken(k) == IF k \in Present /\ k <= i
                    THEN Overhead[Tags[k]] + Len(ContextSources[k]) + SeparatorChars ELSE 0
  IN taken(1) + taken(2) + taken(3) - SeparatorChars

(* The context keeps to its budget, but for the remark on a section that is  *)
(* cut down to nothing.                                                      *)
WithinBudget ==
  LET max_chars == input.max_tokens * CharsPerToken IN
  \/ TotalChars(answer) <= max_chars
  \/ /\ Last(answer).cut /\ Last(answer).text = << >>
     /\ TotalChars(answer) < max_chars + SuffixChars

(* What fits with all that comes before it is there in full; what is there   *)
(* is in the order of priority and begins as its source does; nothing comes  *)
(* after a section that was cut.                                             *)
Prioritised ==
  LET at == [k \in DOMAIN answer |-> CHOOSE i \in 1..3 : Tags[i] = answer[k].tag] IN
  /\ \A i \in Present : Needed(i) <= input.max_tokens * CharsPerToken =>
        \E k \in DOMAIN answer : answer[k] = Whole(Tags[i], ContextSources[i])
  /\ \A k \in DOMAIN answer :
        /\ at[k] \in Present /\ IsPrefix(answer[k].text, ContextSources[at[k]])
        /\ k > 1 => at[k - 1] < at[k]
        /\ answer[k].cut => k = Len(answer)

(* A source that fails takes no other section with it. *)
FailuresAlone ==
  /\ input.graph = None => \A k \in DOMAIN answer : answer[k].tag # "retrieved_context"
  /\ input.profile # None /\ Needed(1) <= input.max_tokens * CharsPerToken =>
       answer # << >> /\ answer[1].tag = "user_profile"

(* build_context returns what fits of what could be fetched: see the three   *)
(* parts above.                                                              *)
ContextFits == handler = "context" => WithinBudget /\ Prioritised /\ FailuresAlone

-----------------------------------------------------------------------------
(* What is read from the scraped files *)

(* The course that a part of an id means: its own department or the nearest  *)
(* before it, its own number or the nearest after it.                        *)
Meant(segment, i) ==
  LET depts == { k \in 1..i : segment[k].dept # None }
      numbers == { k \in i..Len(segment) : segment[k].number # None }
  IN Code(segment[Max(depts)].dept, segment[Min(numbers)].number)

AllMeant(segment) == [i \in DOMAIN segment |-> Meant(segment, i)]

(* Written as the catalogue writes a course, or several for one number or    *)
(* one department.                                                           *)
Regular(segment) ==
  \/ IsCompact(segment)
  \/ Len(segment) >= 1 /\ IsFull(segment[1]) /\ \A i \in DOMAIN segment : segment[i].number # None

(* The courses that an id names, segment by segment. *)
Named(id) ==
  FlattenSeq([k \in DOMAIN id.segments |->
    IF Regular(id.segments[k]) THEN AllMeant(id.segments[k]) ELSE << >>])

(* The ids that give no course: a program's total, a choice left to the      *)
(* student, an id with no code in it; and two that do name courses, which the *)
(* parser does not read: an alternative of several courses ("orCSCI 1300 &   *)
(* 1310"), and several courses of one department on their own ("ECEN         *)
(* 4322/5322", which _expand_segment's comment speaks of).                  *)
GivesNone(id) ==
  LET alone == Len(id.segments) = 1 IN
  \/ id.total
  \/ alone /\ id.choose /\ ~id.or
  \/ \A k \in DOMAIN id.segments : ~HasCode(id.segments[k])
  \/ ~alone /\ id.or
  \/ alone /\ ~id.or /\ \E k \in DOMAIN id.segments[1] : id.segments[1][k].dept = None

(* A row gives exactly the courses its id names, in order, but for the two   *)
(* forms above; an alternative points to the row it is an alternative to,    *)
(* past other alternatives; the total of a program is no requirement.        *)
RequirementsRead ==
  handler = "requirements" =>
    /\ \A i \in DOMAIN input :
         answer.rows[i].course_codes = IF GivesNone(input[i]) THEN << >> ELSE Named(input[i])
    /\ \A i \in DOMAIN input : input[i].or /\ ~input[i].total =>
         LET p == answer.rows[i].or_predecessor_position IN
         IF p = None THEN \A k \in 1..(i - 1) : input[k].or \/ input[k].total
         ELSE /\ p < i /\ ~input[p].or /\ ~input[p].total
              /\ \A k \in (p + 1)..(i - 1) : input[k].or \/ input[k].total
    /\ answer.count = Cardinality({ i \in DOMAIN input : ~input[i].total })

(* Every course a prerequisite text mentions after a department is an edge,  *)
(* and nothing else is: never the course itself.                             *)
PrerequisitesRead ==
  handler = "prerequisites" =>
    LET m == input.mentions
        pairs == { q \in (DOMAIN m) \X (DOMAIN m) :
                     /\ q[1] <= q[2] /\ m[q[1]].dept # None
                     /\ \A j \in (q[1] + 1)..q[2] : m[j].dept = None }
        meant == { Meant(<< m[q[1]], [dept |-> None, number |-> m[q[2]].number] >>, 2) : q \in pairs }
    IN { e.target_code : e \in answer } = IF input.unparseable THEN {} ELSE meant \ {input.source_code}

(* Every listing of a code is merged into one course, no section of any is   *)
(* lost, and none is there twice.                                            *)
ClassesRead ==
  handler = "classes" =>
    /\ { c.code : c \in answer.courses } = { l.code : l \in ToSet(input) }
    /\ \A c, d \in answer.courses : c.code = d.code => c = d
    /\ { << s.course_code, s.crn >> : s \in answer.sections }
         = UNION { { << l.code, s.crn >> : s \in ToSet(l.sections) } : l \in ToSet(input) }
    /\ \A s, t \in answer.sections :
         s.course_code = t.course_code /\ s.crn = t.crn => s = t
    /\ \A i \in DOMAIN input :
         (\E c \in answer.courses : c.code = input[i].code /\ c.title = input[i].title)
         \/ \E k \in 1..(i - 1) : input[k].code = input[i].code

(* What the parsers of the ingestion read is what the files say: see the     *)
(* three parts above.                                                        *)
CatalogueRead == RequirementsRead /\ PrerequisitesRead /\ ClassesRead

-----------------------------------------------------------------------------
(* Queries *)

Wanted == { c \in input.catalogue.courses :
              /\ Matches(c, input.filter)
              /\ input.filter.status # None =>
                   \E s \in input.catalogue.sections : s.course = c.id /\ s.status = input.filter.status }

(* Paging forward through a listing counts the courses that match and shows  *)
(* only those, at most `limit' at a time.  Without a section status every    *)
(* page is full, and as long as the requests visit the courses in one order, *)
(* which the query does not ask for, every course that matches is shown.     *)
BrowsedExactly ==
  handler = "browse" =>
    IF input.filter.level \notin DOMAIN LevelRanges \cup {None} THEN answer = None
    ELSE LET pages == answer.pages
             full == IF input.limit <= answer.total THEN input.limit ELSE answer.total
         IN /\ answer.total = Cardinality(Wanted)
            /\ \A o \in DOMAIN pages : pages[o] \subseteq Wanted /\ Cardinality(pages[o]) <= input.limit
            /\ input.filter.status = None =>
                 /\ \A o \in DOMAIN pages : Cardinality(pages[o]) = full
                 /\ (\A o, p \in DOMAIN pages : input.orders[o] = input.orders[p]) =>
                      Wanted \subseteq UNION { pages[o] : o \in DOMAIN pages }

(* The tool and the course page agree on whether a course has open sections. *)
AvailabilityAgrees ==
  handler = "course" =>
    (answer.tool.open_sections > 0) = (answer.status = "Open")

(* Courses at most `steps' prerequisites away. *)
Within(edges, code, steps) ==
  LET reached[k \in 0..steps] ==
        IF k = 0 THEN {code} ELSE reached[k - 1] \cup { e.to : e \in { x \in edges : x.from \in reached[k - 1] } }
  IN reached[steps]

(* check_prerequisites answers every edge whose course is fewer than five    *)
(* prerequisites away, and no other, also where prerequisites form a cycle.  *)
ChainComplete ==
  handler = "chain" =>
    answer = { e \in input.edges : e.from \in Within(input.edges, input.code, MaxPrereqDepth - 1) }

(* Each requirement once, in the program's order, with all its courses; the  *)
(* tool and the program's page agree on the order.                           *)
DegreeGrouped ==
  handler = "degree" =>
    /\ ToSet(answer.tool) = { [sort_order |-> r.sort_order, courses |-> r.courses] : r \in input }
    /\ \A i, k \in DOMAIN answer.tool : i < k => answer.tool[i].sort_order < answer.tool[k].sort_order
    /\ answer.tool = answer.page

(* No decision left out is newer than one that is shown, and the prompt's    *)
(* profile lists every one, the newest first.                                *)
NewestShown ==
  handler = "student" =>
    LET page == answer.page
        profile == answer.profile.decisions
    IN /\ Len(page) = IF Cardinality(input) <= MaxShown THEN Cardinality(input) ELSE MaxShown
       /\ ToSet(page) \subseteq input
       /\ \A d \in ToSet(page), e \in input \ ToSet(page) : d.at >= e.at
       /\ ToSet(profile) = input
       /\ \A i, k \in DOMAIN profile : i < k => profile[i].at >= profile[k].at

(* A course the tool leaves out ranks below the hits, or is filtered out:    *)
(* its code does not begin as the department given, or its mode is another.  *)
HitsFiltered ==
  handler = "search" =>
    \A i \in DOMAIN input.ranking :
      LET c == input.ranking[i]
          code == Append(c.dept, c.number)
          dept == input.filter.dept
      IN c \in ToSet(answer) <=>
           /\ i <= MaxHits /\ input.filter.mode \in { None, c.mode }
           /\ dept # None => \A k \in 1..Len(dept) : k <= Len(code) /\ code[k] = dept[k]

(* The queries show what is stored: see the six parts above. *)
QueriesExact ==
  BrowsedExactly /\ AvailabilityAgrees /\ ChainComplete /\ DegreeGrouped
  /\ NewestShown /\ HitsFiltered
=============================================================================
