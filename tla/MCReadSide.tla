----------------------------- MODULE MCReadSide -----------------------------
EXTENDS ReadSide

(* The code's tags, in characters. *)
MCOverhead == [user_profile |-> 29, conversation_summary |-> 45, retrieved_context |-> 39]

(* Times around noon and midnight; courses 1 and 2, and a third without     *)
(* sections; 0 is a blank code.                                             *)
At(hour, minute, marker) == [hour |-> hour, minute |-> minute, marker |-> marker]
Starts == { At(11, 0, "a"), At(12, 0, "p"), At(12, 30, None), At(1, 0, None), At(12, 0, "a"), None }
Ends == { At(11, 30, "a"), At(12, 30, "p"), At(1, 50, "p"), At(1, 0, None) }
Slots == [days : { << "M", "W" >>, << "T", "R" >>, << "R" >>, << "S" >> }, start : Starts, end : Ends]
TwoSlots == << [days |-> << "M" >>, start |-> At(9, 0, "a"), end |-> At(12, 0, "p")],
               [days |-> << "R", "U" >>, start |-> At(1, 0, None), end |-> At(2, 30, "p")] >>
Schedules == { << s >> : s \in Slots }
MCTimetables ==
  { { [course |-> 1, crn |-> 11, schedule |-> a], [course |-> 2, crn |-> 21, schedule |-> b],
      [course |-> 2, crn |-> 22, schedule |-> c], [course |-> 1, crn |-> 12, schedule |-> TwoSlots] } :
        a \in Schedules, b \in Schedules, c \in { None, TwoSlots } }
MCCodeLists == { << 2, 1, 0, 1 >>, << 1, 1, 0 >> }

Entries(n) == [i \in 1..n |-> ToString(i)]
MCLines == STRING
MCProfiles ==
  {None} \cup { [program |-> p, completed |-> Entries(n), decisions |-> Entries(d)] :
                  p \in { None, "BA" }, n \in { 0, 8, 40 }, d \in { 0, 12 } }
MCSummaries == { None, << >>, Entries(12), Entries(60) }
MCGraphs ==
  {None} \cup [courses : { << >>, Entries(20) }, edges : { << >>, Entries(30) }, requirements : { None, Entries(25) }]
MCIntents == { "course_search", "prereq_check", "degree_planning", "schedule_help" }
MCBudgets == { 0, 7, 8, 10, 12, 14, 19, 21, 23, 24, 26, 31, 34, 38, 45, 60 }

Part(dept, number) == [dept |-> dept, number |-> number]
Row(segments) == [total |-> FALSE, or |-> FALSE, choose |-> FALSE, segments |-> segments]
MATH == << Part("MATH", 2130) >>
Compact == << Part("MATH", None), Part("STAT", 4520) >>
Expanded2 == << Part("APPM", 3570), Part("STAT", 3100) >>
SameDept == << Part("ECEN", 4322), Part(None, 5322) >>
Mixed == << Part("ATOC", None), Part("ENVS", 3600), Part("GEOG", 3601) >>
Ids ==
  { Row(<< MATH >>), Row(<< Compact >>), Row(<< Expanded2 >>), Row(<< Mixed >>), Row(<< << >> >>),
    Row(<< SameDept, Compact >>), Row(<< MATH, Mixed >>), Row(<< SameDept >>),
    [Row(<< << >> >>) EXCEPT !.total = TRUE], [Row(<< MATH >>) EXCEPT !.choose = TRUE],
    [Row(<< MATH >>) EXCEPT !.or = TRUE], [Row(<< SameDept >>) EXCEPT !.or = TRUE],
    [Row(<< MATH, MATH >>) EXCEPT !.or = TRUE] }
MCPrograms == UNION { [1..n -> Ids] : n \in 1..3 }

Mentions == { Part("CSCI", 2270), Part("APPM", 1360), Part(None, 2270), Part(None, 3225) }
MCPrerequisiteTexts ==
  [mentions : UNION { [1..n -> Mentions] : n \in 0..4 }, unparseable : BOOLEAN, corequisite : BOOLEAN,
   min_grade : {None}, source_code : { << "CSCI", 2270 >>, << "CSCI", 3225 >> }]

ASection(crn, status) == [crn |-> crn, status |-> status]
MCScrapes ==
  UNION { [1..n -> [code : { 1, 2 }, title : { "x", "y" },
                    sections : { << >>, << ASection(7, "Open"), ASection(7, "Closed") >>,
                                 << ASection(8, "Open"), ASection(7, "Closed") >> }]] : n \in 1..3 }

ACourse(id, dept, number, mode) ==
  [id |-> id, dept |-> dept, number |-> number, mode |-> mode, credits |-> 3, words |-> {"data"}]
CSCI == << "CS", "CI" >>
FiveCourses == { ACourse(1, CSCI, 1300, "p"), ACourse(2, CSCI, 2999, "o"), ACourse(3, << "CS", "EB" >>, 3000, "p"),
                 ACourse(4, << "MA", "TH" >>, 4999, "p"), ACourse(5, << "MA", "TH" >>, 5000, "o") }
Of(course, crn, status) == [course |-> course, crn |-> crn, status |-> status]
(* Two orders of the courses: the order of their ids and any other. *)
ById == SetToSortSeq(FiveCourses, LAMBDA c, d : c.id < d.id)
MCCatalogues ==
  [courses : { FiveCourses }, scans : { { ById, scan } : scan \in SetToSeqs(FiveCourses) },
   sections : { {}, { Of(1, 1, "Open"), Of(1, 2, "Open"), Of(2, 3, "Open"), Of(2, 4, "Closed"), Of(4, 5, "Waitlist") } }]
NoFilter == [dept |-> None, level |-> None, mode |-> None, credits |-> None, q |-> None, status |-> None]
MCFilters ==
  { NoFilter, [NoFilter EXCEPT !.dept = CSCI], [NoFilter EXCEPT !.dept = << "CS" >>], [NoFilter EXCEPT !.level = "undergrad_lower"],
    [NoFilter EXCEPT !.level = "graduate", !.mode = "o"], [NoFilter EXCEPT !.level = "phd"],
    [NoFilter EXCEPT !.mode = "p", !.q = "data"], [NoFilter EXCEPT !.status = "Open"],
    [NoFilter EXCEPT !.dept = CSCI, !.status = "Closed"] }

(* Prerequisites over six courses, with a chain of five, cycles and shortcuts. *)
Edge(from, to, type) == [from |-> from, to |-> to, type |-> type]
MCPrerequisiteGraphs ==
  SUBSET { Edge(1, 2, "prerequisite"), Edge(2, 3, "prerequisite"), Edge(3, 4, "prerequisite"),
           Edge(4, 5, "prerequisite"), Edge(5, 6, "prerequisite"), Edge(6, 7, "prerequisite"),
           Edge(2, 1, "prerequisite"), Edge(1, 4, "corequisite"), Edge(4, 4, "prerequisite") }

Requirement(order, courses) == [sort_order |-> order, courses |-> courses]
MCRequirementSets ==
  { { Requirement(1, a), Requirement(4, b), Requirement(2, c) } : a, b, c \in SUBSET { 1, 2 } }

MCRecords == { { [id |-> i, course |-> i, at |-> f[i]] : i \in 1..n } : n \in 0..4, f \in [1..4 -> 1..3] }
=============================================================================
