--------------------------- MODULE CatalogParsing ---------------------------
(***************************************************************************)
(* What the ingestion reads out of the scraped catalogue: course codes in  *)
(* requirement rows (ingest_requirements.py), prerequisites in prose       *)
(* (parse_prerequisites.py), courses and sections (ingest_courses.py).     *)
(*                                                                         *)
(* The id of a requirement row is a record: whether it begins with "or",   *)
(* whether it says choose or select, and its segments, between "&".  A     *)
(* segment is the sequence of its parts, between "/": each has a           *)
(* department, a number or both; "MATH/STAT 4520" has the parts            *)
(* [MATH, None] and [STAT, 4520].  Prose has no parts.                     *)
(***************************************************************************)
EXTENDS Integers, Sequences, FiniteSets, SequencesExt

CONSTANT None

Code(dept, number) == << dept, number >>
IsFull(part) == part.dept # None /\ part.number # None
IsDept(part) == part.dept # None /\ part.number = None
IsBare(part) == part.dept = None /\ part.number # None

HasCode(segment) == \E i \in DOMAIN segment : IsFull(segment[i])
IsCode(segment) == Len(segment) = 1 /\ IsFull(segment[1])

(* "MATH/STAT 4520" *)
IsCompact(segment) == Len(segment) >= 2 /\ IsFull(Last(segment)) /\ \A i \in 1..(Len(segment) - 1) : IsDept(segment[i])

(* "APPM 3570/STAT 3100" *)
IsExpanded(segment) == Len(segment) >= 2 /\ \A i \in DOMAIN segment : IsFull(segment[i])

(* The first match wins. *)
ClassifyRequirement(id) ==
  LET alone == Len(id.segments) = 1 IN
  CASE id.total -> "total_credits"
    [] ~id.total /\ id.or -> "or_alternative"
    [] ~id.total /\ ~id.or /\ ~alone /\ (\E i \in DOMAIN id.segments : HasCode(id.segments[i])) -> "corequisite_bundle"
    [] OTHER -> CASE id.choose -> "choose_n"
                  [] ~id.choose /\ alone /\ (IsCompact(id.segments[1]) \/ IsExpanded(id.segments[1])) -> "cross_listed"
                  [] ~id.choose /\ alone /\ IsCode(id.segments[1]) -> "required"
                  [] OTHER -> "elective"

(* Mutant: a bare number takes the first department. *)
FirstDept(segment, i) == segment[1].dept

LastDept(segment, i) ==
  LET full == { k \in 1..i : IsFull(segment[k]) } IN
  IF full = {} THEN None ELSE segment[CHOOSE k \in full : \A l \in full : l <= k].dept

ExpandSegment(segment) ==
  CASE ~HasCode(segment) -> << >>
    [] IsCompact(segment) -> [i \in DOMAIN segment |-> Code(segment[i].dept, Last(segment).number)]
    [] HasCode(segment) /\ ~IsCompact(segment) ->
         IF \A i \in DOMAIN segment : IsFull(segment[i]) \/ (IsBare(segment[i]) /\ LastDept(segment, i) # None)
           THEN [i \in DOMAIN segment |-> Code(LastDept(segment, i), segment[i].number)]
           ELSE << >>

(* Only a bundle is split at "&"; any other id with one in it is no code. *)
ParseCourseCodes(id) ==
  CASE ClassifyRequirement(id) \in { "total_credits", "choose_n", "elective" } -> << >>
    [] ClassifyRequirement(id) = "corequisite_bundle" ->
         FlattenSeq([i \in DOMAIN id.segments |-> ExpandSegment(id.segments[i])])
    [] OTHER -> IF Len(id.segments) = 1 THEN ExpandSegment(id.segments[1]) ELSE << >>

(* An or-alternative points to the last row that is neither another one nor  *)
(* the total of the program.                                                 *)
OrPredecessor(ids, i) ==
  LET earlier == { k \in 1..(i - 1) :
                     ClassifyRequirement(ids[k]) \notin { "or_alternative", "total_credits" } }
  IN IF ClassifyRequirement(ids[i]) # "or_alternative" \/ earlier = {} THEN None
     ELSE CHOOSE k \in earlier : \A l \in earlier : l <= k

ParseRequirements(ids) ==
  [i \in DOMAIN ids |->
     [position |-> i, requirement_type |-> ClassifyRequirement(ids[i]),
      course_codes |-> ParseCourseCodes(ids[i]), or_predecessor_position |-> OrPredecessor(ids, i)]]

RequirementCount(ids) == Cardinality({ i \in DOMAIN ids : ClassifyRequirement(ids[i]) # "total_credits" })

-----------------------------------------------------------------------------
(* Prerequisites: the courses a text mentions, from left to right, in full   *)
(* ("CSCI 2270") or by number alone ("or 2275"), and what else it says.      *)

Expanded(mentions, i) ==
  IF IsFull(mentions[i]) THEN Code(mentions[i].dept, mentions[i].number)
  ELSE IF LastDept(mentions, i) = None THEN None ELSE Code(LastDept(mentions, i), mentions[i].number)

ExtractCourseCodes(text, source_code) ==
  { Expanded(text.mentions, i) : i \in DOMAIN text.mentions } \ { None, source_code }

ClassifyType(text) == IF text.corequisite THEN "corequisite" ELSE "prerequisite"

(* The edges of one course; a text without a full code gives none.  A course *)
(* mentioned in full twice gives its edge twice, which the load merges.      *)
ParsePrerequisites(source_code, text) ==
  IF text.unparseable \/ ~HasCode(text.mentions) THEN {}
  ELSE { [source_code |-> source_code, target_code |-> target, type |-> ClassifyType(text),
          min_grade |-> text.min_grade] : target \in ExtractCourseCodes(text, source_code) }

-----------------------------------------------------------------------------
(* Courses: one record a code, whose first listing gives its metadata; the   *)
(* sections of all its listings, by CRN, the first of each.                  *)

Titles(listings, code) == { l.title : l \in { k \in ToSet(listings) : k.code = code } }

FirstListings(listings) ==
  { i \in DOMAIN listings : \A k \in 1..(i - 1) : listings[k].code # listings[i].code }

(* A listing and the place of a section in it. *)
Places(listings) == UNION { {i} \X DOMAIN listings[i].sections : i \in DOMAIN listings }

Before(p, q) == p[1] < q[1] \/ (p[1] = q[1] /\ p[2] < q[2])

(* The CRN of a closed section comes with a remark in front of it. *)
SectionAt(listings, p) ==
  LET s == listings[p[1]].sections[p[2]] IN
  [course_code |-> listings[p[1]].code, crn |-> s.crn, status |-> s.status]

SameSection(s, t) == s.course_code = t.course_code /\ s.crn = t.crn

FirstByCrn(listings) ==
  { p \in Places(listings) :
      \A q \in Places(listings) :
        Before(q, p) => ~SameSection(SectionAt(listings, q), SectionAt(listings, p)) }

ParseClasses(listings) ==
  [courses |-> { [code |-> listings[i].code, title |-> listings[i].title,
                  topic_titles |-> IF Cardinality(Titles(listings, listings[i].code)) > 1
                                     THEN Titles(listings, listings[i].code) ELSE {}] :
                   i \in FirstListings(listings) },
   sections |-> { SectionAt(listings, p) : p \in FirstByCrn(listings) }]
=============================================================================
