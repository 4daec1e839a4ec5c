------------------------------ MODULE Schedule ------------------------------
(***************************************************************************)
(* Schedule conflicts (postgres_service.py): the meets text of a section   *)
(* is read into slots, and pairs of sections of different courses whose    *)
(* slots overlap are reported.                                             *)
(*                                                                         *)
(* A meets text is None, or the sequence of its slots as they are written: *)
(* the letters of the days and two times.  A written time is an hour of    *)
(* the 12-hour clock, minutes and a marker, a or p, that may be missing    *)
(* (None).  "TBA", blank and other texts are sequences of slots that do    *)
(* not parse.                                                              *)
(***************************************************************************)
EXTENDS Integers, Sequences, FiniteSets, SequencesExt

CONSTANT None

ValidDayCodes == { "M", "T", "W", "R", "F", "S", "U" }

(* The code that begins at a letter: two letters are tried first. *)
CodeAt(letters, i) ==
  LET next == IF i < Len(letters) THEN letters[i + 1] ELSE "" IN
  CASE letters[i] = "T" /\ next = "h" -> [day |-> "R", length |-> 2]
    [] letters[i] = "S" /\ next = "a" -> [day |-> "S", length |-> 2]
    [] letters[i] = "S" /\ next = "u" -> [day |-> "U", length |-> 2]
    [] OTHER -> [day |-> letters[i], length |-> 1]

(* The letter that ends a two-letter code begins none. *)
ParseDays(letters) ==
  LET begins == { i \in DOMAIN letters : i > 1 => CodeAt(letters, i - 1).length = 1 }
      days == { CodeAt(letters, i).day : i \in begins }
  IN IF letters = << >> \/ ~(days \subseteq ValidDayCodes) THEN None ELSE days

(* What _TIME_RE matches. *)
IsTime(t) == t # None /\ t.hour \in 1..12 /\ t.minute \in 0..59 /\ t.marker \in { "a", "p", None }

(* Mutant: noon and midnight are taken for hours like the others. *)
To24hNaive(hour, marker) == IF marker = "p" THEN hour + 12 ELSE hour

To24h(hour, marker) ==
  CASE marker = "a" -> IF hour = 12 THEN 0 ELSE hour
    [] marker = "p" -> IF hour = 12 THEN 12 ELSE hour + 12

(* The end must be marked; a start that is not takes the end's marker. *)
ParseMeetsSlot(slot) ==
  LET days == ParseDays(slot.days) IN
  IF days = None \/ ~IsTime(slot.end) \/ ~IsTime(slot.start) \/ slot.end.marker = None
    THEN None
    ELSE LET marker == IF slot.start.marker = None THEN slot.end.marker ELSE slot.start.marker
             start == To24h(slot.start.hour, marker) * 60 + slot.start.minute
             end == To24h(slot.end.hour, slot.end.marker) * 60 + slot.end.minute
         IN IF end <= start THEN None ELSE [days |-> days, start |-> start, end |-> end]

(* The slots that parse; where none does, the code answers None. *)
ParseMeets(meets) ==
  IF meets = None THEN {} ELSE { ParseMeetsSlot(slot) : slot \in ToSet(meets) } \ {None}

(* Strict: one class may begin as the other ends. *)
TimeOverlaps(a, b) == a.start < b.end /\ b.start < a.end

OverlapDays(slots_a, slots_b) ==
  UNION { p[1].days \cap p[2].days :
            p \in { q \in slots_a \X slots_b : TimeOverlaps(q[1], q[2]) } }

(* Sections are [course, crn, meets]; courses are ordered as their codes are. *)
GetScheduleConflicts(sections, codes, blank) ==
  LET deduped == ToSet(codes) \ {blank}
      usable == { s \in sections : s.course \in deduped /\ ParseMeets(s.meets) # {} }
      days(a, b) == OverlapDays(ParseMeets(a.meets), ParseMeets(b.meets))
  IN IF Cardinality(deduped) < 2 THEN {}
     ELSE { [course_a |-> p[1].course, crn_a |-> p[1].crn, course_b |-> p[2].course,
             crn_b |-> p[2].crn, overlap_days |-> days(p[1], p[2])] :
              p \in { q \in usable \X usable : /\ q[1].course < q[2].course
                                              /\ days(q[1], q[2]) # {} } }

-----------------------------------------------------------------------------
(* What a meets text says, told without the parser *)

DayNames ==
  [M |-> << "M" >>, T |-> << "T" >>, W |-> << "W" >>, R |-> << "T", "h" >>, F |-> << "F" >>,
   S |-> << "S", "a" >>, U |-> << "S", "u" >>]

(* CU's letters of a week's days, in any order. *)
Written(days) == FlattenSeq([i \in DOMAIN days |-> DayNames[days[i]]])

(* The hours of half a day, as a clock shows them. *)
Dial == << 12, 1, 2, 3, 4, 5, 6, 7, 8, 9, 10, 11 >>

MinutesAt(t, marker) ==
  { 60 * h + t.minute : h \in { k + (IF marker = "p" THEN 11 ELSE -1) :
                                 k \in { i \in DOMAIN Dial : Dial[i] = t.hour } } }

(* The minutes of the week a slot takes: an unmarked start is in the same    *)
(* half of the day as the end.                                               *)
Occupied(slot) ==
  IF slot.start = None \/ slot.end = None \/ slot.end.marker = None THEN {}
  ELSE LET marker == IF slot.start.marker = None THEN slot.end.marker ELSE slot.start.marker IN
       UNION { ToSet(slot.days) \X (p[1]..(p[2] - 1)) :
                 p \in MinutesAt(slot.start, marker) \X MinutesAt(slot.end, slot.end.marker) }
=============================================================================
