--------------------------- MODULE ReadSideProofs ---------------------------
(***************************************************************************)
(* What the read side answers is exact, for any timetable, catalogue,      *)
(* prerequisite text, graph, record and budget: the conflicts it reports,  *)
(* the context it builds, what the ingestion reads of the scraped files,   *)
(* and what the queries show.                                              *)
(***************************************************************************)
EXTENDS ReadSide, SequenceLemmas

(* A request that was just answered, by its handler. *)
LEMMA JustAsked ==
  ASSUME Next
  PROVE  /\ handler' = "conflicts" =>
              \E timetable \in Timetables, codes \in CodeLists : FindScheduleConflicts(timetable, codes)
         /\ handler' = "context" =>
              \E profile \in Profiles, summary \in Summaries, intent \in Intents, embedded \in BOOLEAN,
                 graph \in Graphs, max_tokens \in Budgets :
                AskForContext(profile, summary, intent, embedded, graph, max_tokens)
         /\ handler' = "requirements" => \E ids \in Programs : ReadRequirements(ids)
         /\ handler' = "prerequisites" => \E text \in PrerequisiteTexts : ReadPrerequisites(text)
         /\ handler' = "classes" => \E listings \in Scrapes : ReadClasses(listings)
         /\ handler' = "browse" =>
              \E catalogue \in Catalogues, f \in Filters, limit \in Limits : BrowseCourses(catalogue, f, limit)
         /\ handler' = "course" =>
              \E catalogue \in Catalogues : \E c \in catalogue.courses : OpenCourse(catalogue, c.id)
         /\ handler' = "search" => \E catalogue \in Catalogues, f \in Filters : FindCourses(catalogue, f)
         /\ handler' = "chain" =>
              \E edges \in PrerequisiteGraphs : \E code \in { e.from : e \in edges } :
                CheckPrerequisites(edges, code)
         /\ handler' = "degree" => \E requirements \in RequirementSets : ShowRequirements(requirements)
         /\ handler' = "student" => \E decisions \in Records : ShowStudent(decisions)
<1>1. Answered => handler' = "idle"
  BY DEF Answered
<1>2. \A timetable, codes : FindScheduleConflicts(timetable, codes) => handler' = "conflicts"
  BY DEF FindScheduleConflicts, Ask
<1>3. \A profile, summary, intent, embedded, graph, max_tokens :
        AskForContext(profile, summary, intent, embedded, graph, max_tokens) => handler' = "context"
  BY DEF AskForContext, Ask
<1>4. \A ids : ReadRequirements(ids) => handler' = "requirements"
  BY DEF ReadRequirements, Ask
<1>5. \A text : ReadPrerequisites(text) => handler' = "prerequisites"
  BY DEF ReadPrerequisites, Ask
<1>6. \A listings : ReadClasses(listings) => handler' = "classes"
  BY DEF ReadClasses, Ask
<1>7. \A catalogue, f, limit : BrowseCourses(catalogue, f, limit) => handler' = "browse"
  BY DEF BrowseCourses, Ask
<1>8. \A catalogue, id : OpenCourse(catalogue, id) => handler' = "course"
  BY DEF OpenCourse, Ask
<1>9. \A catalogue, f : FindCourses(catalogue, f) => handler' = "search"
  BY DEF FindCourses, Ask
<1>10. \A edges, code : CheckPrerequisites(edges, code) => handler' = "chain"
  BY DEF CheckPrerequisites, Ask
<1>11. \A requirements : ShowRequirements(requirements) => handler' = "degree"
  BY DEF ShowRequirements, Ask
<1>12. \A decisions : ShowStudent(decisions) => handler' = "student"
  BY DEF ShowStudent, Ask
<1>13. AskAnything \/ Answered
  BY DEF Next
<1> QED
  BY <1>1, <1>2, <1>3, <1>4, <1>5, <1>6, <1>7, <1>8, <1>9, <1>10, <1>11, <1>12, <1>13 DEF AskAnything

-----------------------------------------------------------------------------
(* When two sections meet at the same time: find_schedule_conflicts *)

(* The last minute of a day. *)
LastMinute == 24 * 60 - 1

(* A slot that lies within one day.                                            *)
WithinDay(slot) == slot.start \in 0..LastMinute /\ slot.end \in 0..LastMinute /\ slot.start < slot.end

(* A clock's hour is an hour of the day.                                       *)
LEMMA HourOfDay ==
  ASSUME NEW hour \in 1..12, NEW marker \in { "a", "p" }
  PROVE  To24h(hour, marker) \in 0..23
BY DEF To24h

(* And a minute of the hour a minute of the day.                               *)
LEMMA MinuteOfDay ==
  ASSUME NEW hour \in 0..23, NEW minute \in 0..59
  PROVE  hour * 60 + minute \in 0..LastMinute
BY DEF LastMinute

(* A slot that parses begins before it ends, on one day: "11:00-1:50p" does not    *)
(* parse into hours of the night (_parse_meets_slot).                              *)
THEOREM ParsedWithinDay ==
  ASSUME NEW slot, ParseMeetsSlot(slot) # None
  PROVE  WithinDay(ParseMeetsSlot(slot))
<1> DEFINE marker == IF slot.start.marker = None THEN slot.end.marker ELSE slot.start.marker
           start == To24h(slot.start.hour, marker) * 60 + slot.start.minute
           end == To24h(slot.end.hour, slot.end.marker) * 60 + slot.end.minute
<1>1. IsTime(slot.start) /\ IsTime(slot.end) /\ slot.end.marker # None
  BY DEF ParseMeetsSlot
<1>2. marker \in { "a", "p" } /\ slot.end.marker \in { "a", "p" }
  BY <1>1 DEF IsTime
<1>3. slot.start.hour \in 1..12 /\ slot.end.hour \in 1..12
  BY <1>1 DEF IsTime
<1>4. To24h(slot.start.hour, marker) \in 0..23 /\ To24h(slot.end.hour, slot.end.marker) \in 0..23
  BY <1>2, <1>3, HourOfDay
<1>5. slot.start.minute \in 0..59 /\ slot.end.minute \in 0..59
  BY <1>1 DEF IsTime
<1>6. start \in 0..LastMinute /\ end \in 0..LastMinute
  BY <1>4, <1>5, MinuteOfDay, Zenon
<1>7. ~(end <= start) /\ ParseMeetsSlot(slot) = [days |-> ParseDays(slot.days), start |-> start, end |-> end]
  BY DEF ParseMeetsSlot
<1> HIDE DEF start, end
<1>8. start < end
  BY <1>6, <1>7
<1> QED
  BY <1>6, <1>7, <1>8 DEF WithinDay

(* Two stretches of the day have a minute in common, the later of their        *)
(* beginnings, if and only if each begins before the other ends.               *)
LEMMA CommonMinute ==
  ASSUME NEW s \in 0..LastMinute, NEW e \in 0..LastMinute,
         NEW t \in 0..LastMinute, NEW f \in 0..LastMinute, s < e, t < f
  PROVE  s < f /\ t < e <=> \E m \in 0..LastMinute : m \in s..(e - 1) /\ m \in t..(f - 1)
<1>1. ASSUME s < f, t < e, s <= t
      PROVE  t \in s..(e - 1) /\ t \in t..(f - 1)
  BY <1>1 DEF LastMinute
<1>2. ASSUME s < f, t < e, t <= s
      PROVE  s \in s..(e - 1) /\ s \in t..(f - 1)
  BY <1>2 DEF LastMinute
<1>3. ASSUME NEW m \in 0..LastMinute, m \in s..(e - 1), m \in t..(f - 1)
      PROVE  s < f /\ t < e
  BY <1>3 DEF LastMinute
<1>4. ASSUME s < f, t < e PROVE \E m \in 0..LastMinute : m \in s..(e - 1) /\ m \in t..(f - 1)
  <2>1. CASE s <= t
    <3>1. t \in s..(e - 1) /\ t \in t..(f - 1)
      BY <1>1, <1>4, <2>1
    <3> QED
      BY <3>1, Zenon
  <2>2. CASE t <= s
    <3>1. s \in s..(e - 1) /\ s \in t..(f - 1)
      BY <1>2, <1>4, <2>2
    <3> QED
      BY <3>1, Zenon
  <2> QED
    BY <2>1, <2>2
<1> QED
  BY <1>3, <1>4, Zenon

(* The strict comparison of ends is right: two slots overlap if and only if some   *)
(* minute is in both, so that one class may begin as the other ends                *)
(* (_time_overlaps).                                                               *)
THEOREM OverlapIsCommonMinute ==
  ASSUME NEW a, NEW b, WithinDay(a), WithinDay(b)
  PROVE  TimeOverlaps(a, b) <=>
           \E m \in 0..LastMinute : m \in a.start..(a.end - 1) /\ m \in b.start..(b.end - 1)
<1>1. /\ a.start \in 0..LastMinute /\ a.end \in 0..LastMinute /\ a.start < a.end
      /\ b.start \in 0..LastMinute /\ b.end \in 0..LastMinute /\ b.start < b.end
  BY DEF WithinDay
<1>2. TimeOverlaps(a, b) <=> a.start < b.end /\ b.start < a.end
  BY DEF TimeOverlaps
<1> QED
  BY <1>1, <1>2, CommonMinute, Zenon

(* The minutes of the week of a parsed slot.                                   *)
Minutes(slot) == slot.days \X (slot.start..(slot.end - 1))

(* Two sections are reported on a day if and only if both are in class during a    *)
(* common minute of that day, in any of their slots (_overlap_days).               *)
THEOREM OverlapDaysExact ==
  ASSUME NEW slots_a, NEW slots_b,
         \A slot \in slots_a \cup slots_b : WithinDay(slot)
  PROVE  \A day : day \in OverlapDays(slots_a, slots_b) <=>
           \E a \in slots_a, b \in slots_b, m \in 0..LastMinute :
             << day, m >> \in Minutes(a) /\ << day, m >> \in Minutes(b)
<1> SUFFICES ASSUME NEW day
             PROVE  day \in OverlapDays(slots_a, slots_b) <=>
                      \E a \in slots_a, b \in slots_b, m \in 0..LastMinute :
                        << day, m >> \in Minutes(a) /\ << day, m >> \in Minutes(b)
  OBVIOUS
<1>1. day \in OverlapDays(slots_a, slots_b) <=>
        \E a \in slots_a, b \in slots_b : TimeOverlaps(a, b) /\ day \in a.days /\ day \in b.days
  <2> DEFINE pairs == { q \in slots_a \X slots_b : TimeOverlaps(q[1], q[2]) }
  <2>1. ASSUME NEW a \in slots_a, NEW b \in slots_b, TimeOverlaps(a, b)
        PROVE  << a, b >> \in pairs /\ << a, b >>[1] = a /\ << a, b >>[2] = b
    BY <2>1
  <2>2. ASSUME NEW p \in pairs
        PROVE  p[1] \in slots_a /\ p[2] \in slots_b /\ TimeOverlaps(p[1], p[2])
    OBVIOUS
  <2>3. day \in OverlapDays(slots_a, slots_b) <=> \E p \in pairs : day \in p[1].days \cap p[2].days
    BY Zenon DEF OverlapDays
  <2> HIDE DEF pairs
  <2> QED
    BY <2>1, <2>2, <2>3
<1>2. ASSUME NEW a \in slots_a, NEW b \in slots_b
      PROVE  TimeOverlaps(a, b) <=>
               \E m \in 0..LastMinute : m \in a.start..(a.end - 1) /\ m \in b.start..(b.end - 1)
  BY OverlapIsCommonMinute, Zenon
<1>3. ASSUME NEW a, NEW m PROVE << day, m >> \in Minutes(a) <=> day \in a.days /\ m \in a.start..(a.end - 1)
  BY DEF Minutes
<1> QED
  BY <1>1, <1>2, <1>3, Zenon

-----------------------------------------------------------------------------
(* What is written is what is parsed *)

(* What the names of the days begin and go on with. *)
FirstLetters == { "M", "T", "W", "F", "S" }
SecondLetters == { "h", "a", "u" }

(* Each day's name is one letter, or two of which the second begins no day. *)
LEMMA DayNameIs ==
  ASSUME NEW day \in DOMAIN DayNames
  PROVE  /\ day \in ValidDayCodes
         /\ DayNames[day] \in Seq(Letters) /\ Len(DayNames[day]) \in 1..2
         /\ DayNames[day][1] \in FirstLetters
         /\ Len(DayNames[day]) = 2 => DayNames[day][2] \in SecondLetters
<1>1. day \in { "M", "T", "W", "R", "F", "S", "U" }
  BY DEF DayNames
<1>2. day \in ValidDayCodes
  BY <1>1 DEF ValidDayCodes
<1>3. /\ Len(DayNames[day]) \in 1..2 /\ DOMAIN DayNames[day] = 1..Len(DayNames[day])
      /\ DayNames[day][1] \in FirstLetters
      /\ Len(DayNames[day]) = 2 => DayNames[day][2] \in SecondLetters
  BY <1>1 DEF DayNames, FirstLetters, SecondLetters
<1>4. DayNames[day] \in Seq(Letters)
  <2> DEFINE A == ToSet(DayNames[day])
  <2>1. DayNames[day] \in Seq(A)
    <3>1. \A i \in 1..Len(DayNames[day]) : DayNames[day][i] \in A
      BY <1>3 DEF ToSet
    <3>2. DayNames[day] = [i \in 1..Len(DayNames[day]) |-> DayNames[day][i]]
      BY <1>1 DEF DayNames
    <3> QED
      BY <1>3, <3>1, <3>2
  <2>2. A \subseteq Letters
    BY DEF Letters
  <2> HIDE DEF A
  <2> QED
    BY <2>1, <2>2
<1> QED
  BY <1>2, <1>3, <1>4

(* A day's letters are read as that day, whatever day comes next. *)
LEMMA CodeOfDay ==
  ASSUME NEW day \in DOMAIN DayNames, NEW letters, NEW i,
         letters[i] = DayNames[day][1],
         Len(DayNames[day]) = 2 => i < Len(letters) /\ letters[i + 1] = DayNames[day][2],
         Len(DayNames[day]) = 1 => (i < Len(letters) => letters[i + 1] \in FirstLetters)
  PROVE  CodeAt(letters, i) = [day |-> day, length |-> Len(DayNames[day])]
<1> DEFINE next == IF i < Len(letters) THEN letters[i + 1] ELSE ""
<1>1. day \in { "M", "T", "W", "R", "F", "S", "U" }
  BY DEF DayNames
<1>2. Len(DayNames[day]) = 1 => next \notin SecondLetters
  BY DEF FirstLetters, SecondLetters
<1>3. Len(DayNames[day]) = 2 => next = DayNames[day][2]
  OBVIOUS
<1>4. CodeAt(letters, i) =
        CASE letters[i] = "T" /\ next = "h" -> [day |-> "R", length |-> 2]
          [] letters[i] = "S" /\ next = "a" -> [day |-> "S", length |-> 2]
          [] letters[i] = "S" /\ next = "u" -> [day |-> "U", length |-> 2]
          [] OTHER -> [day |-> letters[i], length |-> 1]
  BY DEF CodeAt
<1> HIDE DEF next
<1>5. CASE day \in { "M", "T", "W", "F" }
  <2>1. Len(DayNames[day]) = 1 /\ DayNames[day][1] = day
    BY <1>5 DEF DayNames
  <2>2. letters[i] = day /\ next \notin SecondLetters
    BY <1>2, <2>1
  <2>3. CodeAt(letters, i) = [day |-> day, length |-> 1]
    BY <1>4, <1>5, <2>2 DEF SecondLetters
  <2> QED
    BY <2>1, <2>3
<1>6. CASE day = "R"
  BY <1>3, <1>4, <1>6 DEF DayNames
<1>7. CASE day = "S"
  BY <1>3, <1>4, <1>7 DEF DayNames
<1>8. CASE day = "U"
  BY <1>3, <1>4, <1>8 DEF DayNames
<1> QED
  BY <1>1, <1>5, <1>6, <1>7, <1>8

(* The days of a week, in any order, written and parsed, are the same days *)
(* (_parse_days).                                                          *)
LEMMA WrittenDays ==
  ASSUME NEW days \in Seq(DOMAIN DayNames)
  PROVE  /\ Written(days) \in Seq(Letters)
         /\ ParseDays(Written(days)) = IF days = << >> THEN None ELSE ToSet(days)
<1> DEFINE ss == [i \in DOMAIN days |-> DayNames[days[i]]]
           n == Len(days)
           w == Written(days)
<1>1. n \in Nat /\ DOMAIN days = 1..n /\ \A i \in 1..n : days[i] \in DOMAIN DayNames
  OBVIOUS
<1>2. /\ DOMAIN ss = 1..n
      /\ \A i \in 1..n : ss[i] = DayNames[days[i]]
  BY <1>1
<1>3. ss \in Seq(Seq(Letters)) /\ Len(ss) = n
  <2>1. \A i \in 1..n : ss[i] \in Seq(Letters)
    BY <1>1, <1>2, DayNameIs
  <2>2. ss = [i \in 1..n |-> ss[i]]
    BY <1>1
  <2> HIDE DEF ss, n
  <2>3. ss \in [1..n -> Seq(Letters)]
    BY <2>1, <2>2
  <2> QED
    BY <1>1, <2>3
<1>4. w = FlattenSeq(ss)
  BY DEF Written
<1> HIDE DEF ss, n, w
<1>5. w \in Seq(Letters) /\ \E off : Placed(ss, w, off)
  BY <1>3, <1>4, FlattenPlaces
<1>6. PICK off : Placed(ss, w, off)
  BY <1>5
<1>7. /\ off \in [0..n -> Nat] /\ off[0] = 0 /\ off[n] = Len(w)
      /\ \A i \in 1..n : off[i] = off[i - 1] + Len(ss[i])
      /\ \A i \in 1..n : \A k \in 1..Len(ss[i]) :
           off[i - 1] + k \in 1..Len(w) /\ w[off[i - 1] + k] = ss[i][k]
      /\ \A m \in 1..Len(w) : \E i \in 1..n : \E k \in 1..Len(ss[i]) : m = off[i - 1] + k
  BY <1>3, <1>6 DEF Placed
<1>8. ASSUME NEW i \in 1..n
      PROVE  /\ off[i - 1] \in Nat /\ off[i] \in Nat /\ Len(ss[i]) \in 1..2
             /\ off[i - 1] + 1 \in 1..Len(w) /\ w[off[i - 1] + 1] \in FirstLetters
             /\ w[off[i - 1] + 1] = DayNames[days[i]][1]
             /\ Len(ss[i]) = 2 => /\ off[i - 1] + 2 \in 1..Len(w)
                                  /\ w[off[i - 1] + 2] = DayNames[days[i]][2]
                                  /\ w[off[i - 1] + 2] \in SecondLetters
  <2>1. i - 1 \in 0..n /\ i \in 0..n
    BY <1>1
  <2>2. Len(ss[i]) \in 1..2 /\ ss[i][1] \in FirstLetters /\ (Len(ss[i]) = 2 => ss[i][2] \in SecondLetters)
    BY <1>1, <1>2, DayNameIs
  <2>3. 1 \in 1..Len(ss[i]) /\ (Len(ss[i]) = 2 => 2 \in 1..Len(ss[i]))
    BY <2>2
  <2>4. off[i - 1] \in Nat /\ off[i] \in Nat /\ ss[i] = DayNames[days[i]]
    BY <1>2, <1>7, <2>1
  <2>5. off[i - 1] + 1 \in 1..Len(w) /\ w[off[i - 1] + 1] = ss[i][1]
    BY <1>7, <2>3
  <2>6. Len(ss[i]) = 2 => off[i - 1] + 2 \in 1..Len(w) /\ w[off[i - 1] + 2] = ss[i][2]
    BY <1>7, <2>3
  <2> QED
    BY <2>2, <2>4, <2>5, <2>6
<1>9. ASSUME NEW i \in 1..n
      PROVE  CodeAt(w, off[i - 1] + 1) = [day |-> days[i], length |-> Len(ss[i])]
  <2> DEFINE p == off[i - 1] + 1
  <2>1. days[i] \in DOMAIN DayNames /\ ss[i] = DayNames[days[i]]
    BY <1>1, <1>2
  <2>2. w[p] = DayNames[days[i]][1]
    BY <1>8
  <2>3. Len(ss[i]) = 2 => p < Len(w) /\ w[p + 1] = DayNames[days[i]][2]
    <3>1. off[i - 1] \in Nat /\ p + 1 = off[i - 1] + 2 /\ Len(w) \in Nat
      BY <1>5, <1>8
    <3> QED
      BY <1>8, <3>1
  <2>4. ASSUME Len(ss[i]) = 1, p < Len(w)
        PROVE  w[p + 1] \in FirstLetters
    <3>1. off[i] = p
      BY <1>7, <2>4
    <3>2. i # n
      BY <1>7, <2>4, <3>1
    <3>3. i + 1 \in 1..n /\ (i + 1) - 1 = i
      BY <1>1, <3>2
    <3>4. w[off[i] + 1] \in FirstLetters
      BY <1>8, <3>3
    <3> QED
      BY <3>1, <3>4
  <2> HIDE DEF p
  <2>5. CodeAt(w, p) = [day |-> days[i], length |-> Len(DayNames[days[i]])]
    BY <2>1, <2>2, <2>3, <2>4, CodeOfDay
  <2> QED
    BY <2>1, <2>5 DEF p
<1> DEFINE begins == { m \in DOMAIN w : m > 1 => CodeAt(w, m - 1).length = 1 }
<1>10. DOMAIN w = 1..Len(w) /\ Len(w) \in Nat
  BY <1>5
<1>11. ASSUME NEW i \in 1..n PROVE off[i - 1] + 1 \in begins
  <2> DEFINE m == off[i - 1] + 1
  <2>1. m \in 1..Len(w) /\ off[i - 1] \in Nat
    BY <1>8
  <2> SUFFICES ASSUME m > 1 PROVE CodeAt(w, m - 1).length = 1
    BY <1>10, <2>1
  <2>2. i # 1
    BY <1>7
  <2>3. i - 1 \in 1..n /\ m - 1 = off[i - 1]
    BY <1>1, <2>1, <2>2
  <2> DEFINE j == i - 1
  <2>4. /\ j \in 1..n /\ off[j] = off[j - 1] + Len(ss[j]) /\ off[j - 1] \in Nat /\ Len(ss[j]) \in 1..2
        /\ m - 1 = off[j]
    BY <1>7, <1>8, <2>3
  <2> HIDE DEF j, m
  <2>5. CASE Len(ss[j]) = 1
    <3>1. m - 1 = off[j - 1] + 1
      BY <2>4, <2>5
    <3>2. CodeAt(w, off[j - 1] + 1) = [day |-> days[j], length |-> Len(ss[j])]
      BY <1>9, <2>4
    <3> QED
      BY <2>5, <3>1, <3>2
  <2>6. CASE Len(ss[j]) = 2
    <3>1. m - 1 = off[j - 1] + 2
      BY <2>4, <2>6
    <3>2. w[m - 1] \in SecondLetters
      BY <1>8, <2>4, <2>6, <3>1
    <3>3. w[m - 1] # "T" /\ w[m - 1] # "S"
      BY <3>2 DEF SecondLetters
    <3> QED
      BY <3>3 DEF CodeAt
  <2> QED
    BY <2>4, <2>5, <2>6
<1>12. ASSUME NEW m \in begins PROVE \E i \in 1..n : m = off[i - 1] + 1
  <2>1. m \in 1..Len(w)
    BY <1>10
  <2>2. PICK i \in 1..n : \E k \in 1..Len(ss[i]) : m = off[i - 1] + k
    BY <1>7, <2>1
  <2>3. PICK k \in 1..Len(ss[i]) : m = off[i - 1] + k
    BY <2>2
  <2>4. off[i - 1] \in Nat /\ Len(ss[i]) \in 1..2
    BY <1>8
  <2>5. ASSUME k # 1 PROVE FALSE
    <3>1. k = 2 /\ Len(ss[i]) = 2
      <4> DEFINE l == Len(ss[i])
      <4>1. l \in 1..2 /\ k \in 1..l
        BY <2>4
      <4> HIDE DEF l
      <4>2. k = 2 /\ l = 2
        BY <2>5, <4>1
      <4> QED
        BY <4>2 DEF l
    <3>2. m > 1 /\ m - 1 = off[i - 1] + 1
      BY <2>3, <2>4, <3>1
    <3>3. CodeAt(w, m - 1).length = 1
      BY <3>2
    <3>4. CodeAt(w, m - 1) = [day |-> days[i], length |-> Len(ss[i])]
      BY <1>9, <3>2
    <3> QED
      BY <3>1, <3>3, <3>4
  <2> QED
    BY <2>3, <2>5
<1> DEFINE read == { CodeAt(w, m).day : m \in begins }
<1>13. read = ToSet(days)
  <2> HIDE DEF begins
  <2>1. ASSUME NEW m \in begins PROVE CodeAt(w, m).day \in ToSet(days)
    <3>1. PICK i \in 1..n : m = off[i - 1] + 1
      BY <1>12
    <3>2. CodeAt(w, m) = [day |-> days[i], length |-> Len(ss[i])]
      BY <1>9, <3>1
    <3> QED
      BY <1>1, <3>2 DEF ToSet
  <2>2. ASSUME NEW i \in 1..n PROVE days[i] \in read
    <3>1. CodeAt(w, off[i - 1] + 1) = [day |-> days[i], length |-> Len(ss[i])]
      BY <1>9
    <3>2. off[i - 1] + 1 \in begins
      BY <1>11
    <3> QED
      BY <3>1, <3>2
  <2>3. ToSet(days) \subseteq read
    <3> HIDE DEF read
    <3> QED
      BY <1>1, <2>2 DEF ToSet
  <2> QED
    BY <2>1, <2>3
<1>14. ToSet(days) \subseteq ValidDayCodes
  BY <1>1, DayNameIs DEF ToSet
<1>15. ParseDays(w) = IF w = << >> \/ ~(read \subseteq ValidDayCodes) THEN None ELSE read
  BY DEF ParseDays
<1> HIDE DEF read, begins
<1>16. w = << >> <=> days = << >>
  <2>1. CASE n = 0
    <3>1. Len(w) = 0
      BY <1>7, <2>1
    <3> QED
      BY <1>5, <2>1, <3>1, EmptySeq DEF n
  <2>2. CASE n # 0
    <3>1. 1 \in 1..n
      BY <1>1, <2>2
    <3>2. Len(w) # 0
      BY <1>8, <1>10, <3>1
    <3> QED
      BY <2>2, <3>2 DEF n
  <2> QED
    BY <2>1, <2>2
<1> QED
  BY <1>5, <1>13, <1>14, <1>15, <1>16 DEF w

(* A written time means the minute it is parsed to (_to_24h). *)
LEMMA MinuteRead ==
  ASSUME NEW t, t.hour \in 1..12, t.minute \in 0..59, NEW marker \in { "a", "p" }
  PROVE  MinutesAt(t, marker) = { To24h(t.hour, marker) * 60 + t.minute }
<1> DEFINE hour == t.hour
           minute == t.minute
           shift == IF marker = "p" THEN 11 ELSE -1
           at == IF hour = 12 THEN 1 ELSE hour + 1
<1>1. DOMAIN Dial = 1..12 /\ \A i \in 1..12 : Dial[i] = IF i = 1 THEN 12 ELSE i - 1
  BY DEF Dial
<1>2. hour \in 1..12 /\ minute \in 0..59
  OBVIOUS
<1>3. MinutesAt(t, marker) =
        { 60 * h + minute : h \in { k + shift : k \in { i \in DOMAIN Dial : Dial[i] = hour } } }
  BY Zenon DEF MinutesAt
<1> HIDE DEF hour, minute
<1>4. { i \in DOMAIN Dial : Dial[i] = hour } = {at}
  BY <1>1, <1>2
<1>5. at + shift = To24h(hour, marker) /\ To24h(hour, marker) \in Int
  BY <1>2 DEF To24h
<1> HIDE DEF at, shift
<1>6. { k + shift : k \in {at} } = { To24h(hour, marker) }
  BY <1>5
<1>7. MinutesAt(t, marker) = { 60 * To24h(hour, marker) + minute }
  BY <1>3, <1>4, <1>6
<1>8. 60 * To24h(hour, marker) + minute = To24h(hour, marker) * 60 + minute
  BY <1>2, <1>5
<1> QED
  BY <1>7, <1>8 DEF hour, minute

(* A slot as it is meant, before it is written down. *)
Slot == [days : Seq(DOMAIN DayNames), start : Times, end : Times]

WrittenSlot(slot) == [slot EXCEPT !.days = Written(@)]

(* A slot is parsed to the minutes it takes (_parse_meets_slot). *)
LEMMA SlotRead ==
  ASSUME NEW slot \in Slot
  PROVE  LET parsed == ParseMeetsSlot(WrittenSlot(slot)) IN
         IF parsed = None THEN Occupied(slot) = {}
         ELSE WithinDay(parsed) /\ Minutes(parsed) = Occupied(slot)
<1> DEFINE w == WrittenSlot(slot)
           parsed == ParseMeetsSlot(w)
           marker == IF slot.start.marker = None THEN slot.end.marker ELSE slot.start.marker
           start == To24h(slot.start.hour, marker) * 60 + slot.start.minute
           end == To24h(slot.end.hour, slot.end.marker) * 60 + slot.end.minute
<1>1. slot.days \in Seq(DOMAIN DayNames) /\ slot.start \in Times /\ slot.end \in Times
  BY DEF Slot
<1>2. w.days = Written(slot.days) /\ w.start = slot.start /\ w.end = slot.end
  BY DEF Slot, WrittenSlot
<1>3. \A t \in Times : IsTime(t) <=> t # None
  BY TimetableAssumption DEF Times, IsTime
<1>4. \A t \in Times : t # None => t.hour \in 1..12 /\ t.minute \in 0..59 /\ t.marker \in { "a", "p", None }
  BY DEF Times
<1>5. ParseDays(w.days) = IF slot.days = << >> THEN None ELSE ToSet(slot.days)
  BY <1>1, <1>2, WrittenDays
<1>6. ToSet(slot.days) # None /\ ToSet(slot.days) \in SUBSET ValidDayCodes
  <2>1. ToSet(slot.days) \in SUBSET ValidDayCodes
    BY <1>1, DayNameIs DEF ToSet
  <2> QED
    BY <2>1, TimetableAssumption
<1> HIDE DEF w
<1> DEFINE bad == slot.days = << >> \/ slot.end = None \/ slot.start = None \/ slot.end.marker = None
<1>7. parsed = IF bad THEN None
               ELSE IF end <= start THEN None
               ELSE [days |-> ToSet(slot.days), start |-> start, end |-> end]
  <2>1. parsed = IF ParseDays(w.days) = None \/ ~IsTime(w.end) \/ ~IsTime(w.start) \/ w.end.marker = None
                 THEN None
                 ELSE IF end <= start THEN None
                 ELSE [days |-> ParseDays(w.days), start |-> start, end |-> end]
    BY <1>2 DEF ParseMeetsSlot
  <2>2. bad <=> ParseDays(w.days) = None \/ ~IsTime(w.end) \/ ~IsTime(w.start) \/ w.end.marker = None
    BY <1>1, <1>2, <1>3, <1>5, <1>6
  <2> HIDE DEF parsed, bad, start, end
  <2>3. ~bad => ParseDays(w.days) = ToSet(slot.days)
    BY <1>5 DEF bad
  <2> QED
    BY <2>1, <2>2, <2>3
<1>8. CASE bad
  <2>1. parsed = None
    BY <1>7, <1>8
  <2>2. CASE slot.start = None \/ slot.end = None \/ slot.end.marker = None
    <3>1. Occupied(slot) = {}
      BY <2>2, Zenon DEF Occupied
    <3> QED
      BY <2>1, <3>1 DEF w
  <2>3. CASE slot.days = << >>
    <3>1. ToSet(slot.days) = {}
      BY <2>3 DEF ToSet
    <3>2. \A S : ToSet(slot.days) \X S = {}
      BY <3>1
    <3>3. Occupied(slot) = {}
      BY <3>2 DEF Occupied
    <3> QED
      BY <2>1, <3>3 DEF w
  <2> QED
    BY <1>8, <2>2, <2>3
<1>9. CASE ~bad
  <2>1. IsTime(slot.start) /\ IsTime(slot.end) /\ slot.end.marker # None
    BY <1>1, <1>3, <1>9
  <2>2. /\ slot.start.hour \in 1..12 /\ slot.start.minute \in 0..59
        /\ slot.end.hour \in 1..12 /\ slot.end.minute \in 0..59
        /\ marker \in { "a", "p" } /\ slot.end.marker \in { "a", "p" }
    BY <1>1, <1>4, <1>9
  <2>3. MinutesAt(slot.start, marker) = {start} /\ MinutesAt(slot.end, slot.end.marker) = {end}
    BY <2>2, MinuteRead
  <2>4. start \in 0..LastMinute /\ end \in 0..LastMinute
    <3>1. To24h(slot.start.hour, marker) \in 0..23 /\ To24h(slot.end.hour, slot.end.marker) \in 0..23
      BY <2>2, HourOfDay
    <3> QED
      BY <2>2, <3>1, MinuteOfDay, Zenon
  <2>5. Occupied(slot) = UNION { ToSet(slot.days) \X (p[1]..(p[2] - 1)) :
                                   p \in MinutesAt(slot.start, marker) \X MinutesAt(slot.end, slot.end.marker) }
    BY <1>9, Zenon DEF Occupied
  <2> HIDE DEF start, end, parsed, marker
  <2>6. Occupied(slot) = ToSet(slot.days) \X (start..(end - 1))
    <3>1. {start} \X {end} = { << start, end >> }
      OBVIOUS
    <3>2. { ToSet(slot.days) \X (p[1]..(p[2] - 1)) : p \in { << start, end >> } }
            = { ToSet(slot.days) \X (start..(end - 1)) }
      OBVIOUS
    <3> QED
      BY <2>3, <2>5, <3>1, <3>2
  <2>7. CASE end <= start
    <3>1. parsed = None
      BY <1>7, <1>9, <2>7
    <3>2. start..(end - 1) = {}
      BY <2>4, <2>7 DEF LastMinute
    <3>3. Occupied(slot) = {}
      BY <2>6, <3>2
    <3> QED
      BY <3>1, <3>3 DEF w, parsed
  <2>8. CASE ~(end <= start)
    <3>1. parsed = [days |-> ToSet(slot.days), start |-> start, end |-> end]
      BY <1>7, <1>9, <2>8
    <3>2. parsed # None
      <4>1. start \in Nat /\ end \in Nat
        BY <2>4 DEF LastMinute
      <4>2. parsed \in [days : SUBSET ValidDayCodes, start : Nat, end : Nat]
        BY <1>6, <3>1, <4>1
      <4> QED
        BY <4>2, TimetableAssumption
    <3>3. WithinDay(parsed)
      BY <3>2, ParsedWithinDay DEF parsed
    <3>4. Minutes(parsed) = Occupied(slot)
      BY <2>6, <3>1 DEF Minutes
    <3> QED
      BY <3>2, <3>3, <3>4 DEF w, parsed
  <2> QED
    BY <2>7, <2>8
<1> QED
  BY <1>8, <1>9

(* A section's text is parsed to the minutes of the week it takes (_parse_meets). *)
LEMMA SectionRead ==
  ASSUME NEW s, s.schedule = None \/ s.schedule \in Seq(Slot)
  PROVE  /\ \A slot \in ParseMeets(Meets(s.schedule)) : WithinDay(slot)
         /\ \A minute : minute \in MinutesOf(s) <=>
              \E slot \in ParseMeets(Meets(s.schedule)) : minute \in Minutes(slot)
<1> DEFINE schedule == s.schedule
           parsed == ParseMeets(Meets(schedule))
<1>1. CASE schedule = None
  <2>1. parsed = {} /\ MinutesOf(s) = {}
    BY <1>1 DEF Meets, ParseMeets, MinutesOf
  <2> QED
    BY <2>1
<1>2. CASE schedule # None
  <2> DEFINE w == [i \in DOMAIN schedule |-> WrittenSlot(schedule[i])]
             n == Len(schedule)
  <2>1. n \in Nat /\ DOMAIN schedule = 1..n /\ \A i \in 1..n : schedule[i] \in Slot
    BY <1>2
  <2>2. Meets(schedule) = w
    BY <1>2 DEF Meets, WrittenSlot
  <2>3. DOMAIN w = 1..n /\ \A i \in 1..n : w[i] = WrittenSlot(schedule[i])
    BY <2>1
  <2>4. w # None
    <3>1. ASSUME NEW i \in 1..n
          PROVE  w[i] \in [days : Seq(Letters), start : Times, end : Times]
      <4>1. Written(schedule[i].days) \in Seq(Letters)
        BY <2>1, WrittenDays DEF Slot
      <4> QED
        BY <2>1, <2>3, <4>1 DEF WrittenSlot, Slot
    <3>2. w = [i \in 1..n |-> w[i]]
      BY <2>1
    <3> DEFINE S == [days : Seq(Letters), start : Times, end : Times]
    <3> HIDE DEF w, n, S
    <3>3. w \in [1..n -> S]
      BY <3>1, <3>2 DEF S
    <3>4. w \in Seq(S)
      BY <2>1, <3>3
    <3>5. w \in Seq([days : Seq(Letters), start : Times, end : Times])
      BY <3>4 DEF S
    <3> QED
      BY <3>5, TimetableAssumption
  <2> HIDE DEF w, n
  <2>5. parsed = { ParseMeetsSlot(x) : x \in ToSet(w) } \ {None}
    BY <2>2, <2>4 DEF ParseMeets
  <2>6. \A p : p \in parsed <=> \E i \in 1..n : p = ParseMeetsSlot(WrittenSlot(schedule[i])) /\ p # None
    BY <2>3, <2>5 DEF ToSet
  <2>7. \A minute : minute \in MinutesOf(s) <=> \E i \in 1..n : minute \in Occupied(schedule[i])
    <3>1. MinutesOf(s) = UNION { Occupied(slot) : slot \in ToSet(schedule) }
      BY <1>2 DEF MinutesOf
    <3> QED
      BY <2>1, <3>1 DEF ToSet
  <2> HIDE DEF parsed, schedule
  <2>8. ASSUME NEW i \in 1..n
        PROVE  LET p == ParseMeetsSlot(WrittenSlot(schedule[i])) IN
               IF p = None THEN Occupied(schedule[i]) = {}
               ELSE WithinDay(p) /\ Minutes(p) = Occupied(schedule[i])
    BY <2>1, SlotRead
  <2>9. \A slot \in parsed : WithinDay(slot)
    BY <2>6, <2>8
  <2>10. ASSUME NEW minute
         PROVE  minute \in MinutesOf(s) <=> \E slot \in parsed : minute \in Minutes(slot)
    <3>1. ASSUME minute \in MinutesOf(s)
          PROVE  \E slot \in parsed : minute \in Minutes(slot)
      <4>1. PICK i \in 1..n : minute \in Occupied(schedule[i])
        BY <2>7, <3>1
      <4> DEFINE p == ParseMeetsSlot(WrittenSlot(schedule[i]))
      <4>2. p # None /\ Minutes(p) = Occupied(schedule[i])
        BY <2>8, <4>1
      <4>3. p \in parsed
        BY <2>6, <4>2
      <4> QED
        BY <4>1, <4>2, <4>3
    <3>2. ASSUME NEW slot \in parsed, minute \in Minutes(slot)
          PROVE  minute \in MinutesOf(s)
      <4>1. PICK i \in 1..n : slot = ParseMeetsSlot(WrittenSlot(schedule[i])) /\ slot # None
        BY <2>6
      <4>2. Minutes(slot) = Occupied(schedule[i])
        BY <2>8, <4>1
      <4> QED
        BY <2>7, <3>2, <4>2
    <3> QED
      BY <3>1, <3>2
  <2> QED
    BY <2>9, <2>10 DEF parsed, schedule
<1> QED
  BY <1>1, <1>2

(* The days on which two sections are reported to overlap are those on which   *)
(* they share a minute.                                                        *)
LEMMA SharedDaysReported ==
  ASSUME NEW s, s.schedule = None \/ s.schedule \in Seq(Slot),
         NEW t, t.schedule = None \/ t.schedule \in Seq(Slot)
  PROVE  OverlapDays(ParseMeets(Meets(s.schedule)), ParseMeets(Meets(t.schedule))) = SharedDays(s, t)
<1> DEFINE a == ParseMeets(Meets(s.schedule))
           b == ParseMeets(Meets(t.schedule))
<1>1. /\ \A slot \in a : WithinDay(slot)
      /\ \A minute : minute \in MinutesOf(s) <=> \E slot \in a : minute \in Minutes(slot)
  BY SectionRead
<1>2. /\ \A slot \in b : WithinDay(slot)
      /\ \A minute : minute \in MinutesOf(t) <=> \E slot \in b : minute \in Minutes(slot)
  BY SectionRead
<1> HIDE DEF a, b
<1>3. \A day : day \in OverlapDays(a, b) <=>
         \E p \in a, q \in b, m \in 0..LastMinute :
           << day, m >> \in Minutes(p) /\ << day, m >> \in Minutes(q)
  <2>1. \A slot \in a \cup b : WithinDay(slot)
    BY <1>1, <1>2
  <2> QED
    BY <2>1, OverlapDaysExact, Zenon
<1>4. ASSUME NEW slot, WithinDay(slot), NEW minute \in Minutes(slot)
      PROVE  minute = << minute[1], minute[2] >> /\ minute[2] \in 0..LastMinute
  <2>1. minute = << minute[1], minute[2] >> /\ minute[2] \in slot.start..(slot.end - 1)
    BY DEF Minutes
  <2>2. slot.start \in 0..LastMinute /\ slot.end \in 0..LastMinute
    BY <1>4 DEF WithinDay
  <2>3. slot.start \in Int /\ slot.end \in Int /\ 0 <= slot.start /\ slot.end <= LastMinute /\ LastMinute \in Int
    <3>1. LastMinute \in Int
      BY DEF LastMinute
    <3>2. \A u \in 0..LastMinute : u \in Int /\ 0 <= u /\ u <= LastMinute
      BY <3>1
    <3> QED
      BY <2>2, <3>1, <3>2, Zenon
  <2>4. minute[2] \in Int /\ slot.start <= minute[2] /\ minute[2] <= slot.end - 1
    BY <2>1, <2>3
  <2> QED
    BY <2>1, <2>3, <2>4
<1>5. \A day : day \in SharedDays(s, t) <=>
        \E minute : minute \in MinutesOf(s) /\ minute \in MinutesOf(t) /\ day = minute[1]
  BY DEF SharedDays
<1>6. ASSUME NEW day
      PROVE  day \in OverlapDays(a, b) <=> day \in SharedDays(s, t)
  <2>1. ASSUME day \in OverlapDays(a, b) PROVE day \in SharedDays(s, t)
    <3>1. PICK p \in a, q \in b, m \in 0..LastMinute :
            << day, m >> \in Minutes(p) /\ << day, m >> \in Minutes(q)
      BY <1>3, <2>1
    <3>2. << day, m >> \in MinutesOf(s) /\ << day, m >> \in MinutesOf(t) /\ day = << day, m >>[1]
      BY <1>1, <1>2, <3>1
    <3> QED
      BY <1>5, <3>2
  <2>2. ASSUME day \in SharedDays(s, t) PROVE day \in OverlapDays(a, b)
    <3>1. PICK minute : minute \in MinutesOf(s) /\ minute \in MinutesOf(t) /\ day = minute[1]
      BY <1>5, <2>2
    <3>2. PICK p \in a : minute \in Minutes(p)
      BY <1>1, <3>1
    <3>3. PICK q \in b : minute \in Minutes(q)
      BY <1>2, <3>1
    <3>4. minute = << day, minute[2] >> /\ minute[2] \in 0..LastMinute
      BY <1>1, <1>4, <3>1, <3>2
    <3> QED
      BY <1>3, <3>2, <3>3, <3>4
  <2> QED
    BY <2>1, <2>2
<1>7. OverlapDays(a, b) = SharedDays(s, t)
  BY <1>6
<1> QED
  BY <1>7 DEF a, b

(* A conflict as it is reported. *)
Conflict(s, t, days) ==
  [course_a |-> s.course, crn_a |-> s.crn, course_b |-> t.course, crn_b |-> t.crn, overlap_days |-> days]

(* get_schedule_conflicts reports the pairs of listed sections that share a    *)
(* minute, and no others.                                                      *)
LEMMA ConflictsReported ==
  ASSUME NEW timetable \in Timetables, NEW codes \in CodeLists
  PROVE  LET sections == { [course |-> s.course, crn |-> s.crn, meets |-> Meets(s.schedule)] : s \in timetable }
             listed == { s \in timetable : s.course \in ToSet(codes) \ {Blank} }
             clashes == { p \in listed \X listed : p[1].course < p[2].course /\ SharedDays(p[1], p[2]) # {} }
         IN GetScheduleConflicts(sections, codes, Blank)
              = { [course_a |-> p[1].course, crn_a |-> p[1].crn, course_b |-> p[2].course,
                   crn_b |-> p[2].crn, overlap_days |-> SharedDays(p[1], p[2])] : p \in clashes }
<1> DEFINE asked == ToSet(codes) \ {Blank}
           AsStored(s) == [course |-> s.course, crn |-> s.crn, meets |-> Meets(s.schedule)]
           sections == { AsStored(s) : s \in timetable }
           listed == { s \in timetable : s.course \in asked }
           clashes == { p \in listed \X listed : p[1].course < p[2].course /\ SharedDays(p[1], p[2]) # {} }
           expected == { Conflict(p[1], p[2], SharedDays(p[1], p[2])) : p \in clashes }
           days(a, b) == OverlapDays(ParseMeets(a.meets), ParseMeets(b.meets))
           usable == { s \in sections : s.course \in asked /\ ParseMeets(s.meets) # {} }
           pairs == { q \in usable \X usable : q[1].course < q[2].course /\ days(q[1], q[2]) # {} }
           reported == { Conflict(p[1], p[2], days(p[1], p[2])) : p \in pairs }
           result == GetScheduleConflicts(sections, codes, Blank)
<1>1. result = IF Cardinality(asked) < 2 THEN {} ELSE reported
  BY Zenon DEF GetScheduleConflicts, Conflict
<1>2. \A s \in timetable : s.course \in Int /\ (s.schedule = None \/ s.schedule \in Seq(Slot))
  BY TimetableAssumption DEF Slot
<1>3. \A s : AsStored(s).course = s.course /\ AsStored(s).crn = s.crn /\ AsStored(s).meets = Meets(s.schedule)
  OBVIOUS
<1>4. \A s, t \in timetable : days(AsStored(s), AsStored(t)) = SharedDays(s, t)
  BY <1>2, <1>3, SharedDaysReported
<1>5. \A s \in timetable : AsStored(s) \in sections
  OBVIOUS
<1>6. \A x \in sections : \E s \in timetable : x = AsStored(s)
  OBVIOUS
<1>7. \A s, t \in timetable : SharedDays(s, t) # {} =>
        ParseMeets(Meets(s.schedule)) # {} /\ ParseMeets(Meets(t.schedule)) # {}
  <2> SUFFICES ASSUME NEW s \in timetable, NEW t \in timetable, SharedDays(s, t) # {}
               PROVE  ParseMeets(Meets(s.schedule)) # {} /\ ParseMeets(Meets(t.schedule)) # {}
    OBVIOUS
  <2>1. PICK minute : minute \in MinutesOf(s) /\ minute \in MinutesOf(t)
    BY DEF SharedDays
  <2>2. \E slot \in ParseMeets(Meets(s.schedule)) : minute \in Minutes(slot)
    BY <1>2, <2>1, SectionRead
  <2>3. \E slot \in ParseMeets(Meets(t.schedule)) : minute \in Minutes(slot)
    BY <1>2, <2>1, SectionRead
  <2> QED
    BY <2>2, <2>3
<1> HIDE DEF AsStored, sections, days
<1>8. reported = expected
  <2>1. \A s, t \in timetable : Conflict(AsStored(s), AsStored(t), days(AsStored(s), AsStored(t)))
                                  = Conflict(s, t, SharedDays(s, t))
    BY <1>3, <1>4 DEF Conflict
  <2>2. \A s, t \in listed : s.course < t.course /\ SharedDays(s, t) # {} =>
          /\ AsStored(s) \in usable /\ AsStored(t) \in usable
          /\ AsStored(s).course < AsStored(t).course /\ days(AsStored(s), AsStored(t)) # {}
    BY <1>3, <1>4, <1>5, <1>7
  <2>3. \A x \in usable : \E s \in listed : x = AsStored(s)
    BY <1>3, <1>6
  <2>4. expected \subseteq reported
    <3> SUFFICES ASSUME NEW p \in clashes
                 PROVE  Conflict(p[1], p[2], SharedDays(p[1], p[2])) \in reported
      OBVIOUS
    <3> DEFINE q == << AsStored(p[1]), AsStored(p[2]) >>
    <3>1. /\ p[1] \in listed /\ p[2] \in listed
          /\ p[1].course < p[2].course /\ SharedDays(p[1], p[2]) # {}
      OBVIOUS
    <3>2. q \in pairs
      <4> HIDE DEF usable, listed
      <4> QED
        BY <2>2, <3>1
    <3>3. Conflict(q[1], q[2], days(q[1], q[2])) = Conflict(p[1], p[2], SharedDays(p[1], p[2]))
      BY <2>1, <3>1
    <3> HIDE DEF q, pairs
    <3>4. Conflict(q[1], q[2], days(q[1], q[2])) \in reported
      BY <3>2
    <3> QED
      BY <3>3, <3>4
  <2>5. reported \subseteq expected
    <3> SUFFICES ASSUME NEW q \in pairs
                 PROVE  Conflict(q[1], q[2], days(q[1], q[2])) \in expected
      OBVIOUS
    <3>1. q[1] \in usable /\ q[2] \in usable /\ q[1].course < q[2].course /\ days(q[1], q[2]) # {}
      OBVIOUS
    <3>2. PICK s \in listed : q[1] = AsStored(s)
      BY <2>3, <3>1
    <3>3. PICK t \in listed : q[2] = AsStored(t)
      BY <2>3, <3>1
    <3>4. s.course < t.course /\ SharedDays(s, t) # {}
      BY <1>3, <1>4, <3>1, <3>2, <3>3
    <3>5. << s, t >> \in clashes
      BY <3>4
    <3>6. Conflict(q[1], q[2], days(q[1], q[2])) = Conflict(s, t, SharedDays(s, t))
      BY <2>1, <3>2, <3>3
    <3> HIDE DEF clashes
    <3>7. Conflict(s, t, SharedDays(s, t)) \in expected
      BY <3>5
    <3> QED
      BY <3>6, <3>7
  <2> QED
    BY <2>4, <2>5
<1>9. Cardinality(asked) < 2 => expected = {}
  <2> SUFFICES ASSUME Cardinality(asked) < 2, NEW p \in clashes PROVE FALSE
    OBVIOUS
  <2>1. /\ p[1].course \in asked /\ p[2].course \in asked /\ p[1].course \in Int /\ p[2].course \in Int
        /\ p[1].course < p[2].course
    BY <1>2
  <2>2. IsFiniteSet(asked)
    <3>1. codes \in Seq(Int)
      BY TimetableAssumption
    <3> DEFINE f == [i \in 1..Len(codes) |-> codes[i]]
    <3>2. Len(codes) \in Nat /\ ToSet(codes) = { codes[i] : i \in 1..Len(codes) }
      BY <3>1 DEF ToSet
    <3>3. f \in Surjection(1..Len(codes), ToSet(codes))
      BY <3>2 DEF Surjection
    <3>4. IsFiniteSet(1..Len(codes))
      BY <3>2, FS_Interval
    <3>5. IsFiniteSet(ToSet(codes))
      BY <3>3, <3>4, FS_Surjection
    <3> QED
      BY <3>5, FS_Subset
  <2> DEFINE two == { p[1].course, p[2].course }
  <2>3. two \in SUBSET asked
    BY <2>1
  <2>4. Cardinality(two) = 2
    <3>1. IsFiniteSet({p[1].course}) /\ Cardinality({p[1].course}) = 1
      BY FS_Singleton
    <3>2. p[2].course \notin {p[1].course} /\ two = {p[1].course} \cup {p[2].course}
      BY <2>1
    <3> HIDE DEF two
    <3>3. Cardinality(two) = 1 + 1
      BY <3>1, <3>2, FS_AddElement
    <3> QED
      BY <3>3
  <2> HIDE DEF asked, two
  <2>5. Cardinality(two) <= Cardinality(asked)
    BY <2>2, <2>3, FS_Subset
  <2>6. Cardinality(asked) \in Nat
    BY <2>2, FS_CardinalityType
  <2> QED
    BY <2>4, <2>5, <2>6
<1> HIDE DEF reported, expected, asked, result
<1>10. result = expected
  BY <1>1, <1>8, <1>9
<1> QED
  BY <1>10, Zenon DEF result, expected, AsStored, sections, asked, Conflict

(* find_schedule_conflicts: for any timetable and any list of codes, the       *)
(* answer is exactly the pairs of sections that share a minute of the week,    *)
(* with the days on which they do.                                             *)
THEOREM ConflictsAreExact == Spec => []ConflictsExact
<1>1. Init => ConflictsExact
  BY DEF Init, ConflictsExact
<1>2. ConflictsExact /\ [Next]_vars => ConflictsExact'
  <2> SUFFICES ASSUME ConflictsExact, [Next]_vars PROVE ConflictsExact'
    OBVIOUS
  <2>1. CASE UNCHANGED vars
    BY <2>1 DEF vars, ConflictsExact
  <2>2. CASE Next
    <3>1. CASE handler' = "conflicts"
      <4>1. PICK timetable \in Timetables, codes \in CodeLists : FindScheduleConflicts(timetable, codes)
        BY <2>2, <3>1, JustAsked
      <4>2. input'.timetable = timetable /\ input'.codes = codes
        BY <4>1 DEF FindScheduleConflicts, Ask
      <4>3. answer' = GetScheduleConflicts(
              { [course |-> s.course, crn |-> s.crn, meets |-> Meets(s.schedule)] : s \in timetable },
              codes, Blank)
        BY <4>1 DEF FindScheduleConflicts, Ask
      <4> QED
        BY <4>2, <4>3, ConflictsReported DEF ConflictsExact
    <3> QED
      BY <3>1 DEF ConflictsExact
  <2> QED
    BY <2>1, <2>2
<1> QED
  BY <1>1, <1>2, PTL DEF Spec

-----------------------------------------------------------------------------
(* What a context is made of: build_context *)

(* A text, and a section of the prompt. *)
Text == Seq(Lines)

Section == [tag : ToSet(Tags), text : Text, cut : BOOLEAN]

(* There are three sections, each with its own tag. *)
LEMMA TagsAre ==
  /\ Tags[1] = "user_profile" /\ Tags[2] = "conversation_summary" /\ Tags[3] = "retrieved_context"
  /\ \A i \in 1..3 : Tags[i] \in ToSet(Tags) /\ Overhead[Tags[i]] \in Nat
  /\ \A i, k \in 1..3 : Tags[i] = Tags[k] => i = k
<1>1. Tags[1] = "user_profile" /\ Tags[2] = "conversation_summary" /\ Tags[3] = "retrieved_context"
  BY DEF Tags
<1>2. DOMAIN Tags = 1..3
  BY DEF Tags
<1>3. \A i \in 1..3 : Tags[i] \in ToSet(Tags)
  BY <1>2 DEF ToSet
<1> QED
  BY <1>1, <1>3, ContextAssumption

(* Where a section with that tag stands. *)
Place(tag) == CHOOSE i \in 1..3 : Tags[i] = tag

(* Each tag stands in its own place. *)
LEMMA PlaceOfTag ==
  ASSUME NEW i \in 1..3
  PROVE  Place(Tags[i]) = i
BY TagsAre DEF Place

-----------------------------------------------------------------------------
(* What three contents ask for: assemble_with_budget *)

(* What the three sections may hold, which of them hold something, and what each takes. *)
Contents == [1..3 -> Text \cup {None}]

There(c) == { i \in 1..3 : c[i] \notin { None, << >> } }

Share(c, k) == IF k \in There(c) THEN Overhead[Tags[k]] + Len(c[k]) + SeparatorChars ELSE 0

(* All characters, a separator for each section, of the first i. *)
Demand(c, i) ==
  CASE i = 0 -> 0
    [] i = 1 -> Share(c, 1)
    [] i = 2 -> Share(c, 1) + Share(c, 2)
    [] i = 3 -> Share(c, 1) + Share(c, 2) + Share(c, 3)

(* Each section adds what it takes. *)
LEMMA DemandGrows ==
  ASSUME NEW c \in Contents
  PROVE  /\ \A i \in 0..3 : Demand(c, i) \in Nat
         /\ \A i \in 1..3 : Demand(c, i) = Demand(c, i - 1) + Share(c, i)
         /\ \A i \in 1..3 : Share(c, i) \in Nat
         /\ \A i \in There(c) : i \in 1..3 /\ c[i] \in Text /\ Len(c[i]) \in Nat /\ Len(c[i]) >= 1
<1>1. ASSUME NEW i \in There(c)
      PROVE  i \in 1..3 /\ c[i] \in Text /\ Len(c[i]) \in Nat /\ Len(c[i]) >= 1
  <2>1. i \in 1..3 /\ c[i] \in Text /\ c[i] # << >>
    BY DEF There, Contents
  <2> QED
    BY <2>1, EmptySeq DEF Text
<1>2. ASSUME NEW i \in 1..3 PROVE Share(c, i) \in Nat
  BY <1>1, TagsAre, ContextAssumption DEF Share
<1>3. /\ Demand(c, 0) = 0 /\ Demand(c, 1) = Share(c, 1)
      /\ Demand(c, 2) = Share(c, 1) + Share(c, 2)
      /\ Demand(c, 3) = Share(c, 1) + Share(c, 2) + Share(c, 3)
  BY DEF Demand
<1>4. Share(c, 1) \in Nat /\ Share(c, 2) \in Nat /\ Share(c, 3) \in Nat
  BY <1>2
<1>5. \A i \in 0..3 : i = 0 \/ i = 1 \/ i = 2 \/ i = 3
  OBVIOUS
<1>6. \A i \in 1..3 : i = 1 \/ i = 2 \/ i = 3
  OBVIOUS
<1>7. \A i \in 0..3 : Demand(c, i) \in Nat
  BY <1>3, <1>4, <1>5
<1>8. \A i \in 1..3 : Demand(c, i) = Demand(c, i - 1) + Share(c, i)
  <2>1. /\ Demand(c, 1) = Demand(c, 0) + Share(c, 1)
        /\ Demand(c, 2) = Demand(c, 1) + Share(c, 2)
        /\ Demand(c, 3) = Demand(c, 2) + Share(c, 3)
    BY <1>3, <1>4
  <2>2. 1 - 1 = 0 /\ 2 - 1 = 1 /\ 3 - 1 = 2
    OBVIOUS
  <2> QED
    BY <1>6, <2>1, <2>2
<1> QED
  BY <1>1, <1>2, <1>7, <1>8

-----------------------------------------------------------------------------
(* What sections take *)

(* What a section takes is a number. *)
LEMMA CharsAre ==
  ASSUME NEW x \in Section
  PROVE  Chars(x) \in Nat
<1>1. Overhead[x.tag] \in Nat /\ Len(x.text) \in Nat
  BY ContextAssumption DEF Section, Text
<1> QED
  BY <1>1, ContextAssumption DEF Chars

(* What at most three sections take together, written out. *)
LEMMA TotalIs ==
  ASSUME NEW sections, sections # << >>
  PROVE  TotalChars(sections) =
           (IF 1 <= Len(sections) THEN Chars(sections[1]) + SeparatorChars ELSE 0)
             + (IF 2 <= Len(sections) THEN Chars(sections[2]) + SeparatorChars ELSE 0)
             + (IF 3 <= Len(sections) THEN Chars(sections[3]) + SeparatorChars ELSE 0)
             - SeparatorChars
BY Zenon DEF TotalChars

(* A section more takes its characters and, after another, a separator. *)
LEMMA OneMore ==
  ASSUME NEW sections \in Seq(Section), Len(sections) <= 2, NEW x \in Section
  PROVE  /\ TotalChars(sections) \in Nat
         /\ TotalChars(Append(sections, x)) =
              TotalChars(sections) + (IF sections = << >> THEN 0 ELSE SeparatorChars) + Chars(x)
<1> DEFINE all == Append(sections, x)
           n == Len(sections)
<1>1. /\ n \in Nat /\ n <= 2 /\ all \in Seq(Section) /\ Len(all) = n + 1 /\ all[n + 1] = x
      /\ \A i \in 1..n : all[i] = sections[i] /\ sections[i] \in Section
      /\ all # << >>
  BY AppendProperties
<1>2. SeparatorChars \in Nat /\ Chars(x) \in Nat /\ \A i \in 1..n : Chars(sections[i]) \in Nat
  BY <1>1, CharsAre, ContextAssumption
<1>3. n = 0 <=> sections = << >>
  BY EmptySeq
<1> HIDE DEF all, n
<1>4. n = 0 \/ n = 1 \/ n = 2
  BY <1>1
<1>5. CASE n = 0
  <2>1. TotalChars(sections) = 0
    BY <1>3, <1>5 DEF TotalChars
  <2>2. TotalChars(all) = Chars(x)
    BY <1>1, <1>2, <1>5 DEF TotalChars
  <2> QED
    BY <1>2, <1>3, <1>5, <2>1, <2>2 DEF all
<1>6. CASE n = 1
  <2>1. TotalChars(sections) = Chars(sections[1]) /\ Chars(sections[1]) \in Nat
    BY <1>2, <1>3, <1>6 DEF TotalChars, n
  <2>2. TotalChars(all) = Chars(sections[1]) + SeparatorChars + Chars(x)
    <3>1. all[1] = sections[1] /\ all[2] = x /\ 1 <= Len(all) /\ 2 <= Len(all) /\ ~(3 <= Len(all))
          /\ all # << >>
      BY <1>1, <1>6
    <3>2. TotalChars(all) = (Chars(all[1]) + SeparatorChars) + (Chars(all[2]) + SeparatorChars) + 0
                              - SeparatorChars
      BY ONLY <3>1, TotalIs
    <3> QED
      BY <1>2, <2>1, <3>1, <3>2
  <2> QED
    BY <1>2, <1>3, <1>6, <2>1, <2>2 DEF all
<1>7. CASE n = 2
  <2>1. /\ TotalChars(sections) = Chars(sections[1]) + SeparatorChars + Chars(sections[2])
        /\ Chars(sections[1]) \in Nat /\ Chars(sections[2]) \in Nat
    BY <1>2, <1>3, <1>7 DEF TotalChars, n
  <2>2. TotalChars(all) = Chars(sections[1]) + SeparatorChars + Chars(sections[2]) + SeparatorChars + Chars(x)
    <3>1. /\ all[1] = sections[1] /\ all[2] = sections[2] /\ all[3] = x
          /\ 1 <= Len(all) /\ 2 <= Len(all) /\ 3 <= Len(all) /\ all # << >>
      BY <1>1, <1>7
    <3>2. TotalChars(all) = (Chars(all[1]) + SeparatorChars) + (Chars(all[2]) + SeparatorChars)
                              + (Chars(all[3]) + SeparatorChars) - SeparatorChars
      BY ONLY <3>1, TotalIs
    <3> QED
      BY <1>2, <2>1, <3>1, <3>2
  <2> QED
    BY <1>2, <1>3, <1>7, <2>1, <2>2 DEF all
<1> QED
  BY <1>4, <1>5, <1>6, <1>7

(* What sections take together is a number. *)
LEMMA TotalNat ==
  ASSUME NEW sections \in Seq(Section), Len(sections) <= 3
  PROVE  TotalChars(sections) \in Nat
<1>1. \A i \in 1..Len(sections) : Chars(sections[i]) \in Nat
  BY CharsAre
<1>2. CASE sections = << >>
  BY <1>2 DEF TotalChars
<1>3. CASE sections # << >>
  <2>1. Len(sections) \in Nat /\ Len(sections) >= 1 /\ SeparatorChars \in Nat
    BY <1>3, EmptySeq, ContextAssumption
  <2>2. /\ Chars(sections[1]) \in Nat /\ (2 <= Len(sections) => Chars(sections[2]) \in Nat)
        /\ (3 <= Len(sections) => Chars(sections[3]) \in Nat)
    BY <1>1, <2>1
  <2> QED
    BY <1>3, <2>1, <2>2, TotalIs
<1> QED
  BY <1>2, <1>3

(* What a text is cut to is a beginning of it. *)
LEMMA PrefixIs ==
  ASSUME NEW text \in Text, NEW n \in Nat, n <= Len(text)
  PROVE  /\ SubSeq(text, 1, n) \in Text /\ Len(SubSeq(text, 1, n)) = n
         /\ IsPrefix(SubSeq(text, 1, n), text) /\ IsPrefix(text, text)
         /\ n = 0 => SubSeq(text, 1, n) = << >>
<1>1. /\ SubSeq(text, 1, n) \in Seq(Lines) /\ Len(SubSeq(text, 1, n)) = n /\ Len(text) \in Nat
      /\ \A i \in 1..n : SubSeq(text, 1, n)[i] = text[i]
  BY SubSeqProperties DEF Text
<1>2. ASSUME NEW part \in Seq(Lines), Len(part) = n
      PROVE  SubSeq(part, 1, n) = part /\ (n = 0 => part = << >>)
  BY <1>2, EmptySeq
<1>3. SubSeq(SubSeq(text, 1, n), 1, n) = SubSeq(text, 1, n) /\ (n = 0 => SubSeq(text, 1, n) = << >>)
  BY <1>1, <1>2
<1>4. IsPrefix(SubSeq(text, 1, n), text)
  BY <1>1, <1>3 DEF IsPrefix
<1>5. IsPrefix(text, text)
  BY <1>1 DEF IsPrefix
<1>6. SubSeq(text, 1, n) \in Text
  BY <1>1 DEF Text
<1> QED
  BY <1>1, <1>3, <1>4, <1>5, <1>6

-----------------------------------------------------------------------------
(* Assembly, section by section *)

(* The sections are whole or cut texts of the contents, in their order, and   *)
(* nothing comes after one that was cut.                                      *)
Ordered(sections, c, i) ==
  /\ \A k \in DOMAIN sections :
       /\ sections[k].tag = Tags[Place(sections[k].tag)]
       /\ Place(sections[k].tag) \in There(c) /\ Place(sections[k].tag) <= i
       /\ IsPrefix(sections[k].text, c[Place(sections[k].tag)])
       /\ sections[k].cut = TRUE => k = Len(sections)
  /\ \A k, l \in DOMAIN sections : k < l => Place(sections[k].tag) < Place(sections[l].tag)

(* The sections keep to the budget; an empty last one may exceed it by the suffix. *)
InBudget(sections, max) ==
  \/ TotalChars(sections) <= max
  \/ /\ sections # << >> /\ sections[Len(sections)].cut = TRUE
     /\ sections[Len(sections)].text = << >> /\ TotalChars(sections) < max + SuffixChars

(* What fits with all that comes before it is there in full.                  *)
Kept(sections, c, i, max) ==
  \A j \in There(c) : j <= i /\ Demand(c, j) <= max + SeparatorChars =>
    \E k \in DOMAIN sections : sections[k] = Whole(Tags[j], c[j])

(* The count is at least what the sections take, and exactly what is asked    *)
(* for as long as all of it fits.                                             *)
Counted(s, c, i, max) ==
  /\ s.running \in Nat /\ TotalChars(s.sections) <= s.running
  /\ s.sections = << >> => s.running = 0
  /\ s.sections # << >> /\ s.sections[Len(s.sections)].cut = TRUE => s.running >= max
  /\ Demand(c, i) <= max + SeparatorChars => Separated(s) = Demand(c, i)

(* What holds once the first i contents have been offered. *)
Assembled(s, c, i, max) ==
  /\ s.sections \in Seq(Section) /\ Len(s.sections) <= i
  /\ Ordered(s.sections, c, i) /\ InBudget(s.sections, max)
  /\ Kept(s.sections, c, i, max) /\ Counted(s, c, i, max)

(* It holds of the empty prompt. *)
LEMMA EmptyAssembled ==
  ASSUME NEW c \in Contents, NEW max \in Nat
  PROVE  Assembled(Empty, c, 0, max)
<1>1. Empty.sections = << >> /\ Empty.running = 0
  BY DEF Empty
<1>2. TotalChars(<< >>) = 0 /\ Separated(Empty) = 0 /\ Demand(c, 0) = 0
  BY <1>1 DEF TotalChars, Separated, Demand
<1>3. /\ << >> \in Seq(Section) /\ Len(<< >>) = 0 /\ (\A k \in DOMAIN << >> : FALSE)
  BY EmptySeq
<1>4. Ordered(<< >>, c, 0) /\ InBudget(<< >>, max)
  BY <1>2, <1>3 DEF Ordered, InBudget
<1>5. Kept(<< >>, c, 0, max)
  BY DemandGrows DEF Kept
<1> QED
  BY <1>1, <1>2, <1>3, <1>4, <1>5 DEF Assembled, Counted

(* A section that follows another pays for the separator. *)
LEMMA SeparatedIs ==
  ASSUME NEW s, s.running \in Nat, s.sections = << >> => s.running = 0
  PROVE  /\ Separated(s) \in Nat
         /\ s.sections = << >> => Separated(s) = 0
         /\ s.sections # << >> => Separated(s) = s.running + SeparatorChars
<1>1. SeparatorChars \in Nat
  BY ContextAssumption
<1>2. CASE s.sections = << >>
  BY <1>2 DEF Separated
<1>3. CASE s.sections # << >>
  BY <1>1, <1>3 DEF Separated
<1> QED
  BY <1>2, <1>3

(* A content that is not there, or for which there is no room.                *)
LEMMA NoSection ==
  ASSUME NEW c \in Contents, NEW max \in Nat, NEW i \in 1..3, NEW s, NEW r,
         Assembled(s, c, i - 1, max), r.sections = s.sections,
         \/ i \notin There(c) /\ r.running = s.running
         \/ /\ i \in There(c) /\ r.running = Separated(s)
            /\ max - Separated(s) - Overhead[Tags[i]] <= 0
  PROVE  Assembled(r, c, i, max)
<1>1. /\ s.sections \in Seq(Section) /\ Len(s.sections) <= i - 1
      /\ Ordered(s.sections, c, i - 1) /\ InBudget(s.sections, max)
      /\ Kept(s.sections, c, i - 1, max) /\ Counted(s, c, i - 1, max)
  BY DEF Assembled
<1>2. /\ Len(s.sections) \in Nat /\ s.running \in Nat /\ TotalChars(s.sections) <= s.running
      /\ (s.sections = << >> => s.running = 0)
  BY <1>1 DEF Counted
<1>3. /\ Separated(s) \in Nat /\ SeparatorChars \in Nat /\ Overhead[Tags[i]] \in Nat
      /\ (s.sections = << >> => Separated(s) = 0)
      /\ (s.sections # << >> => Separated(s) = s.running + SeparatorChars)
  BY <1>2, SeparatedIs, TagsAre, ContextAssumption
<1>4. /\ Demand(c, i) = Demand(c, i - 1) + Share(c, i) /\ Share(c, i) \in Nat
      /\ Demand(c, i - 1) \in Nat /\ Demand(c, i) \in Nat
  BY DemandGrows
<1>5. i \in There(c) =>
        /\ Share(c, i) = Overhead[Tags[i]] + Len(c[i]) + SeparatorChars
        /\ Len(c[i]) \in Nat /\ Len(c[i]) >= 1
  BY DemandGrows DEF Share
<1>6. i \in There(c) => Demand(c, i) > max + SeparatorChars
  <2> SUFFICES ASSUME i \in There(c), Demand(c, i) <= max + SeparatorChars PROVE FALSE
    BY <1>3, <1>4
  <2>1. Demand(c, i - 1) <= max + SeparatorChars
    BY <1>3, <1>4
  <2>2. Separated(s) = Demand(c, i - 1)
    BY <1>1, <2>1 DEF Counted
  <2> QED
    BY <1>3, <1>4, <1>5, <2>2
<1>7. r.running \in Nat /\ r.running >= s.running /\ (r.sections = << >> => r.running = 0)
  BY <1>2, <1>3
<1>8. Ordered(r.sections, c, i) /\ InBudget(r.sections, max)
  <2>1. \A k \in DOMAIN s.sections : Place(s.sections[k].tag) \in There(c) => Place(s.sections[k].tag) \in 1..3
    BY DemandGrows
  <2> QED
    BY <1>1, <2>1 DEF Ordered
<1>9. Kept(r.sections, c, i, max)
  <2> SUFFICES ASSUME NEW j \in There(c), j <= i, Demand(c, j) <= max + SeparatorChars
               PROVE  \E k \in DOMAIN s.sections : s.sections[k] = Whole(Tags[j], c[j])
    BY DEF Kept
  <2>1. j # i /\ j \in 1..3
    BY <1>3, <1>4, <1>6, DemandGrows
  <2>2. j <= i - 1
    BY <2>1
  <2> QED
    BY <1>1, <2>2 DEF Kept
<1>10. Counted(r, c, i, max)
  <2>1. TotalChars(r.sections) <= r.running
    <3>1. TotalChars(s.sections) \in Nat
      <4>1. CASE s.sections = << >>
        BY <4>1 DEF TotalChars
      <4>2. CASE s.sections # << >>
        BY <1>1, <4>2, TotalNat
      <4> QED
        BY <4>1, <4>2
    <3> QED
      BY <1>2, <1>7, <3>1
  <2>2. r.sections # << >> /\ r.sections[Len(r.sections)].cut = TRUE => r.running >= max
    BY <1>1, <1>2, <1>7 DEF Counted
  <2>3. Demand(c, i) <= max + SeparatorChars => Separated(r) = Demand(c, i)
    <3> SUFFICES ASSUME Demand(c, i) <= max + SeparatorChars PROVE Separated(r) = Demand(c, i)
      OBVIOUS
    <3>1. i \notin There(c)
      BY <1>3, <1>4, <1>6
    <3>2. Share(c, i) = 0 /\ r.running = s.running
      BY <3>1 DEF Share
    <3>3. Separated(r) = Separated(s)
      BY <3>2 DEF Separated
    <3> QED
      BY <1>1, <1>4, <3>2, <3>3 DEF Counted
  <2> QED
    BY <1>7, <2>1, <2>2, <2>3 DEF Counted
<1> QED
  BY <1>1, <1>2, <1>8, <1>9, <1>10 DEF Assembled

(* A section is its content, or what the room left over holds of it.          *)
Wrapped(x, tag, content, available) ==
  /\ x \in Section /\ x.tag = tag /\ IsPrefix(x.text, content)
  /\ Len(content) <= available =>
       x = Whole(tag, content) /\ x.cut = FALSE /\ Chars(x) = Overhead[tag] + Len(content)
  /\ Len(content) > available =>
       /\ x.cut = TRUE
       /\ \/ available >= SuffixChars /\ Chars(x) = Overhead[tag] + available
          \/ /\ available < SuffixChars /\ x.text = << >>
             /\ Chars(x) = Overhead[tag] + SuffixChars

(* A section that is wrapped holds its content or the part there is room for. *)
LEMMA WrapIs ==
  ASSUME NEW tag \in ToSet(Tags), NEW content \in Text, NEW available \in Nat \ {0}
  PROVE  Wrapped(WrapSection(tag, content, available), tag, content, available)
<1> DEFINE x == WrapSection(tag, content, available)
<1>1. x = WrapSection(tag, content, available)
  OBVIOUS
<1> HIDE DEF x
<1> SUFFICES Wrapped(x, tag, content, available)
  BY <1>1
<1>2. Overhead[tag] \in Nat /\ SuffixChars \in Nat /\ Len(content) \in Nat
  BY ContextAssumption DEF Text
<1>3. IsPrefix(content, content)
  BY <1>2, PrefixIs
<1>4. CASE Len(content) <= available
  <2>1. x = Whole(tag, content)
    BY <1>1, <1>4 DEF WrapSection
  <2>2. x.tag = tag /\ x.text = content /\ x.cut = FALSE /\ x \in Section
    BY <2>1 DEF Whole, Section
  <2>3. Chars(x) = Overhead[tag] + Len(content)
    BY <1>2, <2>2 DEF Chars
  <2> QED
    BY <1>2, <1>3, <1>4, <2>1, <2>2, <2>3 DEF Wrapped
<1>5. CASE ~(Len(content) <= available)
  <2> DEFINE n == IF available < SuffixChars THEN 0 ELSE available - SuffixChars
             part == SubSeq(content, 1, n)
  <2>1. n \in Nat /\ n <= Len(content)
    BY <1>2, <1>5
  <2>2. x = [tag |-> tag, cut |-> TRUE, text |-> part]
    BY <1>1, <1>5 DEF WrapSection, Cut
  <2>3. /\ part \in Text /\ Len(part) = n /\ IsPrefix(part, content)
        /\ n = 0 => part = << >>
    BY <2>1, PrefixIs
  <2>4. /\ available < SuffixChars => n = 0
        /\ ~(available < SuffixChars) => n = available - SuffixChars
    OBVIOUS
  <2> HIDE DEF part, n
  <2>5. x.tag = tag /\ x.text = part /\ x.cut = TRUE /\ x \in Section
    BY <2>2, <2>3 DEF Section
  <2>6. Chars(x) = Overhead[tag] + n + SuffixChars
    BY <2>3, <2>5 DEF Chars
  <2>7. CASE available < SuffixChars
    <3>1. n = 0 /\ part = << >>
      BY <2>3, <2>4, <2>7
    <3> QED
      BY <1>2, <1>5, <2>3, <2>5, <2>6, <2>7, <3>1 DEF Wrapped
  <2>8. CASE ~(available < SuffixChars)
    <3>1. Chars(x) = Overhead[tag] + available
      BY <1>2, <2>4, <2>6, <2>8
    <3> QED
      BY <1>2, <1>5, <2>3, <2>5, <2>8, <3>1 DEF Wrapped
  <2> QED
    BY <2>7, <2>8
<1> QED
  BY <1>4, <1>5

(* A content that is given some room. *)
LEMMA SectionAdded ==
  ASSUME NEW c \in Contents, NEW max \in Nat, NEW i \in 1..3, NEW s, NEW r, NEW x,
         Assembled(s, c, i - 1, max), i \in There(c),
         max - Separated(s) - Overhead[Tags[i]] > 0,
         x = WrapSection(Tags[i], c[i], max - Separated(s) - Overhead[Tags[i]]),
         r.sections = Append(s.sections, x), r.running = Separated(s) + Chars(x)
  PROVE  Assembled(r, c, i, max)
<1> DEFINE available == max - Separated(s) - Overhead[Tags[i]]
           n == Len(s.sections)
<1>1. /\ s.sections \in Seq(Section) /\ Len(s.sections) <= i - 1
      /\ Ordered(s.sections, c, i - 1)
      /\ Kept(s.sections, c, i - 1, max) /\ Counted(s, c, i - 1, max)
  BY DEF Assembled
<1>2. /\ n \in Nat /\ n <= 2 /\ s.running \in Nat /\ TotalChars(s.sections) <= s.running
      /\ (s.sections = << >> => s.running = 0)
  BY <1>1 DEF Counted
<1>3. /\ Separated(s) \in Nat /\ SeparatorChars \in Nat /\ Overhead[Tags[i]] \in Nat
      /\ SuffixChars \in Nat /\ Tags[i] \in ToSet(Tags)
      /\ (s.sections = << >> => Separated(s) = 0)
      /\ (s.sections # << >> => Separated(s) = s.running + SeparatorChars)
  BY <1>2, SeparatedIs, TagsAre, ContextAssumption
<1>4. /\ Demand(c, i) = Demand(c, i - 1) + Share(c, i) /\ Demand(c, i - 1) \in Nat
      /\ Share(c, i) = Overhead[Tags[i]] + Len(c[i]) + SeparatorChars
      /\ c[i] \in Text /\ Len(c[i]) \in Nat
  BY DemandGrows DEF Share
<1>5. available \in Nat \ {0} /\ available = max - Separated(s) - Overhead[Tags[i]]
  BY <1>3
<1> HIDE DEF available
<1>6. /\ x \in Section /\ x.tag = Tags[i] /\ IsPrefix(x.text, c[i])
      /\ Len(c[i]) <= available =>
           x = Whole(Tags[i], c[i]) /\ x.cut = FALSE /\ Chars(x) = Overhead[Tags[i]] + Len(c[i])
      /\ Len(c[i]) > available =>
           /\ x.cut = TRUE
           /\ \/ available >= SuffixChars /\ Chars(x) = Overhead[Tags[i]] + available
              \/ /\ available < SuffixChars /\ x.text = << >>
                 /\ Chars(x) = Overhead[Tags[i]] + SuffixChars
  <2>1. x = WrapSection(Tags[i], c[i], available)
    BY <1>5
  <2>2. Tags[i] \in ToSet(Tags) /\ c[i] \in Text /\ available \in Nat \ {0}
    BY <1>3, <1>4, <1>5
  <2>3. Wrapped(x, Tags[i], c[i], available)
    BY ONLY <2>1, <2>2, WrapIs
  <2> QED
    BY <2>3 DEF Wrapped
<1>7. Chars(x) \in Nat
  BY <1>6, CharsAre
<1>8. /\ r.sections \in Seq(Section) /\ Len(r.sections) = n + 1 /\ r.sections[n + 1] = x
      /\ DOMAIN r.sections = 1..(n + 1) /\ DOMAIN s.sections = 1..n /\ r.sections # << >>
      /\ \A k \in 1..n : r.sections[k] = s.sections[k]
  BY <1>1, <1>2, <1>6, AppendProperties
<1>9. TotalChars(s.sections) \in Nat
      /\ TotalChars(r.sections) =
           TotalChars(s.sections) + (IF s.sections = << >> THEN 0 ELSE SeparatorChars) + Chars(x)
  BY <1>1, <1>2, <1>6, OneMore
<1>10. TotalChars(r.sections) \in Nat /\ TotalChars(r.sections) <= r.running /\ r.running \in Nat
  <2>1. CASE s.sections = << >>
    BY <1>2, <1>3, <1>7, <1>9, <2>1
  <2>2. CASE s.sections # << >>
    <3>1. TotalChars(r.sections) = TotalChars(s.sections) + SeparatorChars + Chars(x)
      BY <1>9, <2>2
    <3>2. r.running = s.running + SeparatorChars + Chars(x)
      BY <1>3, <2>2
    <3> QED
      BY ONLY <1>2, <1>3, <1>7, <1>9, <3>1, <3>2
  <2> QED
    BY <2>1, <2>2
<1>11. \/ /\ Len(c[i]) <= available /\ r.running <= max /\ x.cut = FALSE
       \/ /\ Len(c[i]) > available /\ x.cut = TRUE /\ r.running = max
       \/ /\ Len(c[i]) > available /\ x.cut = TRUE /\ x.text = << >>
          /\ r.running >= max /\ r.running < max + SuffixChars
  <2>1. /\ Separated(s) \in Nat /\ Overhead[Tags[i]] \in Nat /\ SuffixChars \in Nat
        /\ Len(c[i]) \in Nat /\ Chars(x) \in Nat /\ available \in Nat \ {0}
        /\ available = max - Separated(s) - Overhead[Tags[i]]
        /\ r.running = Separated(s) + Chars(x)
    BY <1>3, <1>4, <1>5, <1>7
  <2>2. CASE Len(c[i]) <= available
    <3>1. Chars(x) = Overhead[Tags[i]] + Len(c[i]) /\ x.cut = FALSE
      BY <1>6, <2>2
    <3>2. r.running <= max
      BY ONLY <2>1, <2>2, <3>1, max \in Nat
    <3> QED
      BY <2>2, <3>1, <3>2
  <2>3. CASE Len(c[i]) > available /\ available >= SuffixChars /\ Chars(x) = Overhead[Tags[i]] + available
    <3>1. r.running = max
      BY ONLY <2>1, <2>3, max \in Nat
    <3> QED
      BY <1>6, <2>3, <3>1
  <2>4. CASE /\ Len(c[i]) > available /\ available < SuffixChars /\ x.text = << >>
             /\ Chars(x) = Overhead[Tags[i]] + SuffixChars
    <3>1. r.running >= max /\ r.running < max + SuffixChars
      BY ONLY <2>1, <2>4, max \in Nat
    <3> QED
      BY <1>6, <2>4, <3>1
  <2>5. Len(c[i]) <= available \/ Len(c[i]) > available
    BY <2>1
  <2> QED
    BY <1>6, <2>2, <2>3, <2>4, <2>5
<1>12. \A k \in 1..n : s.sections[k].cut # TRUE
  <2> SUFFICES ASSUME NEW k \in 1..n, s.sections[k].cut = TRUE PROVE FALSE
    OBVIOUS
  <2>1. k = n /\ s.sections # << >>
    BY <1>1, <1>2, <1>8, EmptySeq DEF Ordered
  <2>2. s.running >= max
    BY <1>1, <2>1 DEF Counted
  <2> QED
    BY <1>2, <1>3, <1>5, <2>1, <2>2
<1>13. Place(Tags[i]) = i /\ \A k \in There(c) : k \in 1..3
  BY PlaceOfTag, DemandGrows
<1>14. Ordered(r.sections, c, i)
  <2>1. ASSUME NEW k \in 1..(n + 1)
        PROVE  /\ r.sections[k].tag = Tags[Place(r.sections[k].tag)]
               /\ Place(r.sections[k].tag) \in There(c) /\ Place(r.sections[k].tag) <= i
               /\ IsPrefix(r.sections[k].text, c[Place(r.sections[k].tag)])
               /\ r.sections[k].cut = TRUE => k = Len(r.sections)
               /\ k # n + 1 => Place(r.sections[k].tag) <= i - 1
    <3>1. CASE k = n + 1
      BY <1>6, <1>8, <1>13, <3>1
    <3>2. CASE k # n + 1
      <4>1. k \in 1..n /\ r.sections[k] = s.sections[k]
        BY <1>2, <1>8, <3>2
      <4>2. /\ s.sections[k].tag = Tags[Place(s.sections[k].tag)]
            /\ Place(s.sections[k].tag) \in There(c) /\ Place(s.sections[k].tag) <= i - 1
            /\ IsPrefix(s.sections[k].text, c[Place(s.sections[k].tag)])
        BY <1>1, <1>8, <4>1 DEF Ordered
      <4>3. Place(s.sections[k].tag) <= i
        <5>1. Place(s.sections[k].tag) \in 1..3
          BY <1>13, <4>2
        <5> QED
          BY <4>2, <5>1
      <4> QED
        BY <1>12, <3>2, <4>1, <4>2, <4>3
    <3> QED
      BY <3>1, <3>2
  <2>2. ASSUME NEW k \in 1..(n + 1), NEW l \in 1..(n + 1), k < l
        PROVE  Place(r.sections[k].tag) < Place(r.sections[l].tag)
    <3>1. k \in 1..n /\ k # n + 1 /\ r.sections[k] = s.sections[k]
      BY <1>2, <1>8, <2>2
    <3>2. CASE l = n + 1
      <4>1. Place(r.sections[k].tag) \in There(c) /\ Place(r.sections[k].tag) <= i - 1
        BY <2>1, <3>1
      <4>2. Place(r.sections[k].tag) \in 1..3
        BY <1>13, <4>1
      <4>3. Place(r.sections[l].tag) = i
        BY <1>6, <1>8, <1>13, <3>2
      <4> QED
        BY <4>1, <4>2, <4>3
    <3>3. CASE l # n + 1
      <4>1. l \in 1..n /\ r.sections[l] = s.sections[l]
        BY <1>2, <1>8, <3>3
      <4> QED
        BY <1>1, <1>8, <2>2, <3>1, <4>1 DEF Ordered
    <3> QED
      BY <3>2, <3>3
  <2> QED
    BY <1>8, <2>1, <2>2 DEF Ordered
<1>15. InBudget(r.sections, max)
  BY <1>3, <1>8, <1>10, <1>11 DEF InBudget
<1>16. Demand(c, i) <= max + SeparatorChars =>
         /\ Demand(c, i - 1) <= max + SeparatorChars
         /\ Separated(s) = Demand(c, i - 1) /\ Len(c[i]) <= available
  <2> SUFFICES ASSUME Demand(c, i) <= max + SeparatorChars
               PROVE  /\ Demand(c, i - 1) <= max + SeparatorChars
                      /\ Separated(s) = Demand(c, i - 1) /\ Len(c[i]) <= available
    OBVIOUS
  <2>1. Demand(c, i - 1) <= max + SeparatorChars
    BY <1>3, <1>4
  <2>2. Separated(s) = Demand(c, i - 1)
    BY <1>1, <2>1 DEF Counted
  <2> QED
    BY <1>3, <1>4, <1>5, <2>1, <2>2
<1>17. Kept(r.sections, c, i, max)
  <2> SUFFICES ASSUME NEW j \in There(c), j <= i, Demand(c, j) <= max + SeparatorChars
               PROVE  \E k \in DOMAIN r.sections : r.sections[k] = Whole(Tags[j], c[j])
    BY DEF Kept
  <2>1. CASE j = i
    <3>1. x = Whole(Tags[j], c[j])
      BY <1>6, <1>16, <2>1
    <3> QED
      BY <1>2, <1>8, <3>1
  <2>2. CASE j # i
    <3>1. j <= i - 1
      BY <1>13, <2>2
    <3>2. PICK k \in 1..n : s.sections[k] = Whole(Tags[j], c[j])
      BY <1>1, <1>8, <3>1 DEF Kept
    <3> QED
      BY <1>2, <1>8, <3>2
  <2> QED
    BY <2>1, <2>2
<1>18. Counted(r, c, i, max)
  <2>1. r.sections[Len(r.sections)].cut = TRUE => r.running >= max
    BY <1>8, <1>11
  <2>2. Demand(c, i) <= max + SeparatorChars => Separated(r) = Demand(c, i)
    <3> SUFFICES ASSUME Demand(c, i) <= max + SeparatorChars PROVE Separated(r) = Demand(c, i)
      OBVIOUS
    <3>1. Separated(s) = Demand(c, i - 1) /\ Chars(x) = Overhead[Tags[i]] + Len(c[i])
      BY <1>6, <1>16
    <3>2. Separated(r) = r.running + SeparatorChars
      BY <1>8, <1>10, SeparatedIs
    <3> QED
      BY <1>3, <1>4, <3>1, <3>2
  <2> QED
    BY <1>8, <1>10, <2>1, <2>2 DEF Counted
<1>19. Len(r.sections) <= i
  BY <1>1, <1>2, <1>8
<1> QED
  BY <1>8, <1>14, <1>15, <1>17, <1>18, <1>19 DEF Assembled

(* A prompt being assembled. *)
Assembly == [sections : Seq(Section), running : Nat]

(* Offering the next content keeps what holds. *)
LEMMA AddSectionAssembles ==
  ASSUME NEW c \in Contents, NEW max \in Nat, NEW i \in 1..3, NEW s \in Assembly,
         Assembled(s, c, i - 1, max)
  PROVE  /\ AddSection(s, Tags[i], c[i], max) \in Assembly
         /\ Assembled(AddSection(s, Tags[i], c[i], max), c, i, max)
<1> DEFINE r == AddSection(s, Tags[i], c[i], max)
           available == max - Separated(s) - Overhead[Tags[i]]
           x == WrapSection(Tags[i], c[i], available)
<1>1. r = CASE c[i] = None \/ c[i] = << >> -> s
            [] c[i] # None /\ c[i] # << >> /\ available <= 0 -> [s EXCEPT !.running = Separated(s)]
            [] c[i] # None /\ c[i] # << >> /\ available > 0 ->
                 [sections |-> Append(s.sections, x), running |-> Separated(s) + Chars(x)]
  BY DEF AddSection
<1>2. available \in Int /\ Separated(s) \in Nat /\ s.sections \in Seq(Section)
  <2>1. s.running \in Nat /\ (s.sections = << >> => s.running = 0) /\ s.sections \in Seq(Section)
    BY DEF Assembled, Counted
  <2> QED
    BY <2>1, SeparatedIs, TagsAre
<1>3. i \in There(c) <=> c[i] # None /\ c[i] # << >>
  BY DEF There
<1>4. available = max - Separated(s) - Overhead[Tags[i]] /\ x = WrapSection(Tags[i], c[i], available)
  OBVIOUS
<1> HIDE DEF r, available, x
<1>5. CASE i \notin There(c)
  <2>1. r = s
    BY <1>1, <1>3, <1>5
  <2>2. Assembled(r, c, i, max)
    BY <1>5, <2>1, NoSection
  <2> QED
    BY <2>1, <2>2 DEF r
<1>6. CASE i \in There(c) /\ available <= 0
  <2>1. r = [s EXCEPT !.running = Separated(s)]
    BY <1>1, <1>2, <1>3, <1>6
  <2>2. r \in Assembly /\ r.sections = s.sections /\ r.running = Separated(s)
    BY <1>2, <2>1 DEF Assembly
  <2>3. max - Separated(s) - Overhead[Tags[i]] <= 0
    BY <1>4, <1>6
  <2>4. Assembled(r, c, i, max)
    BY <1>6, <2>2, <2>3, NoSection
  <2> QED
    BY <2>2, <2>4 DEF r
<1>7. CASE i \in There(c) /\ available > 0
  <2>1. r = [sections |-> Append(s.sections, x), running |-> Separated(s) + Chars(x)]
    BY <1>1, <1>2, <1>3, <1>7
  <2>2. r.sections = Append(s.sections, x) /\ r.running = Separated(s) + Chars(x)
    BY <2>1
  <2>3. /\ max - Separated(s) - Overhead[Tags[i]] > 0
        /\ x = WrapSection(Tags[i], c[i], max - Separated(s) - Overhead[Tags[i]])
    BY <1>4, <1>7
  <2>4. Assembled(r, c, i, max)
    BY <1>7, <2>2, <2>3, SectionAdded
  <2>5. r \in Assembly
    BY <2>1, <2>2, <2>4 DEF Assembly, Assembled, Counted
  <2> QED
    BY <2>4, <2>5 DEF r
<1> QED
  BY <1>2, <1>5, <1>6, <1>7

(* So it holds of the prompt when all three have been offered. *)
LEMMA AssemblyFits ==
  ASSUME NEW c \in Contents, NEW max_tokens \in Nat
  PROVE  \E s \in Assembly : /\ s.sections = AssembleWithBudget(c[1], c[2], c[3], max_tokens)
                             /\ Assembled(s, c, 3, max_tokens * CharsPerToken)
<1> DEFINE max == max_tokens * CharsPerToken
           one == AddSection(Empty, Tags[1], c[1], max)
           two == AddSection(one, Tags[2], c[2], max)
           three == AddSection(two, Tags[3], c[3], max)
<1>1. AssembleWithBudget(c[1], c[2], c[3], max_tokens) = three.sections
  BY DEF AssembleWithBudget
<1>2. max \in Nat
  BY ContextAssumption
<1>3. max = max_tokens * CharsPerToken
  OBVIOUS
<1>4. /\ one = AddSection(Empty, Tags[1], c[1], max) /\ two = AddSection(one, Tags[2], c[2], max)
      /\ three = AddSection(two, Tags[3], c[3], max)
  OBVIOUS
<1> HIDE DEF max, one, two, three
<1>5. Empty \in Assembly /\ Assembled(Empty, c, 0, max)
  BY <1>2, EmptyAssembled, EmptySeq DEF Empty, Assembly
<1>6. 1 - 1 = 0 /\ 2 - 1 = 1 /\ 3 - 1 = 2 /\ 1 \in 1..3 /\ 2 \in 1..3 /\ 3 \in 1..3
  OBVIOUS
<1>7. one \in Assembly /\ Assembled(one, c, 1, max)
  BY <1>2, <1>4, <1>5, <1>6, AddSectionAssembles
<1>8. two \in Assembly /\ Assembled(two, c, 2, max)
  BY <1>2, <1>4, <1>6, <1>7, AddSectionAssembles
<1>9. three \in Assembly /\ Assembled(three, c, 3, max)
  BY <1>2, <1>4, <1>6, <1>8, AddSectionAssembles
<1> QED
  BY <1>1, <1>3, <1>9

-----------------------------------------------------------------------------
(* What build_context is given *)

(* The three contents of a request. *)
Sources(profile, summary, intent, embedded, graph) ==
  << IF profile = None THEN None ELSE FormatStudentProfile(profile), summary,
     Retrieve(intent, profile, embedded, graph) >>

(* A word is a text. *)
LEMMA OneWord ==
  ASSUME NEW word \in Lines
  PROVE  << word >> \in Seq(Lines) /\ Len(<< word >>) = 1
OBVIOUS

(* Two texts make a text. *)
LEMMA TextsJoin ==
  ASSUME NEW one \in Seq(Lines), NEW two \in Seq(Lines)
  PROVE  one \o two \in Seq(Lines)
OBVIOUS

(* The contents of a request are texts, and a failed graph gives none. *)
LEMMA SourcesAreContents ==
  ASSUME NEW profile \in Profiles, NEW summary \in Summaries, NEW intent,
         NEW embedded \in BOOLEAN, NEW graph \in Graphs
  PROVE  /\ Sources(profile, summary, intent, embedded, graph) \in Contents
         /\ profile # None => FormatStudentProfile(profile) \in Text \ {<< >>}
         /\ graph = None => Retrieve(intent, profile, embedded, graph) = None
<1>1. None \notin Text
  BY ReadAssumption DEF Text
<1>2. ASSUME profile # None
      PROVE  FormatStudentProfile(profile) \in Text /\ FormatStudentProfile(profile) # << >>
  <2>1. profile.completed \in Seq(Lines) /\ profile.decisions \in Seq(Lines)
    BY <1>2, ReadAssumption
  <2> DEFINE n == IF Len(profile.decisions) <= MaxDecisions THEN Len(profile.decisions) ELSE MaxDecisions
             latest == SubSeq(profile.decisions, 1, n)
             completed == IF profile.completed = << >> THEN << "none" >> ELSE profile.completed
  <2>2. n \in Nat /\ n <= Len(profile.decisions)
    BY <2>1, ContextAssumption
  <2>3. latest \in Seq(Lines)
    BY <2>1, <2>2, PrefixIs DEF Text
  <2>4. << "program" >> \in Seq(Lines) /\ Len(<< "program" >>) = 1 /\ completed \in Seq(Lines)
    <3>1. << "program" >> \in Seq(Lines) /\ Len(<< "program" >>) = 1 /\ << "none" >> \in Seq(Lines)
      BY OneWord, ReadAssumption
    <3>2. CASE profile.completed = << >>
      BY <3>1, <3>2
    <3>3. CASE profile.completed # << >>
      BY <2>1, <3>1, <3>3
    <3> QED
      BY <3>2, <3>3
  <2>5. FormatStudentProfile(profile) = << "program" >> \o completed \o latest
    BY DEF FormatStudentProfile
  <2> HIDE DEF latest, completed
  <2>6. << "program" >> \o completed \in Seq(Lines) /\ Len(<< "program" >> \o completed) >= 1
    BY <2>4
  <2> QED
    BY <2>3, <2>5, <2>6, EmptySeq DEF Text
<1>3. Retrieve(intent, profile, embedded, graph) \in Text \cup {None}
  <2>1. CASE graph = None
    BY <2>1 DEF Retrieve
  <2>2. CASE graph # None
    <3>1. /\ graph.courses \in Text /\ graph.edges \in Text
          /\ graph.requirements = None \/ graph.requirements \in Text
      BY <2>2, ReadAssumption DEF Text
    <3>2. RetrieveForPrereqCheck(graph) \in Text
      <4>1. << "blank" >> \in Seq(Lines) /\ << "course" >> \in Seq(Lines) /\ << "none" >> \in Seq(Lines)
        BY OneWord, ReadAssumption
      <4>2. FormatPrereqChain(graph.edges) \in Seq(Lines)
        <5>1. CASE graph.edges = << >>
          <6>1. FormatPrereqChain(graph.edges) = << "course" >> \o << "none" >>
            BY <5>1 DEF FormatPrereqChain
          <6> QED
          <7>1. << "course" >> \o << "none" >> \in Seq(Lines)
              BY <4>1, TextsJoin
          <7> QED
              BY <6>1, <7>1
        <5>2. CASE graph.edges # << >>
          <6>1. FormatPrereqChain(graph.edges) = << "course" >> \o graph.edges
            BY <5>2 DEF FormatPrereqChain
          <6> QED
            BY <3>1, <4>1, <6>1, TextsJoin DEF Text
        <5> QED
          BY <5>1, <5>2
      <4>3. CASE graph.courses = << >>
        BY <3>1, <4>3 DEF RetrieveForPrereqCheck
      <4>4. CASE graph.courses # << >>
        <5>1. RetrieveForPrereqCheck(graph) = graph.courses \o << "blank" >> \o FormatPrereqChain(graph.edges)
          BY <4>4 DEF RetrieveForPrereqCheck
        <5>2. graph.courses \o << "blank" >> \in Seq(Lines)
          BY <3>1, <4>1, TextsJoin DEF Text
        <5> QED
          BY <4>2, <5>1, <5>2, TextsJoin DEF Text
      <4> QED
        BY <4>3, <4>4
    <3>3. \A program : RetrieveForDegreePlanning(graph, program) \in Text
      <4>1. << "not found" >> \in Seq(Lines) /\ << "degree" >> \in Seq(Lines) /\ << >> \in Seq(Lines)
        BY OneWord, ReadAssumption, EmptySeq
      <4>2. FormatDegreeRequirements(graph.requirements) \in Seq(Lines)
        <5>1. CASE graph.requirements = None
          BY <4>1, <5>1 DEF FormatDegreeRequirements
        <5>2. CASE graph.requirements # None
          <6>1. FormatDegreeRequirements(graph.requirements) = << "degree" >> \o graph.requirements
            BY <5>2 DEF FormatDegreeRequirements
          <6> QED
            BY <3>1, <4>1, <5>2, <6>1, TextsJoin DEF Text
        <5> QED
          BY <5>1, <5>2
      <4> QED
        BY <4>1, <4>2 DEF RetrieveForDegreePlanning, Text
    <3> QED
      BY <2>2, <3>1, <3>2, <3>3, Zenon DEF Retrieve
  <2> QED
    BY <2>1, <2>2
<1>4. graph = None => Retrieve(intent, profile, embedded, graph) = None
  BY Zenon DEF Retrieve
<1>5. summary \in Text \cup {None}
  BY ReadAssumption DEF Text
<1>6. Sources(profile, summary, intent, embedded, graph) \in Contents
  <2>1. (IF profile = None THEN None ELSE FormatStudentProfile(profile)) \in Text \cup {None}
    BY <1>2
  <2> QED
    BY <1>3, <1>5, <2>1 DEF Sources, Contents
<1> QED
  BY <1>2, <1>4, <1>6

-----------------------------------------------------------------------------
(* The requests for a context *)

(* A request as build_context is asked and answers it. *)
Request(profile, summary, intent, embedded, graph, max_tokens) ==
  /\ input = [profile |-> profile, summary |-> summary, intent |-> intent, embedded |-> embedded,
              graph |-> graph, max_tokens |-> max_tokens]
  /\ answer = BuildContext(intent, profile, embedded, graph, summary, max_tokens)

(* The invariant: a context that is shown answers such a request. *)
Requested ==
  handler = "context" =>
    \E profile \in Profiles, summary \in Summaries, intent \in Intents, embedded \in BOOLEAN,
       graph \in Graphs, max_tokens \in Budgets :
      Request(profile, summary, intent, embedded, graph, max_tokens)

(* What a section needs is the demand up to it. *)
LEMMA NeededIs ==
  ASSUME NEW i \in Present, ContextSources \in Contents
  PROVE  Needed(i) = Demand(ContextSources, i) - SeparatorChars
<1> DEFINE c == ContextSources
           Taken(k) == IF k \in Present /\ k <= i
                         THEN Overhead[Tags[k]] + Len(c[k]) + SeparatorChars ELSE 0
<1>1. Present = There(c)
  BY DEF Present, There
<1>2. i = 1 \/ i = 2 \/ i = 3
  BY DEF Present
<1>3. Needed(i) = Taken(1) + Taken(2) + Taken(3) - SeparatorChars
  BY Zenon DEF Needed
<1>4. \A k \in 1..3 : Taken(k) = IF k <= i THEN Share(c, k) ELSE 0
  BY <1>1 DEF Share
<1>5. /\ Share(c, 1) \in Nat /\ Share(c, 2) \in Nat /\ Share(c, 3) \in Nat /\ SeparatorChars \in Nat
  BY DemandGrows, ContextAssumption
<1> HIDE DEF c, Taken
<1>6. CASE i = 1
  <2>1. Taken(1) = Share(c, 1) /\ Taken(2) = 0 /\ Taken(3) = 0
    BY <1>4, <1>6
  <2>2. Demand(c, i) = Share(c, 1)
    BY <1>6 DEF Demand
  <2> QED
    BY <1>3, <1>5, <2>1, <2>2 DEF c
<1>7. CASE i = 2
  <2>1. Taken(1) = Share(c, 1) /\ Taken(2) = Share(c, 2) /\ Taken(3) = 0
    BY <1>4, <1>7
  <2>2. Demand(c, i) = Share(c, 1) + Share(c, 2)
    BY <1>7 DEF Demand
  <2> QED
    BY <1>3, <1>5, <2>1, <2>2 DEF c
<1>8. CASE i = 3
  <2>1. Taken(1) = Share(c, 1) /\ Taken(2) = Share(c, 2) /\ Taken(3) = Share(c, 3)
    BY <1>4, <1>8
  <2>2. Demand(c, i) = Share(c, 1) + Share(c, 2) + Share(c, 3)
    BY <1>8 DEF Demand
  <2> QED
    BY <1>3, <1>5, <2>1, <2>2 DEF c
<1> QED
  BY <1>2, <1>6, <1>7, <1>8

(* A context that answers a request keeps to its budget and its order. *)
LEMMA RequestFits ==
  ASSUME NEW profile \in Profiles, NEW summary \in Summaries, NEW intent, NEW embedded \in BOOLEAN,
         NEW graph \in Graphs, NEW max_tokens \in Budgets,
         Request(profile, summary, intent, embedded, graph, max_tokens)
  PROVE  WithinBudget /\ Prioritised /\ FailuresAlone
<1>1. /\ input.profile = profile /\ input.summary = summary /\ input.intent = intent
      /\ input.embedded = embedded /\ input.graph = graph /\ input.max_tokens = max_tokens
  BY DEF Request
<1>2. PICK c : c = Sources(profile, summary, intent, embedded, graph)
  OBVIOUS
<1>3. ContextSources = c
  BY <1>1, <1>2, Zenon DEF ContextSources, Sources
<1>4. /\ c \in Contents
      /\ profile # None => c[1] \notin {None, << >>}
      /\ graph = None => c[3] = None
  <2>1. c[3] = Retrieve(intent, profile, embedded, graph)
        /\ (profile # None => c[1] = FormatStudentProfile(profile))
    BY <1>2 DEF Sources
  <2>2. None \notin Text
    BY ReadAssumption DEF Text
  <2> QED
    BY <1>2, <2>1, <2>2, SourcesAreContents
<1>5. PICK max : max = max_tokens * CharsPerToken
  OBVIOUS
<1>6. max \in Nat /\ max_tokens \in Nat /\ SeparatorChars \in Nat
  <2>1. max_tokens \in Nat /\ CharsPerToken \in Nat /\ SeparatorChars \in Nat
    BY ReadAssumption, ContextAssumption
  <2> QED
    BY ONLY <1>5, <2>1
<1>7. answer = AssembleWithBudget(c[1], c[2], c[3], max_tokens)
  BY <1>2 DEF Request, BuildContext, Sources
<1>8. PICK s \in Assembly : s.sections = answer /\ Assembled(s, c, 3, max)
  BY <1>4, <1>5, <1>6, <1>7, AssemblyFits
<1>9. /\ answer \in Seq(Section) /\ Ordered(answer, c, 3) /\ InBudget(answer, max)
      /\ Kept(answer, c, 3, max)
  BY <1>8 DEF Assembled
<1>10. Present = There(c) /\ \A i \in Present : i \in 1..3
  BY <1>3 DEF Present, There
<1>11. ASSUME NEW i \in Present, Needed(i) <= max
       PROVE  \E k \in DOMAIN answer : answer[k] = Whole(Tags[i], c[i])
  <2>1. Needed(i) = Demand(c, i) - SeparatorChars
    BY <1>3, <1>4, NeededIs
  <2>2. Demand(c, i) \in Nat /\ i <= 3
    BY <1>4, <1>10, DemandGrows
  <2>3. Demand(c, i) <= max + SeparatorChars
    BY <1>6, <1>11, <2>1, <2>2
  <2> QED
    BY <1>9, <1>10, <2>2, <2>3 DEF Kept
<1>12. \A k \in DOMAIN answer :
         /\ answer[k].tag = Tags[Place(answer[k].tag)]
         /\ Place(answer[k].tag) \in Present /\ Place(answer[k].tag) \in 1..3
         /\ IsPrefix(answer[k].text, c[Place(answer[k].tag)])
         /\ answer[k].cut \in BOOLEAN /\ (answer[k].cut = TRUE => k = Len(answer))
  <2> SUFFICES ASSUME NEW k \in DOMAIN answer
               PROVE  /\ answer[k].tag = Tags[Place(answer[k].tag)]
                      /\ Place(answer[k].tag) \in Present /\ Place(answer[k].tag) \in 1..3
                      /\ IsPrefix(answer[k].text, c[Place(answer[k].tag)])
                      /\ answer[k].cut \in BOOLEAN /\ (answer[k].cut = TRUE => k = Len(answer))
    OBVIOUS
  <2>1. /\ answer[k].tag = Tags[Place(answer[k].tag)] /\ Place(answer[k].tag) \in There(c)
        /\ IsPrefix(answer[k].text, c[Place(answer[k].tag)])
        /\ answer[k].cut = TRUE => k = Len(answer)
    BY <1>9 DEF Ordered
  <2>2. answer[k].cut \in BOOLEAN
    <3>1. answer[k] \in Section
      BY <1>9
    <3> QED
      BY <3>1 DEF Section
  <2> QED
    BY <1>10, <2>1, <2>2
<1>13. \A k, l \in DOMAIN answer : k < l => Place(answer[k].tag) < Place(answer[l].tag)
  BY <1>9 DEF Ordered
<1>14. WithinBudget
  <2>1. Last(answer) = answer[Len(answer)]
    BY DEF Last
  <2>2. input.max_tokens * CharsPerToken = max
    BY <1>1, <1>5
  <2>3. answer[Len(answer)].cut = TRUE => answer[Len(answer)].cut
    OBVIOUS
  <2> QED
    BY <1>9, <2>1, <2>2, <2>3, Zenon DEF WithinBudget, InBudget
<1>15. Prioritised
  <2> DEFINE at == [k \in DOMAIN answer |-> CHOOSE i \in 1..3 : Tags[i] = answer[k].tag]
  <2>1. \A k \in DOMAIN answer : at[k] = Place(answer[k].tag)
    BY DEF Place
  <2>2. Prioritised = (/\ \A i \in Present : Needed(i) <= input.max_tokens * CharsPerToken =>
                           \E k \in DOMAIN answer : answer[k] = Whole(Tags[i], ContextSources[i])
                       /\ \A k \in DOMAIN answer :
                            /\ at[k] \in Present /\ IsPrefix(answer[k].text, ContextSources[at[k]])
                            /\ k > 1 => at[k - 1] < at[k]
                            /\ answer[k].cut => k = Len(answer))
    BY Zenon DEF Prioritised
  <2> HIDE DEF at
  <2>3. \A i \in Present : Needed(i) <= input.max_tokens * CharsPerToken =>
          \E k \in DOMAIN answer : answer[k] = Whole(Tags[i], ContextSources[i])
    BY <1>1, <1>3, <1>5, <1>11
  <2>4. ASSUME NEW k \in DOMAIN answer
        PROVE  /\ at[k] \in Present /\ IsPrefix(answer[k].text, ContextSources[at[k]])
               /\ k > 1 => at[k - 1] < at[k]
               /\ answer[k].cut => k = Len(answer)
    <3>1. at[k] \in Present /\ IsPrefix(answer[k].text, ContextSources[at[k]])
      BY <1>3, <1>12, <2>1
    <3>2. ASSUME k > 1 PROVE at[k - 1] < at[k]
      <4>1. k - 1 \in DOMAIN answer /\ k - 1 < k
        BY <1>9, <3>2
      <4> QED
        BY <1>13, <2>1, <4>1
    <3>3. answer[k].cut => k = Len(answer)
      <4>1. CASE answer[k].cut = TRUE
        BY <1>12, <4>1
      <4>2. CASE answer[k].cut = FALSE
        BY <4>2
      <4> QED
        BY <1>12, <4>1, <4>2
    <3> QED
      BY <3>1, <3>2, <3>3
  <2> QED
    BY <2>2, <2>3, <2>4, Zenon
<1>16. FailuresAlone
  <2>1. ASSUME input.graph = None, NEW k \in DOMAIN answer, answer[k].tag = "retrieved_context"
        PROVE  FALSE
    <3>1. Place(answer[k].tag) = 3
      BY <2>1, TagsAre, PlaceOfTag
    <3> QED
      BY <1>1, <1>4, <1>10, <1>12, <2>1, <3>1 DEF There
  <2>2. ASSUME input.profile # None, Needed(1) <= max
        PROVE  answer # << >> /\ answer[1].tag = "user_profile"
    <3>1. 1 \in Present
      BY <1>1, <1>4, <1>10, <2>2 DEF There
    <3>2. PICK k \in DOMAIN answer : answer[k] = Whole(Tags[1], c[1])
      BY <1>11, <2>2, <3>1
    <3>3. answer[k].tag = Tags[1]
      BY <3>2 DEF Whole
    <3>4. Place(answer[k].tag) = 1
      BY <3>3, PlaceOfTag
    <3>5. k \in Nat /\ k >= 1 /\ 1 \in DOMAIN answer /\ answer # << >>
      BY <1>9
    <3>6. k = 1
      <4> SUFFICES ASSUME k > 1 PROVE FALSE
        BY <3>5
      <4> QED
        BY <1>12, <1>13, <3>4, <3>5
    <3> QED
      BY <3>3, <3>5, <3>6, TagsAre
  <2> QED
    BY <1>1, <1>5, <2>1, <2>2 DEF FailuresAlone
<1> QED
  BY <1>14, <1>15, <1>16

(* build_context: whatever the profile, the summary and the graph hold, and    *)
(* whichever of them failed, the context keeps to the budget, spends it in the *)
(* order of the sections, and cuts no section but the last it shows.           *)
THEOREM ContextsFit == Spec => []ContextFits
<1>1. Init => Requested
  BY DEF Init, Requested
<1>2. Requested /\ [Next]_vars => Requested'
  <2> SUFFICES ASSUME Requested, [Next]_vars PROVE Requested'
    OBVIOUS
  <2>1. CASE UNCHANGED vars
    BY <2>1 DEF vars, Requested, Request
  <2>2. CASE Next
    <3>1. CASE handler' = "context"
      <4>1. PICK profile \in Profiles, summary \in Summaries, intent \in Intents, embedded \in BOOLEAN,
                 graph \in Graphs, max_tokens \in Budgets :
              AskForContext(profile, summary, intent, embedded, graph, max_tokens)
        BY <2>2, <3>1, JustAsked
      <4> QED
        BY <4>1 DEF AskForContext, Ask, Requested, Request
    <3> QED
      BY <3>1 DEF Requested
  <2> QED
    BY <2>1, <2>2
<1>3. Requested => ContextFits
  BY RequestFits DEF Requested, ContextFits
<1> QED
  BY <1>1, <1>2, <1>3, PTL DEF Spec

-----------------------------------------------------------------------------
(* What the ingestion reads of the scraped files *)

(* The largest of a set of numbers. *)
LEMMA MaxIs ==
  ASSUME NEW S \in SUBSET Int, NEW m \in S, \A k \in S : k <= m
  PROVE  Max(S) = m
<1>1. \A x, y \in S : x <= y /\ y <= x => x = y
  OBVIOUS
<1>2. \A x \in S : (\A k \in S : x >= k) => x = m
  BY <1>1
<1>3. \A k \in S : m >= k
  OBVIOUS
<1> QED
  BY <1>2, <1>3 DEF Max

(* The smallest of a set of numbers. *)
LEMMA MinIs ==
  ASSUME NEW S \in SUBSET Int, NEW m \in S, \A k \in S : m <= k
  PROVE  Min(S) = m
<1>1. \A x, y \in S : x <= y /\ y <= x => x = y
  OBVIOUS
<1>2. \A x \in S : (\A k \in S : x =< k) => x = m
  BY <1>1
<1> QED
  BY <1>2 DEF Min

(* The nearest place up to i where the department of a full code stands. *)
LEMMA LastDeptIs ==
  ASSUME NEW segment, NEW i \in Nat, NEW a \in 1..i, IsFull(segment[a]),
         \A j \in (a + 1)..i : ~IsFull(segment[j])
  PROVE  LastDept(segment, i) = segment[a].dept
<1> DEFINE full == { k \in 1..i : IsFull(segment[k]) }
           Last1(k) == \A l \in full : l <= k
<1>1. a \in full /\ Last1(a)
  <2>1. ASSUME NEW l \in full PROVE l <= a
    <3>1. l \in 1..i /\ IsFull(segment[l])
      OBVIOUS
    <3>2. ~(l \in (a + 1)..i)
      BY <3>1
    <3> QED
      BY <3>1, <3>2
  <2> QED
    BY <2>1
<1>2. \A k \in full : k \in Int
  OBVIOUS
<1>3. \A k \in full : Last1(k) => k = a
  BY <1>1, <1>2
<1> HIDE DEF full
<1>4. full # {} /\ (CHOOSE k \in full : \A l \in full : l <= k) = a
  BY <1>1, <1>3
<1> QED
  BY <1>4 DEF LastDept, full

(* Where no full code stands there is no department. *)
LEMMA NoLastDept ==
  ASSUME NEW segment, NEW i \in Nat, \A k \in 1..i : ~IsFull(segment[k])
  PROVE  LastDept(segment, i) = None
<1>1. { k \in 1..i : IsFull(segment[k]) } = {}
  OBVIOUS
<1> QED
  BY <1>1 DEF LastDept

(* The last of the first i places for which P holds, given as a set. *)
LEMMA LastPlace ==
  ASSUME NEW i \in Nat, NEW S \in SUBSET (1..i), S # {}
  PROVE  \E a \in S : \A j \in (a + 1)..i : j \notin S
<1>1. S \in SUBSET (0..i)
  OBVIOUS
<1>2. PICK a \in S : \A k \in S : k <= a
  BY <1>1, GreatestNatural
<1>3. a \in 1..i
  OBVIOUS
<1>4. \A j \in (a + 1)..i : ~(j <= a)
  BY <1>3
<1> QED
  BY <1>2, <1>4

(* A regular segment expands to the courses it means. *)
LEMMA RegularExpands ==
  ASSUME NEW segment, IsSequence(segment), Regular(segment)
  PROVE  ExpandSegment(segment) = AllMeant(segment)
<1> DEFINE n == Len(segment)
<1>1. n \in Nat /\ DOMAIN segment = 1..n
  BY DEF IsSequence
<1>2. CASE IsCompact(segment)
  <2>1. n >= 2 /\ IsFull(segment[n]) /\ Last(segment) = segment[n] /\ \A i \in 1..(n - 1) : IsDept(segment[i])
    BY <1>2 DEF IsCompact, Last
  <2>2. HasCode(segment)
    BY <1>1, <2>1 DEF HasCode
  <2>3. ExpandSegment(segment) = [i \in DOMAIN segment |-> Code(segment[i].dept, Last(segment).number)]
    BY <1>2, <2>2 DEF ExpandSegment
  <2>4. ASSUME NEW i \in 1..n
        PROVE  Meant(segment, i) = Code(segment[i].dept, segment[n].number)
    <3> DEFINE depts == { k \in 1..i : segment[k].dept # None }
               numbers == { k \in i..n : segment[k].number # None }
    <3>1. segment[i].dept # None
      <4>1. i = n \/ i \in 1..(n - 1)
        <5> HIDE DEF n
        <5> QED
          BY <1>1
      <4> QED
        BY <2>1, <4>1 DEF IsFull, IsDept
    <3>2. Max(depts) = i
      <4>1. depts \in SUBSET Int /\ i \in depts /\ \A k \in depts : k <= i
        BY <3>1
      <4> HIDE DEF depts
      <4> QED
        BY <4>1, MaxIs
    <3>3. Min(numbers) = n
      <4>1. \A k \in i..n : k = n \/ k \in 1..(n - 1)
        <5> HIDE DEF n
        <5> QED
          BY <1>1
      <4>2. \A k \in numbers : k = n
        BY <2>1, <4>1 DEF IsDept
      <4>3. n \in numbers /\ numbers \in SUBSET Int
        BY <1>1, <2>1 DEF IsFull
      <4>4. \A k \in numbers : n <= k
        <5> HIDE DEF n, numbers
        <5> QED
          BY <1>1, <4>2
      <4> HIDE DEF numbers, n
      <4> QED
        BY <4>3, <4>4, MinIs
    <3>4. Meant(segment, i) = Code(segment[Max(depts)].dept, segment[Min(numbers)].number)
      BY DEF Meant
    <3> QED
      BY <3>2, <3>3, <3>4
  <2> QED
    BY <1>1, <2>1, <2>3, <2>4 DEF AllMeant
<1>3. CASE ~IsCompact(segment)
  <2>1. n >= 1 /\ IsFull(segment[1]) /\ \A i \in 1..n : segment[i].number # None
    BY <1>1, <1>3 DEF Regular
  <2>2. HasCode(segment)
    BY <1>1, <2>1 DEF HasCode
  <2>3. ASSUME NEW i \in 1..n
        PROVE  /\ IsFull(segment[i]) \/ (IsBare(segment[i]) /\ LastDept(segment, i) # None)
               /\ Meant(segment, i) = Code(LastDept(segment, i), segment[i].number)
    <3> DEFINE depts == { k \in 1..i : segment[k].dept # None }
               numbers == { k \in i..n : segment[k].number # None }
    <3>1. \A k \in 1..i : IsFull(segment[k]) <=> segment[k].dept # None
      BY <1>1, <2>1 DEF IsFull
    <3>2. depts \in SUBSET (1..i) /\ depts # {}
      <4>1. 1 \in 1..i
        BY <1>1, <2>1
      <4> QED
        BY <2>1, <4>1 DEF IsFull
    <3>3. PICK a \in depts : \A j \in (a + 1)..i : j \notin depts
      <4> HIDE DEF depts
      <4> QED
        BY <1>1, <3>2, LastPlace
    <3>4. a \in 1..i /\ segment[a].dept # None /\ i \in Nat
      BY <1>1
    <3>5. \A j \in (a + 1)..i : j \in 1..i
      BY <3>4
    <3>6. \A j \in (a + 1)..i : ~IsFull(segment[j])
      BY <3>1, <3>3, <3>5
    <3>7. LastDept(segment, i) = segment[a].dept
      BY <3>1, <3>4, <3>6, LastDeptIs
    <3>8. Max(depts) = a
      <4>1. depts \in SUBSET Int
        BY <3>2
      <4>2. \A k \in 1..i : k \in (a + 1)..i \/ k <= a
        BY <3>4
      <4>3. \A k \in depts : k <= a
        BY <3>2, <3>3, <4>2
      <4> HIDE DEF depts
      <4> QED
        BY <4>1, <4>3, MaxIs
    <3>9. Min(numbers) = i
      <4>1. numbers \in SUBSET Int /\ i \in numbers /\ \A k \in numbers : i <= k
        BY <1>1, <2>1
      <4> HIDE DEF numbers
      <4> QED
        BY <4>1, MinIs
    <3>10. Meant(segment, i) = Code(segment[Max(depts)].dept, segment[Min(numbers)].number)
      BY DEF Meant
    <3>11. IsFull(segment[i]) \/ IsBare(segment[i])
      BY <2>1 DEF IsFull, IsBare
    <3> QED
      BY <3>4, <3>7, <3>8, <3>9, <3>10, <3>11
  <2>4. ExpandSegment(segment) = [i \in DOMAIN segment |-> Code(LastDept(segment, i), segment[i].number)]
    BY <1>1, <1>3, <2>2, <2>3 DEF ExpandSegment
  <2> QED
    BY <1>1, <2>3, <2>4 DEF AllMeant
<1> QED
  BY <1>2, <1>3

(* Any other gives no course. *)
LEMMA IrregularIsNone ==
  ASSUME NEW segment, IsSequence(segment), ~Regular(segment)
  PROVE  ExpandSegment(segment) = << >>
<1> DEFINE n == Len(segment)
<1>1. n \in Nat /\ DOMAIN segment = 1..n
  BY DEF IsSequence
<1>2. ~IsCompact(segment)
  BY DEF Regular
<1>3. CASE ~HasCode(segment)
  BY <1>2, <1>3 DEF ExpandSegment
<1>4. CASE HasCode(segment)
  <2>1. n >= 1 /\ 1 \in 1..n
    BY <1>1, <1>4 DEF HasCode
  <2>2. ~\A i \in DOMAIN segment : IsFull(segment[i]) \/ (IsBare(segment[i]) /\ LastDept(segment, i) # None)
    <3> SUFFICES ASSUME \A i \in 1..n : IsFull(segment[i]) \/ (IsBare(segment[i]) /\ LastDept(segment, i) # None)
                 PROVE  FALSE
      BY <1>1
    <3>1. CASE IsFull(segment[1])
      <4>1. \A i \in 1..n : segment[i].number # None
        BY DEF IsFull, IsBare
      <4> QED
        BY <1>1, <2>1, <3>1, <4>1 DEF Regular
    <3>2. CASE ~IsFull(segment[1])
      <4>1. \A k \in 1..1 : ~IsFull(segment[k])
        BY <3>2
      <4>2. LastDept(segment, 1) = None
        BY <4>1, NoLastDept
      <4> QED
        BY <2>1, <3>2, <4>2
    <3> QED
      BY <3>1, <3>2
  <2> QED
    BY <1>2, <1>4, <2>2 DEF ExpandSegment
<1> QED
  BY <1>3, <1>4

(* The kinds of requirement rows. *)
LEMMA KindOfRequirement ==
  ASSUME NEW id, id.total \in BOOLEAN, id.or \in BOOLEAN, id.choose \in BOOLEAN
  PROVE  LET kind == ClassifyRequirement(id) IN
         /\ kind = "total_credits" <=> id.total
         /\ kind = "or_alternative" <=> ~id.total /\ id.or
         /\ kind \in { "total_credits", "or_alternative", "corequisite_bundle", "choose_n",
                       "cross_listed", "required", "elective" }
         /\ kind \in { "required", "cross_listed" } => Len(id.segments) = 1
<1> DEFINE alone == Len(id.segments) = 1
           bundle == \E i \in DOMAIN id.segments : HasCode(id.segments[i])
           listed == IsCompact(id.segments[1]) \/ IsExpanded(id.segments[1])
           code == IsCode(id.segments[1])
           other == CASE id.choose -> "choose_n"
                      [] ~id.choose /\ alone /\ listed -> "cross_listed"
                      [] ~id.choose /\ alone /\ code -> "required"
                      [] OTHER -> "elective"
<1>1. alone \in BOOLEAN /\ bundle \in BOOLEAN /\ listed \in BOOLEAN /\ code \in BOOLEAN
  BY DEF IsCompact, IsExpanded, IsCode
<1>2. ~(listed /\ code)
  <2>1. ASSUME listed, code PROVE FALSE
    <3>1. Len(id.segments[1]) >= 2 /\ Len(id.segments[1]) = 1
      BY <2>1 DEF IsCompact, IsExpanded, IsCode
    <3> QED
      BY <3>1
  <2> QED
    BY <2>1
<1>3. ClassifyRequirement(id) =
        CASE id.total -> "total_credits"
          [] ~id.total /\ id.or -> "or_alternative"
          [] ~id.total /\ ~id.or /\ ~alone /\ bundle -> "corequisite_bundle"
          [] OTHER -> other
  BY DEF ClassifyRequirement
<1> HIDE DEF alone, bundle, listed, code
<1>4. other \in { "choose_n", "cross_listed", "required", "elective" }
        /\ (other \in { "required", "cross_listed" } => alone)
  BY <1>1, <1>2
<1> HIDE DEF other
<1>5. LET kind == ClassifyRequirement(id) IN
      /\ kind = "total_credits" <=> id.total
      /\ kind = "or_alternative" <=> ~id.total /\ id.or
      /\ kind \in { "total_credits", "or_alternative", "corequisite_bundle", "choose_n",
                    "cross_listed", "required", "elective" }
      /\ kind \in { "required", "cross_listed" } => alone
  BY <1>1, <1>3, <1>4
<1> QED
  BY <1>5 DEF alone

(* A sequence in a sequence by itself. *)
LEMMA FlattenOne ==
  ASSUME NEW A, NEW s \in Seq(A)
  PROVE  FlattenSeq(<< s >>) = s
<1> DEFINE ss == << s >>
<1>1. ss \in Seq(Seq(A)) /\ Len(ss) = 1 /\ ss[1] = s
  OBVIOUS
<1> HIDE DEF ss
<1>2. PICK g \in [0..Len(ss) -> Seq(A)] :
           /\ g[0] = << >> /\ FlattenSeq(ss) = g[Len(ss)]
           /\ \A i \in 1..Len(ss) : g[i] = g[i - 1] \o ss[i]
  BY <1>1, FlattenIs
<1>3. g[1] = << >> \o s
  <2>1. 1 \in 1..Len(ss) /\ 1 - 1 = 0
    BY <1>1
  <2>2. g[1] = g[1 - 1] \o ss[1]
    BY <1>2, <2>1
  <2> QED
    BY <1>1, <1>2, <2>1, <2>2
<1>4. << >> \o s = s
  BY ConcatEmptySeq
<1>5. FlattenSeq(ss) = s
  BY <1>1, <1>2, <1>3, <1>4
<1> QED
  BY <1>5 DEF ss

(* A regular segment has a full code in it, and unless it gives its number or *)
(* its departments once for all it is one of the forms that classify knows.   *)
LEMMA RegularHas ==
  ASSUME NEW segment, IsSequence(segment), Regular(segment)
  PROVE  /\ HasCode(segment)
         /\ \/ IsCode(segment) \/ IsCompact(segment) \/ IsExpanded(segment)
            \/ \E k \in DOMAIN segment : segment[k].dept = None
<1>1. Len(segment) \in Nat /\ DOMAIN segment = 1..Len(segment)
  BY DEF IsSequence
<1>2. CASE IsCompact(segment)
  <2>1. Len(segment) \in DOMAIN segment /\ IsFull(segment[Len(segment)])
    BY <1>1, <1>2 DEF IsCompact, Last
  <2> QED
    BY <1>2, <2>1 DEF HasCode
<1>3. CASE ~IsCompact(segment)
  <2>1. /\ Len(segment) >= 1 /\ IsFull(segment[1])
        /\ \A i \in DOMAIN segment : segment[i].number # None
    BY <1>3 DEF Regular
  <2>2. HasCode(segment)
    BY <1>1, <2>1 DEF HasCode
  <2>3. ASSUME \A k \in DOMAIN segment : segment[k].dept # None
        PROVE  IsCode(segment) \/ IsExpanded(segment)
    <3>1. \A k \in DOMAIN segment : IsFull(segment[k])
      BY <2>1, <2>3 DEF IsFull
    <3>2. CASE Len(segment) = 1
      BY <2>1, <3>2 DEF IsCode
    <3>3. CASE Len(segment) # 1
      BY <1>1, <2>1, <3>1, <3>3 DEF IsExpanded
    <3> QED
      BY <3>2, <3>3
  <2> QED
    BY <2>2, <2>3
<1> QED
  BY <1>2, <1>3

(* The forms that give courses are those without a bare number. *)
LEMMA KnownForms ==
  ASSUME NEW segment, IsSequence(segment),
         IsCode(segment) \/ IsCompact(segment) \/ IsExpanded(segment)
  PROVE  Regular(segment) /\ \A k \in DOMAIN segment : segment[k].dept # None
<1>1. Len(segment) \in Nat /\ DOMAIN segment = 1..Len(segment)
  BY DEF IsSequence
<1>2. CASE IsCode(segment)
  BY <1>1, <1>2 DEF IsCode, IsFull, Regular
<1>3. CASE IsCompact(segment)
  <2>1. /\ IsFull(segment[Len(segment)])
        /\ \A i \in 1..(Len(segment) - 1) : IsDept(segment[i])
    BY <1>1, <1>3 DEF IsCompact, Last
  <2>2. \A k \in DOMAIN segment : k = Len(segment) \/ k \in 1..(Len(segment) - 1)
    BY <1>1
  <2> QED
    BY <1>3, <2>1, <2>2 DEF Regular, IsFull, IsDept
<1>4. CASE IsExpanded(segment)
  BY <1>1, <1>4 DEF IsExpanded, IsFull, Regular
<1> QED
  BY <1>2, <1>3, <1>4

(* A segment is expanded to the courses it names, if any. *)
LEMMA ExpandIs ==
  ASSUME NEW segment, IsSequence(segment)
  PROVE  ExpandSegment(segment) = IF Regular(segment) THEN AllMeant(segment) ELSE << >>
BY RegularExpands, IrregularIsNone

(* The row gives the courses its id names, or none. *)
LEMMA CodesOfRequirement ==
  ASSUME NEW id, id.total \in BOOLEAN, id.or \in BOOLEAN, id.choose \in BOOLEAN,
         IsSequence(id.segments), \A segment \in ToSet(id.segments) : IsSequence(segment)
  PROVE  ParseCourseCodes(id) = IF GivesNone(id) THEN << >> ELSE Named(id)
<1> DEFINE kind == ClassifyRequirement(id)
           codes == ParseCourseCodes(id)
           segments == id.segments
           n == Len(segments)
           named(k) == IF Regular(segments[k]) THEN AllMeant(segments[k]) ELSE << >>
           bare == \E k \in DOMAIN segments[1] : segments[1][k].dept = None
<1>1. n \in Nat /\ DOMAIN segments = 1..n /\ \A k \in 1..n : IsSequence(segments[k])
  BY DEF IsSequence, ToSet
<1>2. codes = CASE kind \in { "total_credits", "choose_n", "elective" } -> << >>
                [] kind = "corequisite_bundle" -> FlattenSeq([k \in DOMAIN segments |-> ExpandSegment(segments[k])])
                [] OTHER -> IF n = 1 THEN ExpandSegment(segments[1]) ELSE << >>
  BY DEF ParseCourseCodes
<1>3. /\ GivesNone(id) <=> \/ id.total \/ (n = 1 /\ id.choose /\ ~id.or)
                          \/ \A k \in 1..n : ~HasCode(segments[k])
                          \/ (n # 1 /\ id.or) \/ (n = 1 /\ ~id.or /\ bare)
      /\ Named(id) = FlattenSeq([k \in 1..n |-> named(k)])
  BY <1>1 DEF GivesNone, Named
<1>4. /\ \A k \in 1..n : Regular(segments[k]) => HasCode(segments[k])
      /\ n = 1 /\ Regular(segments[1]) =>
           bare \/ IsCode(segments[1]) \/ IsCompact(segments[1]) \/ IsExpanded(segments[1])
      /\ n = 1 /\ (IsCode(segments[1]) \/ IsCompact(segments[1]) \/ IsExpanded(segments[1])) =>
           Regular(segments[1]) /\ ~bare
  <2>1. n = 1 => IsSequence(segments[1])
    BY <1>1
  <2> QED
    BY <1>1, <2>1, RegularHas, KnownForms
<1>5. ASSUME n = 1 PROVE ExpandSegment(segments[1]) = Named(id)
  <2>1. ExpandSegment(segments[1]) = named(1) /\ IsSequence(segments[1])
    BY <1>1, <1>5, ExpandIs
  <2>2. [k \in 1..n |-> named(k)] = << named(1) >>
    BY <1>5
  <2>3. named(1) \in Seq(Range(AllMeant(segments[1])))
    <3> DEFINE s == AllMeant(segments[1])
    <3>1. DOMAIN segments[1] = 1..Len(segments[1]) /\ Len(segments[1]) \in Nat
      BY <2>1 DEF IsSequence
    <3>2. s = [i \in 1..Len(segments[1]) |-> Meant(segments[1], i)]
      BY <3>1 DEF AllMeant
    <3>3. s \in [1..Len(segments[1]) -> Range(s)]
      BY <3>2 DEF Range
    <3> HIDE DEF s
    <3>4. s \in Seq(Range(s)) /\ << >> \in Seq(Range(s))
      BY <3>1, <3>3
    <3> QED
      BY <3>4 DEF s
  <2> HIDE DEF named
  <2>4. FlattenSeq(<< named(1) >>) = named(1)
    BY <2>3, FlattenOne
  <2> QED
    BY <1>3, <2>1, <2>2, <2>4
<1>6. ASSUME kind = "corequisite_bundle" PROVE codes = Named(id)
  <2>1. codes = FlattenSeq([k \in 1..n |-> ExpandSegment(segments[k])])
    BY <1>1, <1>2, <1>6
  <2>2. \A k \in 1..n : ExpandSegment(segments[k]) = named(k)
    BY <1>1, ExpandIs
  <2>3. [k \in 1..n |-> ExpandSegment(segments[k])] = [k \in 1..n |-> named(k)]
    BY <2>2
  <2> QED
    BY <1>3, <2>1, <2>3
<1>7. kind =
        CASE id.total -> "total_credits"
          [] ~id.total /\ id.or -> "or_alternative"
          [] ~id.total /\ ~id.or /\ n # 1 /\ (\E k \in 1..n : HasCode(segments[k])) -> "corequisite_bundle"
          [] OTHER -> CASE id.choose -> "choose_n"
                        [] ~id.choose /\ n = 1 /\ (IsCompact(segments[1]) \/ IsExpanded(segments[1])) -> "cross_listed"
                        [] ~id.choose /\ n = 1 /\ IsCode(segments[1]) -> "required"
                        [] OTHER -> "elective"
  BY <1>1 DEF ClassifyRequirement
<1> HIDE DEF kind, codes, segments, n, named, bare
<1>8. ASSUME n = 1, ~Regular(segments[1])
       PROVE  ExpandSegment(segments[1]) = << >> /\ Named(id) = << >>
  <2>1. ExpandSegment(segments[1]) = << >>
    BY <1>1, <1>8, IrregularIsNone
  <2> QED
    BY <1>5, <1>8, <2>1
<1>9. CASE id.total
  <2>1. kind = "total_credits"
    BY <1>7, <1>9
  <2> QED
    BY <1>2, <1>3, <1>9, <2>1 DEF codes
<1>10. CASE ~id.total /\ id.or
  <2>1. kind = "or_alternative"
    BY <1>7, <1>10
  <2>2. codes = IF n = 1 THEN ExpandSegment(segments[1]) ELSE << >>
    BY <1>2, <2>1
  <2>3. CASE n # 1
    BY <1>3, <1>10, <2>2, <2>3 DEF codes
  <2>4. CASE n = 1 /\ Regular(segments[1])
    <3>1. ~GivesNone(id)
      BY <1>3, <1>4, <1>10, <2>4
    <3> QED
      BY <1>5, <2>2, <2>4, <3>1 DEF codes
  <2>5. CASE n = 1 /\ ~Regular(segments[1])
    BY <1>8, <2>2, <2>5 DEF codes
  <2> QED
    BY <2>3, <2>4, <2>5
<1>11. CASE ~id.total /\ ~id.or /\ n # 1
  <2>1. CASE \E k \in 1..n : HasCode(segments[k])
    <3>1. kind = "corequisite_bundle"
      BY <1>7, <1>11, <2>1
    <3>2. ~GivesNone(id)
      BY <1>3, <1>11, <2>1
    <3> QED
      BY <1>6, <3>1, <3>2 DEF codes
  <2>2. CASE ~\E k \in 1..n : HasCode(segments[k])
    <3>1. kind \in { "choose_n", "elective" }
      BY <1>7, <1>11, <2>2
    <3>2. codes = << >>
      BY <1>2, <3>1
    <3>3. GivesNone(id)
      BY <1>3, <1>4, <2>2
    <3> QED
      BY <3>2, <3>3 DEF codes
  <2> QED
    BY <2>1, <2>2
<1>12. CASE ~id.total /\ ~id.or /\ n = 1
  <2>1. CASE id.choose
    <3>1. kind = "choose_n"
      BY <1>7, <1>12, <2>1
    <3> QED
      BY <1>2, <1>3, <1>12, <2>1, <3>1 DEF codes
  <2>2. CASE ~id.choose /\ (IsCode(segments[1]) \/ IsCompact(segments[1]) \/ IsExpanded(segments[1]))
    <3>1. kind \in { "cross_listed", "required" }
      BY <1>7, <1>12, <2>2
    <3>2. codes = ExpandSegment(segments[1])
      BY <1>2, <1>12, <3>1
    <3>3. ~GivesNone(id)
      BY <1>3, <1>4, <1>12, <2>2
    <3> QED
      BY <1>5, <1>12, <3>2, <3>3 DEF codes
  <2>3. CASE ~id.choose /\ ~(IsCode(segments[1]) \/ IsCompact(segments[1]) \/ IsExpanded(segments[1]))
    <3>1. kind = "elective"
      BY <1>7, <1>12, <2>3
    <3>2. codes = << >>
      BY <1>2, <3>1
    <3>3. GivesNone(id) \/ Named(id) = << >>
      BY <1>3, <1>4, <1>8, <1>12, <2>3
    <3> QED
      BY <3>2, <3>3 DEF codes
  <2> QED
    BY <2>1, <2>2, <2>3
<1> QED
  BY <1>9, <1>10, <1>11, <1>12

(* Where a row's alternative points. *)
LEMMA OrPredecessorIs ==
  ASSUME NEW ids \in Programs, NEW i \in DOMAIN ids, ids[i].or, ~ids[i].total
  PROVE  LET p == OrPredecessor(ids, i) IN
         IF p = None THEN \A k \in 1..(i - 1) : ids[k].or \/ ids[k].total
         ELSE /\ p < i /\ ~ids[p].or /\ ~ids[p].total
              /\ \A k \in (p + 1)..(i - 1) : ids[k].or \/ ids[k].total
<1> DEFINE p == OrPredecessor(ids, i)
           earlier == { k \in 1..(i - 1) : ClassifyRequirement(ids[k]) \notin { "or_alternative", "total_credits" } }
<1>1. DOMAIN ids = 1..Len(ids) /\ Len(ids) \in Nat
  BY CatalogueAssumption DEF IsSequence
<1>2. i \in Nat /\ \A k \in 1..(i - 1) : k \in DOMAIN ids /\ k < i /\ k \in Nat
  BY <1>1
<1>3. \A k \in DOMAIN ids : ids[k].total \in BOOLEAN /\ ids[k].or \in BOOLEAN /\ ids[k].choose \in BOOLEAN
  BY CatalogueAssumption
<1>4. \A k \in DOMAIN ids : /\ ClassifyRequirement(ids[k]) = "total_credits" <=> ids[k].total
                            /\ ClassifyRequirement(ids[k]) = "or_alternative" <=> ~ids[k].total /\ ids[k].or
  BY <1>3, KindOfRequirement
<1>5. \A k : k \in earlier <=> k \in 1..(i - 1) /\ ~ids[k].or /\ ~ids[k].total
  BY <1>2, <1>4
<1>6. ClassifyRequirement(ids[i]) = "or_alternative"
  BY <1>4
<1>7. CASE earlier = {}
  <2>1. p = None
    BY <1>7 DEF OrPredecessor
  <2>2. \A k \in 1..(i - 1) : ids[k].or \/ ids[k].total
    BY <1>5, <1>7
  <2> QED
    BY <2>1, <2>2
<1>8. CASE earlier # {}
  <2>1. p = CHOOSE k \in earlier : \A l \in earlier : l <= k
    BY <1>6, <1>8 DEF OrPredecessor
  <2>2. earlier \in SUBSET (0..i)
    BY <1>2
  <2> HIDE DEF earlier, p
  <2>3. \E k \in earlier : \A l \in earlier : l <= k
    BY <1>2, <1>8, <2>2, GreatestNatural
  <2>4. p \in earlier /\ \A l \in earlier : l <= p
    BY <2>1, <2>3
  <2>5. p \in 1..(i - 1) /\ ~ids[p].or /\ ~ids[p].total
    BY <1>5, <2>4
  <2>6. p # None /\ p < i /\ p \in Nat
    <3>1. p \in Nat /\ p < i
      BY <1>2, <2>5
    <3> QED
      BY <3>1, CatalogueAssumption
  <2>7. ASSUME NEW k \in (p + 1)..(i - 1) PROVE ids[k].or \/ ids[k].total
    <3>1. k \in 1..(i - 1) /\ ~(k <= p)
      BY <1>2, <2>6
    <3> QED
      BY <1>5, <2>4, <3>1
  <2> QED
    BY <2>5, <2>6, <2>7 DEF p
<1> QED
  BY <1>7, <1>8

(* A program's rows are read as the catalogue writes them. *)
LEMMA RequirementsAreRead ==
  ASSUME NEW ids \in Programs, ReadRequirements(ids)
  PROVE  RequirementsRead'
<1> DEFINE rows == ParseRequirements(ids)
<1>1. input' = ids /\ answer'.rows = rows /\ answer'.count = RequirementCount(ids)
  BY DEF ReadRequirements, Ask
<1>2. \A i \in DOMAIN ids :
        /\ rows[i].course_codes = ParseCourseCodes(ids[i])
        /\ rows[i].or_predecessor_position = OrPredecessor(ids, i)
  BY DEF ParseRequirements
<1>3. \A i \in DOMAIN ids :
        /\ ids[i].total \in BOOLEAN /\ ids[i].or \in BOOLEAN /\ ids[i].choose \in BOOLEAN
        /\ IsSequence(ids[i].segments) /\ \A segment \in ToSet(ids[i].segments) : IsSequence(segment)
  BY CatalogueAssumption
<1> HIDE DEF rows
<1>4. \A i \in DOMAIN ids :
        rows[i].course_codes = IF GivesNone(ids[i]) THEN << >> ELSE Named(ids[i])
  BY <1>2, <1>3, CodesOfRequirement
<1>5. \A i \in DOMAIN ids : ids[i].or /\ ~ids[i].total =>
        LET p == rows[i].or_predecessor_position IN
        IF p = None THEN \A k \in 1..(i - 1) : ids[k].or \/ ids[k].total
        ELSE /\ p < i /\ ~ids[p].or /\ ~ids[p].total
             /\ \A k \in (p + 1)..(i - 1) : ids[k].or \/ ids[k].total
  BY <1>2, OrPredecessorIs
<1>6. RequirementCount(ids) = Cardinality({ i \in DOMAIN ids : ~ids[i].total })
  <2>1. { i \in DOMAIN ids : ClassifyRequirement(ids[i]) # "total_credits" } = { i \in DOMAIN ids : ~ids[i].total }
    BY <1>3, KindOfRequirement
  <2> QED
    BY <2>1 DEF RequirementCount
<1> QED
  BY <1>1, <1>4, <1>5, <1>6 DEF RequirementsRead

(* The courses of a prerequisite text: each number after the nearest           *)
(* department.                                                                 *)
LEMMA PrerequisitesAreRead ==
  ASSUME NEW text \in PrerequisiteTexts
  PROVE  LET m == text.mentions
             pairs == { q \in (DOMAIN m) \X (DOMAIN m) :
                          /\ q[1] <= q[2] /\ m[q[1]].dept # None
                          /\ \A j \in (q[1] + 1)..q[2] : m[j].dept = None }
             meant == { Meant(<< m[q[1]], [dept |-> None, number |-> m[q[2]].number] >>, 2) : q \in pairs }
         IN { e.target_code : e \in ParsePrerequisites(text.source_code, text) }
              = IF text.unparseable THEN {} ELSE meant \ {text.source_code}
<1> DEFINE m == text.mentions
           n == Len(m)
           Between(a, b) == a <= b /\ m[a].dept # None /\ \A j \in (a + 1)..b : m[j].dept = None
           pairs == { q \in (DOMAIN m) \X (DOMAIN m) :
                        /\ q[1] <= q[2] /\ m[q[1]].dept # None
                        /\ \A j \in (q[1] + 1)..q[2] : m[j].dept = None }
           meant == { Meant(<< m[q[1]], [dept |-> None, number |-> m[q[2]].number] >>, 2) : q \in pairs }
<1>1. n \in Nat /\ DOMAIN m = 1..n
  BY CatalogueAssumption DEF IsSequence
<1>2. \A k \in 1..n : m[k] \in ToSet(m)
  BY <1>1 DEF ToSet
<1>3. /\ \A k \in 1..n : m[k].number # None
      /\ \A k, l \in 1..n : Code(m[k].dept, m[l].number) # None
  BY <1>2, CatalogueAssumption
<1>4. \A k \in 1..n : IsFull(m[k]) <=> m[k].dept # None
  BY <1>3 DEF IsFull
<1> HIDE DEF m
<1>5. ASSUME NEW a \in 1..n, NEW b \in 1..n, m[a].dept # None
      PROVE  Meant(<< m[a], [dept |-> None, number |-> m[b].number] >>, 2) = Code(m[a].dept, m[b].number)
  <2> DEFINE s == << m[a], [dept |-> None, number |-> m[b].number] >>
             depts == { k \in 1..2 : s[k].dept # None }
             numbers == { k \in 2..Len(s) : s[k].number # None }
  <2>1. Len(s) = 2 /\ s[1] = m[a] /\ s[2].dept = None /\ s[2].number = m[b].number
    OBVIOUS
  <2> HIDE DEF s
  <2>2. \A k \in 1..2 : k = 1 \/ k = 2
    OBVIOUS
  <2>3. 1 \in depts /\ \A k \in depts : k = 1
    BY <1>5, <2>1, <2>2
  <2>4. 2 \in numbers /\ \A k \in numbers : k = 2
    BY <1>3, <2>1
  <2>5. depts \in SUBSET Int /\ numbers \in SUBSET Int
    BY <2>1
  <2>6. Meant(s, 2) = Code(s[Max(depts)].dept, s[Min(numbers)].number)
    BY DEF Meant
  <2> HIDE DEF depts, numbers
  <2>7. Max(depts) = 1
    BY <2>3, <2>5, MaxIs
  <2>8. Min(numbers) = 2
    BY <2>4, <2>5, MinIs
  <2> QED
    BY <2>1, <2>6, <2>7, <2>8 DEF s
<1>6. \A x : x \in meant <=> \E a, b \in 1..n : Between(a, b) /\ x = Code(m[a].dept, m[b].number)
  <2> SUFFICES ASSUME NEW x
               PROVE  x \in meant <=> \E a, b \in 1..n : Between(a, b) /\ x = Code(m[a].dept, m[b].number)
    OBVIOUS
  <2>1. ASSUME x \in meant PROVE \E a, b \in 1..n : Between(a, b) /\ x = Code(m[a].dept, m[b].number)
    <3>1. PICK q \in pairs : x = Meant(<< m[q[1]], [dept |-> None, number |-> m[q[2]].number] >>, 2)
      BY <2>1
    <3>2. q[1] \in 1..n /\ q[2] \in 1..n /\ Between(q[1], q[2])
      BY <1>1
    <3> QED
      BY <1>5, <3>1, <3>2
  <2>2. ASSUME NEW a \in 1..n, NEW b \in 1..n, Between(a, b), x = Code(m[a].dept, m[b].number)
        PROVE  x \in meant
    <3> DEFINE q == << a, b >>
    <3>1. q \in pairs /\ q[1] = a /\ q[2] = b
      BY <1>1, <2>2
    <3>2. x = Meant(<< m[q[1]], [dept |-> None, number |-> m[q[2]].number] >>, 2)
      BY <1>5, <2>2
    <3> HIDE DEF q, pairs
    <3> QED
      BY <3>1, <3>2
  <2> QED
    BY <2>1, <2>2
<1> HIDE DEF meant, pairs
<1>7. ASSUME NEW a \in 1..n, NEW b \in 1..n, Between(a, b)
      PROVE  Expanded(m, b) = Code(m[a].dept, m[b].number)
  <2>1. CASE IsFull(m[b])
    <3>1. a = b
      <4>1. ~(b \in (a + 1)..b)
        BY <1>4, <1>7, <2>1
      <4> QED
        BY <1>1, <1>7, <4>1
    <3> QED
      BY <2>1, <3>1 DEF Expanded
  <2>2. CASE ~IsFull(m[b])
    <3>1. a \in 1..b /\ b \in Nat /\ IsFull(m[a])
      BY <1>1, <1>4, <1>7
    <3>2. \A j \in (a + 1)..b : j \in 1..n /\ ~IsFull(m[j])
      BY <1>1, <1>4, <1>7
    <3>3. LastDept(m, b) = m[a].dept
      BY <3>1, <3>2, LastDeptIs
    <3> QED
      BY <1>7, <2>2, <3>3 DEF Expanded
  <2> QED
    BY <2>1, <2>2
<1>8. ASSUME NEW b \in 1..n, Expanded(m, b) # None
      PROVE  \E a \in 1..n : Between(a, b)
  <2>1. CASE IsFull(m[b])
    <3>1. b <= b /\ \A j \in (b + 1)..b : m[j].dept = None
      BY <1>1
    <3> QED
      BY <1>4, <2>1, <3>1
  <2>2. CASE ~IsFull(m[b])
    <3> DEFINE full == { k \in 1..b : IsFull(m[k]) }
    <3>1. LastDept(m, b) # None
      BY <1>8, <2>2 DEF Expanded
    <3>2. full # {} /\ full \in SUBSET (1..b) /\ b \in Nat
      BY <1>1, <3>1 DEF LastDept
    <3>3. PICK a \in full : \A j \in (a + 1)..b : j \notin full
      <4> HIDE DEF full
      <4> QED
        BY <3>2, LastPlace
    <3>4. a \in 1..b /\ a \in 1..n /\ IsFull(m[a])
      BY <1>1
    <3>5. \A j \in (a + 1)..b : j \in 1..b /\ j \in 1..n
      BY <1>1, <3>4
    <3>6. \A j \in (a + 1)..b : m[j].dept = None
      BY <1>4, <3>3, <3>5
    <3> QED
      BY <1>1, <1>4, <3>4, <3>6
  <2> QED
    BY <2>1, <2>2
<1>9. \A x : x \in meant <=> x # None /\ \E b \in 1..n : x = Expanded(m, b)
  <2> SUFFICES ASSUME NEW x PROVE x \in meant <=> x # None /\ \E b \in 1..n : x = Expanded(m, b)
    OBVIOUS
  <2> HIDE DEF Between
  <2>1. ASSUME x \in meant PROVE x # None /\ \E b \in 1..n : x = Expanded(m, b)
    BY <1>3, <1>6, <1>7, <2>1
  <2>2. ASSUME x # None, NEW b \in 1..n, x = Expanded(m, b) PROVE x \in meant
    <3>1. PICK a \in 1..n : Between(a, b)
      BY <1>8, <2>2
    <3> QED
      BY <1>6, <1>7, <2>2, <3>1
  <2> QED
    BY <2>1, <2>2
<1>10. ExtractCourseCodes(text, text.source_code) = meant \ {text.source_code}
  <2>1. \A x : x \in ExtractCourseCodes(text, text.source_code) <=>
                 (\E b \in 1..n : x = Expanded(m, b)) /\ x # None /\ x # text.source_code
    BY <1>1 DEF ExtractCourseCodes, m
  <2> QED
    BY <1>9, <2>1
<1>11. { e.target_code : e \in ParsePrerequisites(text.source_code, text) }
         = IF text.unparseable \/ ~HasCode(m) THEN {} ELSE meant \ {text.source_code}
  <2>1. CASE text.unparseable \/ ~HasCode(m)
    <3>1. ParsePrerequisites(text.source_code, text) = {}
      BY <2>1 DEF ParsePrerequisites, m
    <3> QED
      BY <2>1, <3>1
  <2>2. CASE ~(text.unparseable \/ ~HasCode(m))
    <3> DEFINE X == ExtractCourseCodes(text, text.source_code)
    <3>1. ParsePrerequisites(text.source_code, text) =
            { [source_code |-> text.source_code, target_code |-> target, type |-> ClassifyType(text),
               min_grade |-> text.min_grade] : target \in X }
      BY <2>2 DEF ParsePrerequisites, m
    <3> HIDE DEF X
    <3> DEFINE Edge1(target) == [source_code |-> text.source_code, target_code |-> target,
                                 type |-> ClassifyType(text), min_grade |-> text.min_grade]
               edges == ParsePrerequisites(text.source_code, text)
    <3>2. (\A target \in X : Edge1(target) \in edges) /\ \A e \in edges : \E target \in X : e = Edge1(target)
      BY <3>1
    <3>3. \A target : Edge1(target).target_code = target
      OBVIOUS
    <3> HIDE DEF Edge1, edges
    <3>4. { e.target_code : e \in edges } = X
      BY <3>2, <3>3
    <3> HIDE DEF X
    <3> QED
      BY <1>10, <2>2, <3>4 DEF X, edges
  <2> QED
    BY <2>1, <2>2
<1>12. ~HasCode(m) => meant = {}
  <2> SUFFICES ASSUME ~HasCode(m), NEW x \in meant PROVE FALSE
    OBVIOUS
  <2>1. PICK a, b \in 1..n : Between(a, b)
    BY <1>6
  <2> QED
    BY <1>1, <1>4, <2>1 DEF HasCode
<1>13. { e.target_code : e \in ParsePrerequisites(text.source_code, text) }
         = IF text.unparseable THEN {} ELSE meant \ {text.source_code}
  BY <1>11, <1>12
<1> QED
  BY <1>13 DEF meant, pairs, m

(* Of the places where a section stands, one comes first. *)
LEMMA FirstPlace ==
  ASSUME NEW listings \in Scrapes, NEW q \in Places(listings)
  PROVE  \E p \in FirstByCrn(listings) : SameSection(SectionAt(listings, p), SectionAt(listings, q))
<1> DEFINE n == Len(listings)
           Same(p) == SameSection(SectionAt(listings, p), SectionAt(listings, q))
           All == { p \in Places(listings) : Same(p) }
           Rows1 == { p[1] : p \in All }
<1>1. n \in Nat /\ DOMAIN listings = 1..n
  BY CatalogueAssumption DEF IsSequence
<1>2. \A i \in 1..n : DOMAIN listings[i].sections = 1..Len(listings[i].sections) /\ Len(listings[i].sections) \in Nat
  <2>1. \A i \in 1..n : listings[i] \in ToSet(listings)
    BY <1>1 DEF ToSet
  <2> QED
    BY <2>1, CatalogueAssumption DEF IsSequence
<1>3. \A p \in Places(listings) : p = << p[1], p[2] >> /\ p[1] \in Nat /\ p[2] \in Nat
  <2> SUFFICES ASSUME NEW p \in Places(listings)
               PROVE  p = << p[1], p[2] >> /\ p[1] \in Nat /\ p[2] \in Nat
    OBVIOUS
  <2>1. PICK i \in 1..n : p \in {i} \X DOMAIN listings[i].sections
    BY <1>1 DEF Places
  <2> QED
    BY <1>1, <1>2, <2>1
<1>4. q \in All
  BY DEF SameSection
<1>5. Rows1 \in SUBSET Nat /\ Rows1 # {}
  BY <1>3, <1>4
<1>6. PICK i \in Rows1 : \A k \in Rows1 : i <= k
  <2> HIDE DEF Rows1
  <2> QED
    BY <1>5, LeastNatural
<1> DEFINE Columns == { p[2] : p \in { r \in All : r[1] = i } }
<1>7. Columns \in SUBSET Nat /\ Columns # {}
  BY <1>3, <1>6
<1>8. PICK k \in Columns : \A l \in Columns : k <= l
  <2> HIDE DEF Columns
  <2> QED
    BY <1>7, LeastNatural
<1>9. PICK p \in All : p[1] = i /\ p[2] = k
  BY <1>8
<1>10. ASSUME NEW r \in Places(listings), Before(r, p), SameSection(SectionAt(listings, r), SectionAt(listings, p))
       PROVE  FALSE
  <2>1. r \in All
    BY <1>9, <1>10 DEF SameSection
  <2>2. r[1] \in Nat /\ r[2] \in Nat /\ i \in Nat /\ k \in Nat
    BY <1>3, <1>5, <1>7
  <2>3. i <= r[1]
    BY <1>6, <2>1
  <2>4. r[1] = i => k <= r[2]
    BY <1>8, <2>1
  <2> QED
    BY <1>9, <1>10, <2>2, <2>3, <2>4 DEF Before
<1>11. p \in FirstByCrn(listings)
  BY <1>9, <1>10 DEF FirstByCrn
<1> QED
  BY <1>9, <1>11

(* A code's listings are one course, and no section is lost or there twice. *)
LEMMA ClassesAreRead ==
  ASSUME NEW listings \in Scrapes, ReadClasses(listings)
  PROVE  ClassesRead'
<1> DEFINE n == Len(listings)
           parsed == ParseClasses(listings)
           Course(i) == [code |-> listings[i].code, title |-> listings[i].title,
                         topic_titles |-> IF Cardinality(Titles(listings, listings[i].code)) > 1
                                            THEN Titles(listings, listings[i].code) ELSE {}]
<1>1. input' = listings /\ answer' = parsed
  BY DEF ReadClasses, Ask
<1>2. n \in Nat /\ DOMAIN listings = 1..n
  BY CatalogueAssumption DEF IsSequence
<1>3. /\ \A c : c \in parsed.courses <=> \E i \in FirstListings(listings) : c = Course(i)
      /\ \A s : s \in parsed.sections <=> \E p \in FirstByCrn(listings) : s = SectionAt(listings, p)
  BY DEF ParseClasses
<1>4. \A i : Course(i).code = listings[i].code /\ Course(i).title = listings[i].title
  OBVIOUS
<1> HIDE DEF n, parsed, Course
<1>5. \A i : i \in FirstListings(listings) <=>
               i \in 1..n /\ \A k \in 1..(i - 1) : listings[k].code # listings[i].code
  BY <1>2 DEF FirstListings
<1>6. \A l : l \in ToSet(listings) <=> \E i \in 1..n : l = listings[i]
  BY <1>2 DEF ToSet
<1>7. ASSUME NEW j \in 1..n
      PROVE  \E i \in FirstListings(listings) : listings[i].code = listings[j].code
  <2> DEFINE S == { k \in 1..n : listings[k].code = listings[j].code }
  <2>1. S \in SUBSET Nat /\ j \in S
    BY <1>2
  <2>2. PICK i \in S : \A k \in S : i <= k
    <3> HIDE DEF S
    <3> QED
      BY <2>1, LeastNatural
  <2>3. i \in 1..n /\ listings[i].code = listings[j].code
    OBVIOUS
  <2>4. \A k \in 1..(i - 1) : k \in 1..n /\ ~(i <= k)
    BY <1>2, <2>3
  <2> QED
    BY <1>5, <2>2, <2>3, <2>4
<1>8. { c.code : c \in parsed.courses } = { l.code : l \in ToSet(listings) }
  <2>1. ASSUME NEW c \in parsed.courses PROVE \E l \in ToSet(listings) : c.code = l.code
    BY <1>3, <1>4, <1>5, <1>6
  <2>2. ASSUME NEW l \in ToSet(listings) PROVE \E c \in parsed.courses : c.code = l.code
    BY <1>3, <1>4, <1>6, <1>7
  <2> QED
    BY <2>1, <2>2
<1>9. ASSUME NEW c \in parsed.courses, NEW d \in parsed.courses, c.code = d.code PROVE c = d
  <2>1. PICK i \in FirstListings(listings) : c = Course(i)
    BY <1>3
  <2>2. PICK j \in FirstListings(listings) : d = Course(j)
    BY <1>3
  <2>3. i \in 1..n /\ j \in 1..n /\ listings[i].code = listings[j].code
    BY <1>4, <1>5, <1>9, <2>1, <2>2
  <2>4. ~(i < j) /\ ~(j < i)
    <3>1. ~(i \in 1..(j - 1)) /\ ~(j \in 1..(i - 1))
      BY <1>5, <2>3
    <3> QED
      BY <1>2, <2>3, <3>1
  <2> QED
    BY <1>2, <2>1, <2>2, <2>3, <2>4
<1>10. ASSUME NEW i \in 1..n
       PROVE  (\E c \in parsed.courses : c.code = listings[i].code /\ c.title = listings[i].title)
              \/ \E k \in 1..(i - 1) : listings[k].code = listings[i].code
  BY <1>3, <1>4, <1>5
<1>11. \A p : p \in Places(listings) <=> \E i \in 1..n : \E k \in DOMAIN listings[i].sections : p = << i, k >>
  BY <1>2 DEF Places
<1>12. \A i, k : /\ SectionAt(listings, << i, k >>).course_code = listings[i].code
                  /\ SectionAt(listings, << i, k >>).crn = listings[i].sections[k].crn
  BY DEF SectionAt
<1>13. { << s.course_code, s.crn >> : s \in parsed.sections }
         = UNION { { << l.code, s.crn >> : s \in ToSet(l.sections) } : l \in ToSet(listings) }
  <2> DEFINE Crns(l) == { << l.code, s.crn >> : s \in ToSet(l.sections) }
             Right == UNION { Crns(l) : l \in ToSet(listings) }
  <2>1. \A x : x \in Right <=> \E i \in 1..n : \E k \in DOMAIN listings[i].sections :
                                  x = << listings[i].code, listings[i].sections[k].crn >>
    <3>1. \A x, l : x \in Crns(l) <=> \E k \in DOMAIN l.sections : x = << l.code, l.sections[k].crn >>
      BY DEF ToSet
    <3> HIDE DEF Crns
    <3>2. \A x : x \in Right <=> \E i \in 1..n : x \in Crns(listings[i])
      BY <1>6
    <3>3. \A x, i : x \in Crns(listings[i]) <=>
             \E k \in DOMAIN listings[i].sections : x = << listings[i].code, listings[i].sections[k].crn >>
      BY <3>1
    <3> HIDE DEF Right
    <3> QED
      BY <3>2, <3>3
  <2> HIDE DEF Right, Crns
  <2>2. ASSUME NEW s \in parsed.sections PROVE << s.course_code, s.crn >> \in Right
    <3>1. PICK p \in Places(listings) : s = SectionAt(listings, p)
      BY <1>3 DEF FirstByCrn
    <3>2. PICK i \in 1..n : \E k \in DOMAIN listings[i].sections : p = << i, k >>
      BY <1>11
    <3> QED
      BY <1>12, <2>1, <3>1, <3>2
  <2>3. ASSUME NEW x \in Right PROVE \E s \in parsed.sections : x = << s.course_code, s.crn >>
    <3>1. PICK i \in 1..n : \E k \in DOMAIN listings[i].sections :
                                  x = << listings[i].code, listings[i].sections[k].crn >>
      BY <2>1
    <3>2. PICK k \in DOMAIN listings[i].sections : x = << listings[i].code, listings[i].sections[k].crn >>
      BY <3>1
    <3>3. << i, k >> \in Places(listings)
      BY <1>11
    <3>4. PICK p \in FirstByCrn(listings) : SameSection(SectionAt(listings, p), SectionAt(listings, << i, k >>))
      BY <3>3, FirstPlace
    <3>5. SectionAt(listings, p) \in parsed.sections
      BY <1>3
    <3> QED
      BY <1>12, <3>2, <3>4, <3>5 DEF SameSection
  <2>4. { << s.course_code, s.crn >> : s \in parsed.sections } = Right
    BY <2>2, <2>3
  <2> QED
    BY <2>4 DEF Right, Crns
<1>14. ASSUME NEW s \in parsed.sections, NEW t \in parsed.sections,
              s.course_code = t.course_code, s.crn = t.crn
       PROVE  s = t
  <2>1. PICK p \in FirstByCrn(listings) : s = SectionAt(listings, p)
    BY <1>3
  <2>2. PICK r \in FirstByCrn(listings) : t = SectionAt(listings, r)
    BY <1>3
  <2>3. SameSection(s, t) /\ SameSection(t, s)
    BY <1>14 DEF SameSection
  <2>4. ~Before(p, r) /\ ~Before(r, p) /\ p \in Places(listings) /\ r \in Places(listings)
    BY <2>1, <2>2, <2>3 DEF FirstByCrn
  <2>5. p = << p[1], p[2] >> /\ r = << r[1], r[2] >> /\ p[1] \in Int /\ p[2] \in Int /\ r[1] \in Int /\ r[2] \in Int
    <3>1. \A i \in 1..n : \A k : k \in DOMAIN listings[i].sections => k \in Int
      <4>1. \A i \in 1..n : listings[i] \in ToSet(listings)
        BY <1>6
      <4>2. \A i \in 1..n : DOMAIN listings[i].sections = 1..Len(listings[i].sections)
        BY <4>1, CatalogueAssumption DEF IsSequence
      <4> QED
        BY <4>2
    <3> QED
      BY <1>2, <1>11, <2>4, <3>1
  <2>6. p[1] = r[1] /\ p[2] = r[2]
    BY <2>4, <2>5 DEF Before
  <2> QED
    BY <2>1, <2>2, <2>5, <2>6
<1> QED
  BY <1>1, <1>2, <1>8, <1>9, <1>10, <1>13, <1>14 DEF ClassesRead

(* A text's edges are the courses it mentions. *)
LEMMA TextIsRead ==
  ASSUME NEW text \in PrerequisiteTexts, ReadPrerequisites(text)
  PROVE  PrerequisitesRead'
<1>1. input' = text /\ answer' = ParsePrerequisites(text.source_code, text)
  BY DEF ReadPrerequisites, Ask
<1> QED
  BY <1>1, PrerequisitesAreRead DEF PrerequisitesRead

(* What the parsers of the ingestion read is what the files say: the courses   *)
(* of a requirement row and what an alternative is one to, the courses of a    *)
(* prerequisite text, the courses and sections of the listings.                *)
THEOREM CatalogueIsRead == Spec => []CatalogueRead
<1>1. Init => CatalogueRead
  BY DEF Init, CatalogueRead, RequirementsRead, PrerequisitesRead, ClassesRead
<1>2. CatalogueRead /\ [Next]_vars => CatalogueRead'
  <2> SUFFICES ASSUME CatalogueRead, [Next]_vars PROVE CatalogueRead'
    OBVIOUS
  <2>1. CASE UNCHANGED vars
    <3>1. RequirementsRead' = RequirementsRead /\ PrerequisitesRead' = PrerequisitesRead /\ ClassesRead' = ClassesRead
      BY <2>1 DEF vars, RequirementsRead, PrerequisitesRead, ClassesRead
    <3> QED
      BY <3>1 DEF CatalogueRead
  <2>2. CASE Next
    <3>1. RequirementsRead'
      <4>1. CASE handler' = "requirements"
        BY <2>2, <4>1, JustAsked, RequirementsAreRead
      <4> QED
        BY <4>1 DEF RequirementsRead
    <3>2. PrerequisitesRead'
      <4>1. CASE handler' = "prerequisites"
        BY <2>2, <4>1, JustAsked, TextIsRead
      <4> QED
        BY <4>1 DEF PrerequisitesRead
    <3>3. ClassesRead'
      <4>1. CASE handler' = "classes"
        BY <2>2, <4>1, JustAsked, ClassesAreRead
      <4> QED
        BY <4>1 DEF ClassesRead
    <3> QED
      BY <3>1, <3>2, <3>3 DEF CatalogueRead
  <2> QED
    BY <2>1, <2>2
<1> QED
  BY <1>1, <1>2, PTL DEF Spec

-----------------------------------------------------------------------------
(* What the queries show *)

(* A finite set that R ranks is put in that order. *)
LEMMA InOrderIs ==
  ASSUME NEW S, NEW R, Ranks(R, S), IsFiniteSet(S)
  PROVE  /\ InOrder(S, R) \in SetToSeqs(S)
         /\ \A i, k \in DOMAIN InOrder(S, R) : i < k => << InOrder(S, R)[i], InOrder(S, R)[k] >> \in R
<1>1. \E f \in SetToSeqs(S) : \A i, k \in DOMAIN f : i < k => << f[i], f[k] >> \in R
  BY OrderExists
<1>2. InOrder(S, R) = CHOOSE f \in SetToSeqs(S) : \A i, k \in DOMAIN f : i < k => << f[i], f[k] >> \in R
  BY DEF InOrder
<1> QED
  BY <1>1, <1>2

(* What is listed without repetition is as many as its list. *)
LEMMA FiniteImage ==
  ASSUME NEW S, NEW T, IsFiniteSet(S), NEW f \in [S -> T],
         \A x, y \in S : f[x] = f[y] => x = y, \A t \in T : \E x \in S : f[x] = t
  PROVE  IsFiniteSet(T) /\ Cardinality(T) = Cardinality(S)
<1>1. f \in Bijection(S, T)
  BY DEF Bijection, Injection, IsInjective, Surjection
<1> QED
  BY <1>1, FS_Bijection DEF ExistsBijection

(* The tool and the page show each requirement once, in the program's order. *)
LEMMA DegreeShown ==
  ASSUME NEW requirements \in RequirementSets, ShowRequirements(requirements)
  PROVE  DegreeGrouped'
<1> DEFINE rows == RequirementRows(requirements)
           Orders == { r.sort_order : r \in requirements }
           R == { p \in Orders \X Orders : p[1] < p[2] }
           Q == { p \in requirements \X requirements : p[1].sort_order < p[2].sort_order }
           orders == InOrder(Orders, R)
           page == InOrder(requirements, Q)
           tool == DegreeRequirements(requirements)
           n == Cardinality(requirements)
<1>1. input' = requirements /\ answer'.tool = tool /\ answer'.page = page
  BY DEF ShowRequirements, Ask, ListRequirements
<1>2. /\ IsFiniteSet(requirements)
      /\ \A r \in requirements : r = [sort_order |-> r.sort_order, courses |-> r.courses] /\ r.sort_order \in Int
                                 /\ None \notin r.courses
      /\ \A r, s \in requirements : r.sort_order = s.sort_order => r = s
  BY QueryAssumption
<1>3. IsFiniteSet(Orders) /\ Cardinality(Orders) = n
  <2> DEFINE f == [r \in requirements |-> r.sort_order]
  <2>1. f \in [requirements -> Orders] /\ (\A x, y \in requirements : f[x] = f[y] => x = y)
          /\ \A t \in Orders : \E x \in requirements : f[x] = t
    BY <1>2
  <2> HIDE DEF f, Orders
  <2> QED
    BY <1>2, <2>1, FiniteImage
<1>4. \A o \in Orders : o \in Int /\ \E r \in requirements : o = r.sort_order
  BY <1>2
<1>5. \A x : x \in rows <=> \E r \in requirements : \E c \in (IF r.courses = {} THEN {None} ELSE r.courses) :
                               x = [sort_order |-> r.sort_order, course |-> c]
  BY DEF RequirementRows
<1>6. { r.sort_order : r \in rows } = Orders
  <2>1. ASSUME NEW x \in rows PROVE x.sort_order \in Orders
    BY <1>5
  <2>2. ASSUME NEW r \in requirements PROVE \E x \in rows : x.sort_order = r.sort_order
    <3>1. PICK c : c \in (IF r.courses = {} THEN {None} ELSE r.courses)
      OBVIOUS
    <3>2. [sort_order |-> r.sort_order, course |-> c] \in rows
      BY <1>5, <3>1
    <3> QED
      BY <3>2
  <2> HIDE DEF rows
  <2> QED
    BY <2>1, <2>2
<1>7. tool = [i \in DOMAIN orders |->
                [sort_order |-> orders[i],
                 courses |-> { r.course : r \in { x \in rows : x.sort_order = orders[i] } } \ {None}]]
  BY <1>6 DEF DegreeRequirements, Ascending
<1>8. \A x, y : << x, y >> \in R <=> x \in Orders /\ y \in Orders /\ x < y
  OBVIOUS
<1>9. \A x, y : << x, y >> \in Q <=> x \in requirements /\ y \in requirements /\ x.sort_order < y.sort_order
  OBVIOUS
<1>10. Ranks(R, Orders) /\ Ranks(Q, requirements)
  <2>1. \A a, b, c \in Int : (a # b => a < b \/ b < a) /\ (a < b /\ b < c => a < c)
    OBVIOUS
  <2>2. \A x, y \in requirements : x # y => x.sort_order # y.sort_order
    BY <1>2
  <2>3. \A x \in requirements : x.sort_order \in Int
    BY <1>2
  <2> HIDE DEF R, Q, Orders
  <2>4. Ranks(R, Orders)
    BY <1>4, <1>8, <2>1 DEF Ranks
  <2>5. Ranks(Q, requirements)
    BY <1>9, <2>1, <2>2, <2>3 DEF Ranks
  <2> QED
    BY <2>4, <2>5
<1>11. ASSUME NEW r \in requirements
       PROVE  { y.course : y \in { x \in rows : x.sort_order = r.sort_order } } \ {None} = r.courses
  <2>1. ASSUME NEW x \in rows, x.sort_order = r.sort_order, x.course # None PROVE x.course \in r.courses
    <3>1. PICK s \in requirements : \E c \in (IF s.courses = {} THEN {None} ELSE s.courses) :
                               x = [sort_order |-> s.sort_order, course |-> c]
      BY <1>5
    <3>2. s = r
      BY <1>2, <2>1, <3>1
    <3> QED
      BY <2>1, <3>1, <3>2
  <2>2. ASSUME NEW c \in r.courses PROVE c # None /\ \E x \in rows : x.sort_order = r.sort_order /\ x.course = c
    <3>1. [sort_order |-> r.sort_order, course |-> c] \in rows
      BY <1>5, <2>2
    <3> QED
      BY <1>2, <3>1
  <2> HIDE DEF rows
  <2> QED
    BY <2>1, <2>2
<1> HIDE DEF rows, Orders, R, Q, tool, page, orders
<1>12. orders \in SetToSeqs(Orders) /\ \A i, k \in DOMAIN orders : i < k => << orders[i], orders[k] >> \in R
  BY <1>3, <1>10, InOrderIs DEF orders
<1>13. page \in SetToSeqs(requirements) /\ \A i, k \in DOMAIN page : i < k => << page[i], page[k] >> \in Q
  BY <1>2, <1>10, InOrderIs DEF page
<1>14. /\ n \in Nat /\ orders \in [1..n -> Orders] /\ DOMAIN orders = 1..n
       /\ \A i, k \in 1..n : orders[i] = orders[k] => i = k
  <2>1. /\ Cardinality(Orders) \in Nat /\ orders \in [1..Cardinality(Orders) -> Orders]
        /\ Len(orders) = Cardinality(Orders) /\ DOMAIN orders = 1..Len(orders)
        /\ \A i, k \in 1..Len(orders) : orders[i] = orders[k] => i = k
    BY <1>3, <1>12, EnumerationIs
  <2> QED
    BY <1>3, <2>1
<1>15. /\ DOMAIN tool = 1..n
       /\ \A i \in 1..n : tool[i] \in requirements /\ tool[i].sort_order = orders[i]
  <2>1. DOMAIN tool = 1..n
    BY <1>7, <1>14
  <2>2. ASSUME NEW i \in 1..n PROVE tool[i] \in requirements /\ tool[i].sort_order = orders[i]
    <3>1. PICK r \in requirements : orders[i] = r.sort_order
      BY <1>4, <1>14
    <3> DEFINE o == orders[i]
               courses == { y.course : y \in { x \in rows : x.sort_order = o } } \ {None}
    <3>2. tool[i] = [sort_order |-> o, courses |-> courses]
      BY <1>7, <1>14
    <3>3. courses = r.courses
      <4>1. o = r.sort_order
        BY <3>1
      <4> HIDE DEF o
      <4> QED
        BY <1>11, <4>1
    <3> HIDE DEF courses
    <3>4. tool[i] = r
      BY <1>2, <3>1, <3>2, <3>3
    <3> QED
      BY <3>1, <3>4
  <2> QED
    BY <2>1, <2>2
<1>16. tool \in SetToSeqs(requirements)
  <2>1. tool = [i \in 1..n |-> tool[i]]
    BY <1>7, <1>14
  <2>2. tool \in [1..n -> requirements]
    BY <1>15, <2>1
  <2>3. \A i, k \in 1..n : i # k => tool[i] # tool[k]
    BY <1>14, <1>15
  <2> QED
    BY <2>2, <2>3 DEF SetToSeqs
<1>17. \A i, k \in DOMAIN tool : i < k => << tool[i], tool[k] >> \in Q /\ tool[i].sort_order < tool[k].sort_order
  BY <1>8, <1>9, <1>12, <1>14, <1>15
<1>18. \A x, y \in requirements : ~(<< x, y >> \in Q /\ << y, x >> \in Q)
  <2>1. \A a, b \in Int : ~(a < b /\ b < a)
    OBVIOUS
  <2>2. \A x \in requirements : x.sort_order \in Int
    BY <1>2
  <2> QED
    BY <1>9, <2>1, <2>2, Zenon
<1>19. tool = page
  BY <1>2, <1>13, <1>16, <1>17, <1>18, OrderUnique
<1>20. ToSet(tool) = { [sort_order |-> r.sort_order, courses |-> r.courses] : r \in requirements }
  <2>1. ToSet(tool) = requirements
    BY <1>2, <1>16, EnumerationIs
  <2>2. { [sort_order |-> r.sort_order, courses |-> r.courses] : r \in requirements } = requirements
    BY <1>2
  <2> QED
    BY <2>1, <2>2
<1> QED
  BY <1>1, <1>17, <1>19, <1>20 DEF DegreeGrouped

(* The newest decisions are shown, and all of them to the prompt. *)
LEMMA StudentShown ==
  ASSUME NEW decisions \in Records, ShowStudent(decisions)
  PROVE  NewestShown'
<1> DEFINE R == { p \in decisions \X decisions : p[1].at > p[2].at \/ (p[1].at = p[2].at /\ p[1].id > p[2].id) }
           Q == { p \in decisions \X decisions : p[1].at >= p[2].at }
           sorted == InOrder(decisions, R)
           profile == InOrder(decisions, Q)
           n == Cardinality(decisions)
           m == IF Len(sorted) <= MaxShown THEN Len(sorted) ELSE MaxShown
           page == SubSeq(sorted, 1, m)
<1>1. input' = decisions /\ answer'.page = page /\ answer'.profile.decisions = profile
  <2>1. input' = decisions /\ answer'.page = RecentDecisions(decisions, MaxShown)
          /\ answer'.profile = StudentData([program |-> None, completed |-> {}], decisions)
    BY DEF ShowStudent, Ask
  <2>2. RecentDecisions(decisions, MaxShown) = page
    BY DEF RecentDecisions, NewestFirst
  <2> DEFINE user == [program |-> None, completed |-> {}]
  <2>3. user # None
    BY QueryAssumption
  <2> HIDE DEF user
  <2>4. StudentData(user, decisions).decisions = profile
    BY <2>3 DEF StudentData
  <2> QED
    BY <2>1, <2>2, <2>4 DEF user
<1>2. /\ IsFiniteSet(decisions) /\ MaxShown \in Nat
      /\ \A d \in decisions : d.at \in Int /\ d.id \in Int
      /\ \A d, e \in decisions : d.id = e.id => d = e
  BY QueryAssumption
<1>3. \A x, y : << x, y >> \in R <=> x \in decisions /\ y \in decisions /\ (x.at > y.at \/ (x.at = y.at /\ x.id > y.id))
  OBVIOUS
<1>4. \A x, y : << x, y >> \in Q <=> x \in decisions /\ y \in decisions /\ x.at >= y.at
  OBVIOUS
<1> HIDE DEF R, Q, sorted, profile
<1>5. Ranks(R, decisions) /\ Ranks(Q, decisions)
  <2>1. \A x, y \in decisions : x # y => << x, y >> \in R \/ << y, x >> \in R
    BY <1>2, <1>3
  <2>2. \A x, y, z \in decisions : << x, y >> \in R /\ << y, z >> \in R => << x, z >> \in R
    BY <1>2, <1>3
  <2>3. \A x, y \in decisions : x # y => << x, y >> \in Q \/ << y, x >> \in Q
    BY <1>2, <1>4
  <2>4. \A x, y, z \in decisions : << x, y >> \in Q /\ << y, z >> \in Q => << x, z >> \in Q
    BY <1>2, <1>4
  <2> QED
    BY <2>1, <2>2, <2>3, <2>4 DEF Ranks
<1>6. sorted \in SetToSeqs(decisions) /\ \A i, k \in DOMAIN sorted : i < k => << sorted[i], sorted[k] >> \in R
  BY <1>2, <1>5, InOrderIs DEF sorted
<1>7. profile \in SetToSeqs(decisions) /\ \A i, k \in DOMAIN profile : i < k => << profile[i], profile[k] >> \in Q
  BY <1>2, <1>5, InOrderIs DEF profile
<1>8. /\ n \in Nat /\ sorted \in Seq(decisions) /\ Len(sorted) = n /\ DOMAIN sorted = 1..n
      /\ \A x \in decisions : \E i \in 1..n : sorted[i] = x
  BY <1>2, <1>6, EnumerationIs
<1>9. ToSet(profile) = decisions
  BY <1>2, <1>7, EnumerationIs
<1> HIDE DEF n
<1>10. m \in 0..n /\ m = IF n <= MaxShown THEN n ELSE MaxShown
  BY <1>2, <1>8
<1> HIDE DEF m
<1>11. page \in Seq(decisions) /\ Len(page) = m /\ \A i \in 1..m : page[i] = sorted[i]
  <2>1. \A i \in 1..m : sorted[i] \in decisions
    BY <1>8, <1>10
  <2>2. /\ page \in Seq(decisions) /\ Len(page) = IF 1 <= m THEN m - 1 + 1 ELSE 0
        /\ \A i \in 1..(m - 1 + 1) : page[i] = sorted[1 + i - 1]
    BY <1>10, <2>1, SubSeqProperties
  <2> HIDE DEF page
  <2> QED
    BY <1>8, <1>10, <2>2
<1> HIDE DEF page
<1>12. \A x : x \in ToSet(page) <=> \E i \in 1..m : x = sorted[i]
  <2>1. DOMAIN page = 1..m
    BY <1>11
  <2> QED
    BY <1>11, <2>1 DEF ToSet
<1>13. ToSet(page) \subseteq decisions
  BY <1>8, <1>10, <1>12
<1>14. ASSUME NEW d \in ToSet(page), NEW e \in decisions \ ToSet(page) PROVE d.at >= e.at
  <2>1. PICK i \in 1..m : d = sorted[i]
    BY <1>12
  <2>2. PICK k \in 1..n : e = sorted[k]
    BY <1>8
  <2>3. ~(k \in 1..m)
    BY <1>12, <2>2
  <2>4. i < k /\ i \in 1..n
    BY <1>8, <1>10, <2>3
  <2>5. << d, e >> \in R
    BY <1>6, <1>8, <2>1, <2>2, <2>4
  <2> QED
    BY <1>2, <1>3, <2>5
<1>15. \A i, k \in DOMAIN profile : i < k => profile[i].at >= profile[k].at
  BY <1>4, <1>7
<1>16. Len(page) = IF n <= MaxShown THEN n ELSE MaxShown
  BY <1>10, <1>11
<1> QED
  BY <1>1, <1>9, <1>13, <1>14, <1>15, <1>16 DEF NewestShown, n

(* A prefix agrees with its sequence place by place. *)
LEMMA PrefixAgrees ==
  ASSUME NEW A, NEW s \in Seq(A), NEW B, NEW t \in Seq(B)
  PROVE  IsPrefix(s, t) <=> \A k \in 1..Len(s) : k <= Len(t) /\ t[k] = s[k]
<1> DEFINE n == Len(s)
<1>1. n \in Nat /\ Len(t) \in Nat
  OBVIOUS
<1>2. IsPrefix(s, t) <=> n <= Len(t) /\ SubSeq(s, 1, n) = SubSeq(t, 1, n)
  BY DEF IsPrefix
<1>3. ASSUME n <= Len(t)
      PROVE  SubSeq(s, 1, n) = SubSeq(t, 1, n) <=> \A k \in 1..n : s[k] = t[k]
  <2>1. SubSeq(s, 1, n) = [k \in 1..n |-> s[k]]
    OBVIOUS
  <2>2. SubSeq(t, 1, n) = [k \in 1..n |-> t[k]]
    BY <1>1, <1>3
  <2> HIDE DEF n
  <2> QED
    BY <2>1, <2>2
<1>4. (\A k \in 1..n : k <= Len(t)) <=> n <= Len(t)
  <2>1. n # 0 => n \in 1..n
    BY <1>1
  <2> HIDE DEF n
  <2> QED
    BY <1>1, <2>1
<1> HIDE DEF n
<1>5. IsPrefix(s, t) <=> \A k \in 1..n : k <= Len(t) /\ t[k] = s[k]
  BY <1>2, <1>3, <1>4
<1> QED
  BY <1>5 DEF n

(* The tool leaves out what its filters and the number of hits say. *)
LEMMA HitsShown ==
  ASSUME NEW catalogue \in Catalogues, NEW f \in Filters, FindCourses(catalogue, f)
  PROVE  HitsFiltered'
<1>1. PICK scan \in catalogue.scans :
        /\ input' = [ranking |-> scan, filter |-> f]
        /\ answer' = SearchCourses(scan, MaxHits, f.dept, f.mode)
  BY DEF FindCourses, Ask
<1> DEFINE n == Len(scan)
           m == IF n <= MaxHits THEN n ELSE MaxHits
           Lists(c) == (f.dept = None \/ CodeStartsWith(c, f.dept)) /\ (f.mode = None \/ c.mode = f.mode)
           ss == [i \in 1..m |-> IF Lists(scan[i]) THEN << scan[i] >> ELSE << >>]
<1>2. input'.ranking = scan /\ input'.filter = f /\ answer' = FlattenSeq(ss)
  BY <1>1 DEF SearchCourses
<1>3. /\ MaxHits \in Nat /\ scan \in Seq(ToSet(scan)) /\ \A i, k \in DOMAIN scan : scan[i] = scan[k] => i = k
      /\ \A c \in ToSet(scan) : IsSequence(c.dept)
      /\ f.dept = None \/ IsSequence(f.dept)
  BY QueryAssumption DEF IsSequence
<1>4. n \in Nat /\ DOMAIN scan = 1..n /\ m \in 0..n /\ \A i \in 1..n : i \in 1..m <=> i <= MaxHits
  BY <1>3
<1> DEFINE A == ToSet(scan)
<1>5. \A i \in 1..n : scan[i] \in A
  BY <1>4 DEF ToSet
<1> HIDE DEF A, m, n
<1>6. ss \in Seq(Seq(A)) /\ Len(ss) = m
  <2>1. \A i \in 1..m : scan[i] \in A
    BY <1>4, <1>5
  <2>2. \A i \in 1..m : << scan[i] >> \in Seq(A) /\ << >> \in Seq(A)
    BY <2>1
  <2>3. ss \in [1..m -> Seq(A)]
    BY <2>2
  <2> HIDE DEF ss
  <2> QED
    BY <1>4, <2>3
<1>7. \A i \in 1..m : ss[i] = IF Lists(scan[i]) THEN << scan[i] >> ELSE << >>
  OBVIOUS
<1> HIDE DEF ss
<1>8. \A x : x \in ToSet(FlattenSeq(ss)) <=> \E i \in 1..m : \E k \in 1..Len(ss[i]) : x = ss[i][k]
  BY <1>6, FlattenElements
<1>9. \A x : x \in ToSet(FlattenSeq(ss)) <=> \E i \in 1..m : Lists(scan[i]) /\ x = scan[i]
  <2>1. ASSUME NEW i \in 1..m
        PROVE  IF Lists(scan[i]) THEN Len(ss[i]) = 1 /\ ss[i][1] = scan[i] ELSE Len(ss[i]) = 0
    <3> HIDE DEF Lists
    <3>1. CASE Lists(scan[i])
      <4>1. ss[i] = << scan[i] >>
        BY <1>7, <3>1
      <4> QED
        BY <3>1, <4>1
    <3>2. CASE ~Lists(scan[i])
      <4>1. ss[i] = << >>
        BY <1>7, <3>2
      <4>2. Len(<< >>) = 0
        OBVIOUS
      <4> QED
        BY <3>2, <4>1, <4>2
    <3> QED
      BY <3>1, <3>2
  <2> HIDE DEF Lists
  <2>2. ASSUME NEW x, NEW i \in 1..m
        PROVE  (\E k \in 1..Len(ss[i]) : x = ss[i][k]) <=> Lists(scan[i]) /\ x = scan[i]
    <3>1. CASE Lists(scan[i])
      <4>1. Len(ss[i]) = 1 /\ ss[i][1] = scan[i]
        BY <2>1, <3>1
      <4> QED
        BY <3>1, <4>1
    <3>2. CASE ~Lists(scan[i])
      <4>1. 1..Len(ss[i]) = {}
        BY <2>1, <3>2
      <4> QED
        BY <3>2, <4>1
    <3> QED
      BY <3>1, <3>2
  <2>3. ASSUME NEW x PROVE x \in ToSet(FlattenSeq(ss)) <=> \E i \in 1..m : Lists(scan[i]) /\ x = scan[i]
    <3>1. x \in ToSet(FlattenSeq(ss)) <=> \E i \in 1..m : \E k \in 1..Len(ss[i]) : x = ss[i][k]
      BY <1>8
    <3>2. \A i \in 1..m : (\E k \in 1..Len(ss[i]) : x = ss[i][k]) <=> Lists(scan[i]) /\ x = scan[i]
      BY <2>2
    <3> QED
      BY <3>1, <3>2
  <2> QED
    BY <2>3
<1>10. ASSUME NEW i \in DOMAIN scan
      PROVE  LET code == Append(scan[i].dept, scan[i].number) IN
             scan[i] \in ToSet(FlattenSeq(ss)) <=>
               /\ i <= MaxHits /\ f.mode \in { None, scan[i].mode }
               /\ f.dept # None => \A k \in 1..Len(f.dept) : k <= Len(code) /\ code[k] = f.dept[k]
  <2> DEFINE code == Append(scan[i].dept, scan[i].number)
             begins == \A k \in 1..Len(f.dept) : k <= Len(code) /\ code[k] = f.dept[k]
  <2>1. \A k \in 1..m : k \in DOMAIN scan
    BY <1>4
  <2>2. scan[i] \in ToSet(FlattenSeq(ss)) <=> i \in 1..m /\ Lists(scan[i])
    <3> HIDE DEF Lists
    <3> QED
      BY <1>3, <1>9, <2>1
  <2>3. ASSUME f.dept # None PROVE CodeStartsWith(scan[i], f.dept) <=> begins
    <3> DEFINE D == ToSet(f.dept)
               E == ToSet(scan[i].dept) \cup {scan[i].number}
    <3>1. scan[i] \in ToSet(scan)
      BY <1>4, <1>5 DEF ToSet
    <3>2. f.dept \in Seq(D) /\ scan[i].dept \in Seq(ToSet(scan[i].dept))
      BY <1>3, <2>3, <3>1 DEF IsSequence
    <3>3. code \in Seq(E)
      BY <3>2
    <3> HIDE DEF D, E, code
    <3>4. IsPrefix(f.dept, code) <=> begins
      BY <3>2, <3>3, PrefixAgrees
    <3> QED
      BY <3>4 DEF CodeStartsWith, code
  <2>4. Lists(scan[i]) <=> (f.dept # None => begins) /\ f.mode \in { None, scan[i].mode }
    <3> HIDE DEF begins
    <3> QED
      BY <2>3
  <2> HIDE DEF begins, Lists
  <2>5. scan[i] \in ToSet(FlattenSeq(ss)) <=>
          i <= MaxHits /\ f.mode \in { None, scan[i].mode } /\ (f.dept # None => begins)
    BY <1>4, <2>2, <2>4
  <2> QED
    BY <2>5 DEF begins
<1> QED
  BY <1>2, <1>10 DEF HitsFiltered

(* The tool finds an open section exactly when the page's status is open. *)
LEMMA CourseShown ==
  ASSUME NEW catalogue \in Catalogues, NEW c \in catalogue.courses, OpenCourse(catalogue, c.id)
  PROVE  AvailabilityAgrees'
<1> DEFINE own == { s \in catalogue.sections : s.course = c.id }
           open == { s \in own : s.status = "Open" }
           statuses == { s.status : s \in own }
<1>1. answer'.tool.open_sections = Cardinality(open) /\ answer'.status = AggregateStatus(statuses)
  <2>1. /\ answer'.tool = LookupCourse(catalogue.courses, catalogue.sections, c.id)
        /\ answer'.status = AggregateStatus({ s.status : s \in { t \in catalogue.sections : t.course = c.id } })
    BY DEF OpenCourse, Ask
  <2>2. LookupCourse(catalogue.courses, catalogue.sections, c.id).open_sections = Cardinality(open)
    BY DEF LookupCourse
  <2> QED
    BY <2>1, <2>2
<1>2. Cardinality(open) \in Nat /\ (Cardinality(open) = 0 <=> open = {})
  <2>1. open \in SUBSET catalogue.sections /\ IsFiniteSet(catalogue.sections)
    BY QueryAssumption
  <2>2. IsFiniteSet(open)
    BY <2>1, FS_Subset
  <2> QED
    BY <2>2, FS_CardinalityType, FS_EmptySet
<1>3. open # {} <=> "Open" \in statuses
  OBVIOUS
<1>4. AggregateStatus(statuses) = "Open" <=> "Open" \in statuses
  <2> HIDE DEF statuses
  <2>1. None # "Open"
    BY QueryAssumption
  <2>2. CASE statuses = {}
    BY <2>1, <2>2 DEF AggregateStatus
  <2>3. CASE "Open" \in statuses
    BY <2>3 DEF AggregateStatus
  <2>4. CASE statuses # {} /\ "Open" \notin statuses
    BY <2>4 DEF AggregateStatus
  <2> QED
    BY <2>2, <2>3, <2>4
<1> HIDE DEF open, statuses
<1>5. (Cardinality(open) > 0) = (AggregateStatus(statuses) = "Open")
  BY <1>2, <1>3, <1>4
<1> QED
  BY <1>1, <1>5 DEF AvailabilityAgrees

-----------------------------------------------------------------------------
(* The chain of prerequisites *)

(* The trails of one edge, and those of one edge more (the walk of get_prerequisite_chain). *)
FirstTrails(edges, code) == { << e >> : e \in { x \in edges : x.from = code } }

Longer(edges, trails) ==
  UNION { { Append(t, e) : e \in { x \in edges \ ToSet(t) : x.from = Last(t).to } } : t \in trails }

(* The trails of each length. *)
ByLength(trails, edges, code, depth) ==
  /\ trails \in [1..depth -> SUBSET Seq(edges)]
  /\ \A t : t \in Trails(edges, code, depth) <=> \E k \in 1..depth : t \in trails[k]
  /\ trails[1] = FirstTrails(edges, code)
  /\ \A k \in 1..depth : k # 1 => trails[k] = Longer(edges, trails[k - 1])

(* The trails of the walk can be told by their lengths. *)
LEMMA TrailsAre ==
  ASSUME NEW edges, NEW code, NEW depth \in Nat \ {0}
  PROVE  \E trails : ByLength(trails, edges, code, depth)
<1> DEFINE V == SUBSET Seq(edges)
           v == FirstTrails(edges, code)
           m == depth - 1
           step == [i \in 1..m |-> [T \in V |-> Longer(edges, T)]]
<1>1. v \in V
  BY DEF FirstTrails
<1>2. \A T \in V : Longer(edges, T) \in V
  <2> SUFFICES ASSUME NEW T \in V, NEW u \in Longer(edges, T) PROVE u \in Seq(edges)
    OBVIOUS
  <2>1. PICK t \in T : \E e \in { x \in edges \ ToSet(t) : x.from = Last(t).to } : u = Append(t, e)
    BY DEF Longer
  <2>2. t \in Seq(edges)
    OBVIOUS
  <2> QED
    BY <2>1, <2>2, AppendProperties
<1> HIDE DEF V, v
<1>3. m \in Nat /\ depth = m + 1
  OBVIOUS
<1> HIDE DEF m
<1>4. step \in [1..m -> [V -> V]] /\ \A i \in 1..m, T \in V : step[i][T] = Longer(edges, T)
  BY <1>2
<1> HIDE DEF step
<1>5. PICK g \in [0..m -> V] : g[0] = v /\ \A i \in 1..m : g[i] = step[i][g[i - 1]]
  <2>1. v \in V /\ m \in Nat /\ step \in [1..m -> [V -> V]]
    BY <1>1, <1>3, <1>4
  <2> QED
    BY <2>1, Recursion
<1>6. \A i \in 1..m : g[i] = Longer(edges, g[i - 1])
  <2> SUFFICES ASSUME NEW i \in 1..m PROVE g[i] = Longer(edges, g[i - 1])
    OBVIOUS
  <2>1. i - 1 \in 0..m
    BY <1>3
  <2>2. g[i - 1] \in V
    BY <2>1
  <2> QED
    BY <1>4, <1>5, <2>2
<1> DEFINE h == [k \in 1..depth |-> g[k - 1]]
           Eq(f) == f = [k \in 1..depth |-> IF k = 1 THEN v ELSE Longer(edges, f[k - 1])]
           trails == CHOOSE f : Eq(f)
<1>7. Eq(h)
  <2>1. ASSUME NEW k \in 1..depth PROVE g[k - 1] = IF k = 1 THEN v ELSE Longer(edges, h[k - 1])
    <3>1. CASE k = 1
      BY <1>5, <3>1
    <3>2. CASE k # 1
      <4>1. k - 1 \in 1..m /\ k - 1 \in 1..depth
        BY <1>3, <3>2
      <4> QED
        BY <1>6, <3>2, <4>1
    <3> QED
      BY <3>1, <3>2
  <2> QED
    BY <2>1
<1>8. Trails(edges, code, depth) = UNION { trails[k] : k \in 1..depth }
  BY DEF Trails, FirstTrails, Longer, v
<1>9. Eq(trails)
  <2>1. \E f : Eq(f)
    <3> HIDE DEF h
    <3> QED
      BY <1>7
  <2> HIDE DEF Eq
  <2> QED
    BY <2>1
<1>10. /\ trails[1] = v
       /\ \A k \in 1..depth : k # 1 => trails[k] = Longer(edges, trails[k - 1])
  <2> HIDE DEF trails
  <2>1. 1 \in 1..depth
    OBVIOUS
  <2> QED
    BY <1>9, <2>1
<1>11. trails = [k \in 1..depth |-> trails[k]]
  <2> HIDE DEF trails
  <2> QED
    BY <1>9
<1> HIDE DEF trails
<1> DEFINE U == { k \in Nat : k + 1 \in 1..depth => trails[k + 1] \in V }
<1>12. 0 \in U
  BY <1>1, <1>10
<1>13. \A k \in Nat : k \in U => k + 1 \in U
  <2> SUFFICES ASSUME NEW k \in Nat, k \in U, (k + 1) + 1 \in 1..depth PROVE trails[(k + 1) + 1] \in V
    OBVIOUS
  <2>1. k + 1 \in 1..depth /\ (k + 1) + 1 # 1 /\ ((k + 1) + 1) - 1 = k + 1
    OBVIOUS
  <2>2. trails[k + 1] \in V
    BY <2>1
  <2>3. trails[(k + 1) + 1] = Longer(edges, trails[k + 1])
    BY <1>10, <2>1
  <2> QED
    BY <1>2, <2>2, <2>3
<1> HIDE DEF U
<1>14. \A k \in Nat : k \in U
  BY <1>12, <1>13, Induction
<1>15. \A k \in 1..depth : trails[k] \in V
  <2> SUFFICES ASSUME NEW k \in 1..depth PROVE trails[k] \in V
    OBVIOUS
  <2>1. k - 1 \in Nat /\ (k - 1) + 1 = k
    OBVIOUS
  <2> QED
    BY <1>14, <2>1 DEF U
<1>16. trails \in [1..depth -> V]
  BY <1>11, <1>15
<1>17. \A t : t \in Trails(edges, code, depth) <=> \E k \in 1..depth : t \in trails[k]
  BY <1>8
<1> QED
  BY <1>10, <1>16, <1>17 DEF ByLength, V, v

(* The courses after each number of steps. *)
BySteps(reached, edges, code, steps) ==
  /\ Within(edges, code, steps) = reached[steps]
  /\ reached[0] = {code}
  /\ \A k \in 1..steps : \A x : x \in reached[k] <=>
       x \in reached[k - 1] \/ \E e \in edges : e.from \in reached[k - 1] /\ x = e.to

(* What can be reached can be told by the number of steps. *)
LEMMA WithinAre ==
  ASSUME NEW edges, NEW code, NEW steps \in Nat
  PROVE  \E reached : BySteps(reached, edges, code, steps)
<1> DEFINE V == SUBSET ({code} \cup { e.to : e \in edges })
           v == {code}
           Next1(W) == W \cup { e.to : e \in { x \in edges : x.from \in W } }
           step == [i \in 1..steps |-> [W \in V |-> Next1(W)]]
<1>1. v \in V
  OBVIOUS
<1>2. \A W \in V : Next1(W) \in V
  OBVIOUS
<1> HIDE DEF V, v, Next1
<1>3. step \in [1..steps -> [V -> V]] /\ \A i \in 1..steps, W \in V : step[i][W] = Next1(W)
  BY <1>2
<1> HIDE DEF step
<1>4. PICK g \in [0..steps -> V] : g[0] = v /\ \A i \in 1..steps : g[i] = step[i][g[i - 1]]
  BY <1>1, <1>3, Recursion
<1>5. \A i \in 1..steps : g[i] = Next1(g[i - 1])
  <2> SUFFICES ASSUME NEW i \in 1..steps PROVE g[i] = Next1(g[i - 1])
    OBVIOUS
  <2>1. i - 1 \in 0..steps
    OBVIOUS
  <2>2. g[i - 1] \in V
    BY <2>1
  <2> QED
    BY <1>3, <1>4, <2>2
<1> DEFINE Eq(f) == f = [k \in 0..steps |-> IF k = 0 THEN v ELSE Next1(f[k - 1])]
           reached == CHOOSE f : Eq(f)
<1>6. Eq(g)
  <2>1. g = [k \in 0..steps |-> g[k]]
    OBVIOUS
  <2>2. ASSUME NEW k \in 0..steps PROVE g[k] = IF k = 0 THEN v ELSE Next1(g[k - 1])
    <3>1. CASE k = 0
      BY <1>4, <3>1
    <3>2. CASE k # 0
      <4>1. k \in 1..steps
        BY <3>2
      <4> QED
        BY <1>5, <3>2, <4>1
    <3> QED
      BY <3>1, <3>2
  <2> QED
    BY <2>1, <2>2
<1>7. Within(edges, code, steps) = reached[steps]
  BY DEF Within, v, Next1
<1>8. Eq(reached)
  <2>1. \E f : Eq(f)
    BY <1>6
  <2> HIDE DEF Eq
  <2> QED
    BY <2>1
<1>9. reached[0] = v /\ \A k \in 1..steps : reached[k] = Next1(reached[k - 1])
  <2> HIDE DEF reached
  <2>1. 0 \in 0..steps /\ \A k \in 1..steps : k \in 0..steps /\ k # 0
    OBVIOUS
  <2> QED
    BY <1>8, <2>1
<1> HIDE DEF reached
<1>10. \A W, x : x \in Next1(W) <=> x \in W \/ \E e \in edges : e.from \in W /\ x = e.to
  BY DEF Next1
<1> QED
  BY <1>7, <1>9, <1>10 DEF BySteps, v

(* The trails reach every edge of the courses that are near, and no other: a   *)
(* course's nearest way to it follows no edge twice, since it gets one step    *)
(* further each time.                                                          *)
LEMMA ChainShown ==
  ASSUME NEW edges \in PrerequisiteGraphs, NEW code, CheckPrerequisites(edges, code)
  PROVE  ChainComplete'
<1> DEFINE depth == MaxPrereqDepth
           last == depth - 1
<1>1. depth \in Nat \ {0} /\ last \in Nat /\ depth = last + 1
  BY QueryAssumption
<1> HIDE DEF last
<1>2. input'.edges = edges /\ input'.code = code /\ answer' = PrerequisiteChain(edges, code, depth)
  BY DEF CheckPrerequisites, Ask
<1> HIDE DEF depth
<1>3. PICK trails : ByLength(trails, edges, code, depth)
  BY <1>1, TrailsAre
<1>4. PICK w : BySteps(w, edges, code, last)
  BY <1>1, WithinAre
<1>5. \A x : x \in PrerequisiteChain(edges, code, depth) <=>
               \E k \in 1..depth : \E t \in trails[k] : x \in ToSet(t)
  BY <1>3 DEF PrerequisiteChain, ByLength
<1>6. ASSUME NEW k \in 1..depth, k # 1, NEW t \in trails[k - 1], NEW e \in edges,
             e \notin ToSet(t), e.from = Last(t).to
      PROVE  Append(t, e) \in trails[k]
  <2>1. Append(t, e) \in { Append(t, x) : x \in { y \in edges \ ToSet(t) : y.from = Last(t).to } }
    BY <1>6
  <2>2. Append(t, e) \in Longer(edges, trails[k - 1])
    BY <1>6, <2>1, Zenon DEF Longer
  <2> QED
    BY <1>3, <1>6, <2>2 DEF ByLength
<1>7. ASSUME NEW k \in 1..depth, k # 1, NEW u \in trails[k]
      PROVE  \E t \in trails[k - 1] : \E e \in edges : e.from = Last(t).to /\ u = Append(t, e)
  BY <1>3, <1>7 DEF ByLength, Longer
<1>8. \A k \in 1..last : /\ \A x \in w[k - 1] : x \in w[k]
                         /\ \A e \in edges : e.from \in w[k - 1] => e.to \in w[k]
                         /\ \A x \in w[k] : x \in w[k - 1] \/ \E e \in edges : e.from \in w[k - 1] /\ x = e.to
  BY <1>4 DEF BySteps
<1> DEFINE Steady(k) == \A t \in trails[k] : Len(t) = k /\ \A j \in 1..k : t[j] \in edges /\ t[j].from \in w[j - 1]
           S == { k \in Nat : k + 1 \in 1..depth => Steady(k + 1) }
<1>9. 0 \in S
  <2> SUFFICES ASSUME NEW t \in trails[1]
               PROVE  Len(t) = 1 /\ \A j \in 1..1 : t[j] \in edges /\ t[j].from \in w[j - 1]
    OBVIOUS
  <2>1. PICK e \in edges : e.from = code /\ t = << e >>
    BY <1>3 DEF ByLength, FirstTrails
  <2>2. Len(t) = 1 /\ t[1] = e
    BY <2>1
  <2>3. \A j \in 1..1 : j = 1 /\ j - 1 = 0
    OBVIOUS
  <2> QED
    BY <1>4, <2>1, <2>2, <2>3 DEF BySteps
<1>10. \A k \in Nat : k \in S => k + 1 \in S
  <2> SUFFICES ASSUME NEW k \in Nat, k \in S, (k + 1) + 1 \in 1..depth PROVE Steady((k + 1) + 1)
    OBVIOUS
  <2> DEFINE l == k + 1
             n == l + 1
  <2>1. l \in 1..depth /\ n \in 1..depth /\ n # 1 /\ n - 1 = l /\ l \in 1..last /\ l \in Nat
    BY <1>1
  <2>2. Steady(l)
    BY <2>1
  <2> HIDE DEF l
  <2> SUFFICES ASSUME NEW u \in trails[n]
               PROVE  Len(u) = n /\ \A j \in 1..n : u[j] \in edges /\ u[j].from \in w[j - 1]
    BY DEF l
  <2>3. PICK t \in trails[l] : \E e \in edges : e.from = Last(t).to /\ u = Append(t, e)
    BY <1>7, <2>1
  <2>4. PICK e \in edges : e.from = Last(t).to /\ u = Append(t, e)
    BY <2>3
  <2>5. t \in Seq(edges) /\ Len(t) = l /\ \A j \in 1..l : t[j] \in edges /\ t[j].from \in w[j - 1]
    BY <1>3, <2>1, <2>2 DEF ByLength
  <2>6. Len(u) = n /\ u[n] = e /\ \A j \in 1..l : u[j] = t[j]
    BY <2>1, <2>4, <2>5, AppendProperties
  <2>7. e.from \in w[l]
    <3>1. Last(t) = t[l] /\ l \in 1..l
      BY <2>1, <2>5 DEF Last
    <3> QED
      BY <1>8, <2>1, <2>4, <2>5, <3>1
  <2>8. \A j \in 1..n : j = n \/ j \in 1..l
    BY <2>1
  <2>9. ASSUME NEW j \in 1..n PROVE u[j] \in edges /\ u[j].from \in w[j - 1]
    BY <2>1, <2>5, <2>6, <2>7, <2>8
  <2> QED
    BY <2>6, <2>9
<1> HIDE DEF S
<1>11. \A k \in Nat : k \in S
  BY <1>9, <1>10, Induction
<1>12. \A k \in 1..depth : Steady(k)
  <2> SUFFICES ASSUME NEW k \in 1..depth PROVE Steady(k)
    OBVIOUS
  <2>1. k - 1 \in Nat /\ (k - 1) + 1 = k
    BY <1>1
  <2> HIDE DEF Steady
  <2> QED
    BY <1>11, <2>1 DEF S
<1> DEFINE Grown(d) == \A k \in 0..last : k + d \in 0..last => w[k] \subseteq w[k + d]
           M == { d \in Nat : Grown(d) }
<1>13. 0 \in M
  OBVIOUS
<1>14. \A d \in Nat : d \in M => d + 1 \in M
  <2> HIDE DEF Grown
  <2> SUFFICES ASSUME NEW d \in Nat, d \in M PROVE Grown(d + 1)
    OBVIOUS
  <2> SUFFICES ASSUME NEW k \in 0..last, k + (d + 1) \in 0..last
               PROVE  w[k] \subseteq w[k + (d + 1)]
    BY DEF Grown
  <2>1. k + d \in 0..last /\ k + (d + 1) \in 1..last /\ (k + (d + 1)) - 1 = k + d
    BY <1>1
  <2>2. w[k] \subseteq w[k + d]
    BY <2>1 DEF Grown
  <2>3. w[k + d] \subseteq w[k + (d + 1)]
    BY <1>8, <2>1
  <2> QED
    BY <2>2, <2>3
<1> HIDE DEF M
<1>15. \A d \in Nat : d \in M
  BY <1>13, <1>14, Induction
<1>16. ASSUME NEW k \in 0..last, NEW l \in 0..last, k <= l PROVE w[k] \subseteq w[l]
  <2>1. l - k \in Nat /\ k + (l - k) = l
    BY <1>1, <1>16
  <2> QED
    BY <1>15, <2>1 DEF M
<1>17. ASSUME NEW x \in PrerequisiteChain(edges, code, depth)
       PROVE  x \in edges /\ x.from \in w[last]
  <2>1. PICK k \in 1..depth : \E t \in trails[k] : x \in ToSet(t)
    BY <1>5
  <2>2. PICK t \in trails[k] : x \in ToSet(t)
    BY <2>1
  <2>3. t \in Seq(edges) /\ Len(t) = k /\ \A j \in 1..k : t[j] \in edges /\ t[j].from \in w[j - 1]
    BY <1>3, <1>12 DEF ByLength
  <2>4. PICK j \in 1..k : x = t[j]
    BY <2>2, <2>3 DEF ToSet
  <2>5. j - 1 \in 0..last /\ last \in 0..last /\ j - 1 <= last
    BY <1>1
  <2> QED
    BY <1>16, <2>3, <2>4, <2>5
(* A course first reached after k steps is the end of a trail of k. *)
<1> DEFINE Ends(k) == \A x \in w[k] : x \notin w[k - 1] => \E t \in trails[k] : Last(t).to = x
           E == { k \in Nat : k + 1 \in 1..last => Ends(k + 1) }
<1>18. 0 \in E
  <2> SUFFICES ASSUME 1 \in 1..last, NEW x \in w[1], x \notin w[0]
               PROVE  \E t \in trails[1] : Last(t).to = x
    OBVIOUS
  <2>1. PICK e \in edges : e.from \in w[0] /\ x = e.to
    <3>1. 1 - 1 = 0
      OBVIOUS
    <3> QED
      BY <1>8, <3>1
  <2>2. << e >> \in trails[1]
    BY <1>3, <1>4, <2>1 DEF ByLength, BySteps, FirstTrails
  <2>3. Last(<< e >>) = e
    BY DEF Last
  <2> QED
    BY <2>1, <2>2, <2>3
<1>19. \A k \in Nat : k \in E => k + 1 \in E
  <2> HIDE DEF Ends
  <2> SUFFICES ASSUME NEW k \in Nat, k \in E, (k + 1) + 1 \in 1..last PROVE Ends((k + 1) + 1)
    OBVIOUS
  <2> USE DEF Ends
  <2> DEFINE l == k + 1
             n == l + 1
  <2>1. l \in 1..last /\ n \in 1..last /\ n - 1 = l /\ n \in 1..depth /\ l \in 1..depth /\ n # 1 /\ l \in Nat
    BY <1>1
  <2>2. Ends(l)
    BY <2>1
  <2> HIDE DEF l
  <2> SUFFICES ASSUME NEW x \in w[n], x \notin w[l]
               PROVE  \E u \in trails[n] : Last(u).to = x
    BY <2>1 DEF l
  <2>3. PICK e \in edges : e.from \in w[l] /\ x = e.to
    BY <1>8, <2>1
  <2>4. e.from \notin w[l - 1]
    BY <1>8, <2>1, <2>3
  <2>5. PICK t \in trails[l] : Last(t).to = e.from
    BY <2>2, <2>3, <2>4
  <2>6. t \in Seq(edges) /\ Len(t) = l /\ \A j \in 1..l : t[j].from \in w[j - 1]
    BY <1>3, <1>12, <2>1 DEF ByLength
  <2>7. e \notin ToSet(t)
    <3> SUFFICES ASSUME NEW j \in 1..l, e = t[j] PROVE FALSE
      BY <2>6 DEF ToSet
    <3>1. j - 1 \in 0..last /\ l - 1 \in 0..last /\ j - 1 <= l - 1
      BY <1>1, <2>1
    <3>2. w[j - 1] \subseteq w[l - 1]
      BY <1>16, <3>1
    <3> QED
      BY <2>4, <2>6, <3>2
  <2>8. Append(t, e) \in trails[n]
    BY <1>6, <2>1, <2>5, <2>7
  <2>9. Last(Append(t, e)) = e
    <3>1. Len(Append(t, e)) = Len(t) + 1 /\ Append(t, e)[Len(t) + 1] = e
      BY <2>6, AppendProperties
    <3> QED
      BY <3>1 DEF Last
  <2> QED
    BY <2>3, <2>8, <2>9
<1> HIDE DEF E
<1>20. \A k \in Nat : k \in E
  BY <1>18, <1>19, Induction
<1>21. \A k \in 1..last : Ends(k)
  <2> SUFFICES ASSUME NEW k \in 1..last PROVE Ends(k)
    OBVIOUS
  <2>1. k - 1 \in Nat /\ (k - 1) + 1 = k
    BY <1>1
  <2> HIDE DEF Ends
  <2> QED
    BY <1>20, <2>1 DEF E
<1>22. ASSUME NEW e \in edges, e.from \in w[last]
       PROVE  e \in PrerequisiteChain(edges, code, depth)
  <2> DEFINE Near == { k \in 0..last : e.from \in w[k] }
  <2>1. Near \in SUBSET Nat /\ last \in Near
    BY <1>1, <1>22
  <2>2. PICK k \in Near : \A l \in Near : k <= l
    <3> HIDE DEF Near
    <3> QED
      BY <2>1, LeastNatural
  <2>3. k \in 0..last /\ e.from \in w[k]
    OBVIOUS
  <2>4. CASE k = 0
    <3>1. << e >> \in trails[1] /\ 1 \in 1..depth
      BY <1>1, <1>3, <1>4, <2>3, <2>4 DEF ByLength, BySteps, FirstTrails
    <3>2. e \in ToSet(<< e >>)
      BY DEF ToSet
    <3> QED
      BY <1>5, <3>1, <3>2
  <2>5. CASE k # 0
    <3>1. k \in 1..last /\ k - 1 \in 0..last /\ k \in 1..depth /\ k + 1 \in 1..depth /\ k + 1 # 1 /\ (k + 1) - 1 = k
      BY <1>1, <2>3, <2>5
    <3>2. e.from \notin w[k - 1]
      <4>1. ~(k <= k - 1)
        BY <3>1
      <4> QED
        BY <2>2, <3>1, <4>1
    <3>3. PICK t \in trails[k] : Last(t).to = e.from
      BY <1>21, <2>3, <3>1, <3>2
    <3>4. t \in Seq(edges) /\ Len(t) = k /\ \A j \in 1..k : t[j].from \in w[j - 1]
      BY <1>3, <1>12, <3>1 DEF ByLength
    <3>5. e \notin ToSet(t)
      <4> SUFFICES ASSUME NEW j \in 1..k, e = t[j] PROVE FALSE
        BY <3>4 DEF ToSet
      <4>1. j - 1 \in 0..last /\ j - 1 <= k - 1
        BY <1>1, <3>1
      <4>2. w[j - 1] \subseteq w[k - 1]
        BY <1>16, <3>1, <4>1
      <4> QED
        BY <3>2, <3>4, <4>2
    <3>6. Append(t, e) \in trails[k + 1]
      BY <1>6, <3>1, <3>3, <3>5
    <3>7. e \in ToSet(Append(t, e))
      <4>1. Append(t, e) \in Seq(edges) /\ Len(Append(t, e)) = Len(t) + 1 /\ Append(t, e)[Len(t) + 1] = e
        BY <3>4, AppendProperties
      <4> DEFINE u == Append(t, e)
      <4>2. DOMAIN u = 1..Len(u) /\ Len(u) \in 1..Len(u)
        BY <3>1, <3>4, <4>1
      <4>3. u[Len(u)] = e
        BY <4>1
      <4> HIDE DEF u
      <4>4. e \in ToSet(u)
        BY <4>2, <4>3 DEF ToSet
      <4> QED
        BY <4>4 DEF u
    <3> QED
      BY <1>5, <3>1, <3>6, <3>7
  <2> QED
    BY <2>4, <2>5
<1>23. PrerequisiteChain(edges, code, depth) = { e \in edges : e.from \in w[last] }
  BY <1>17, <1>22
<1> QED
  BY <1>2, <1>4, <1>23 DEF ChainComplete, BySteps, depth, last

-----------------------------------------------------------------------------
(* The listing, page by page *)

(* A course with a section of that status, if one is asked for. *)
Held(c, sections, status) ==
  status # None => \E s \in sections : s.course = c.id /\ s.status = status

(* The rows are the courses that match. *)
RowsExact(scan, sections, f, rows) ==
  /\ rows \in Seq(ToSet(scan))
  /\ \A x : x \in ToSet(rows) <=> x \in ToSet(scan) /\ Matches(x, f) /\ Held(x, sections, f.status)
  /\ f.status = None => \A a, b \in 1..Len(rows) : rows[a] = rows[b] => a = b

(* The rows of a listing are the courses that match, each once unless a status *)
(* is asked for.                                                               *)
LEMMA RowsAre ==
  ASSUME NEW catalogue \in Catalogues, NEW scan \in catalogue.scans, NEW f
  PROVE  RowsExact(scan, catalogue.sections, f, Rows(scan, catalogue.sections, f))
<1> DEFINE n == Len(scan)
           A == ToSet(scan)
           rows == Rows(scan, catalogue.sections, f)
           count == [i \in 1..n |-> IF Matches(scan[i], f)
                                      THEN JoinedRows(scan[i], catalogue.sections, f.status) ELSE 0]
           ss == [i \in 1..n |-> [k \in 1..count[i] |-> scan[i]]]
<1>1. /\ scan \in Seq(A) /\ n \in Nat /\ DOMAIN scan = 1..n
      /\ \A i, k \in 1..n : scan[i] = scan[k] => i = k
      /\ IsFiniteSet(catalogue.sections)
  BY QueryAssumption DEF IsSequence
<1>2. /\ \A i \in 1..n : scan[i] \in A
      /\ \A x : x \in A <=> \E i \in 1..n : x = scan[i]
  BY <1>1 DEF ToSet
<1>3. ASSUME NEW c
      PROVE  /\ JoinedRows(c, catalogue.sections, f.status) \in Nat
             /\ JoinedRows(c, catalogue.sections, f.status) # 0 <=>
                  Held(c, catalogue.sections, f.status)
             /\ f.status = None => JoinedRows(c, catalogue.sections, f.status) = 1
  <2> DEFINE own == { t \in catalogue.sections : t.course = c.id /\ t.status = f.status }
  <2>1. own \in SUBSET catalogue.sections
    OBVIOUS
  <2>2. IsFiniteSet(own)
    BY <1>1, <2>1, FS_Subset
  <2>3. Cardinality(own) \in Nat /\ (Cardinality(own) = 0 <=> own = {})
    BY <2>2, FS_CardinalityType, FS_EmptySet
  <2>4. own # {} <=> \E s \in catalogue.sections : s.course = c.id /\ s.status = f.status
    OBVIOUS
  <2>5. Held(c, catalogue.sections, f.status) <=> f.status = None \/ own # {}
    BY <2>4 DEF Held
  <2>6. JoinedRows(c, catalogue.sections, f.status) = IF f.status = None THEN 1 ELSE Cardinality(own)
    BY DEF JoinedRows
  <2> HIDE DEF own
  <2> QED
    BY <2>3, <2>6, <2>5
<1>4. \A i \in 1..n : count[i] \in Nat
  BY <1>3
<1>5. \A i \in 1..n : count[i] # 0 <=> Matches(scan[i], f) /\ Held(scan[i], catalogue.sections, f.status)
  <2> SUFFICES ASSUME NEW i \in 1..n
               PROVE  count[i] # 0 <=> Matches(scan[i], f) /\ Held(scan[i], catalogue.sections, f.status)
    OBVIOUS
  <2>1. JoinedRows(scan[i], catalogue.sections, f.status) # 0 <=> Held(scan[i], catalogue.sections, f.status)
    BY <1>3
  <2>2. count[i] = IF Matches(scan[i], f) THEN JoinedRows(scan[i], catalogue.sections, f.status) ELSE 0
    OBVIOUS
  <2> HIDE DEF count
  <2>3. CASE Matches(scan[i], f)
    BY <2>1, <2>2, <2>3
  <2>4. CASE ~Matches(scan[i], f)
    BY <2>2, <2>4
  <2> QED
    BY <2>3, <2>4
<1>6. f.status = None => \A i \in 1..n : count[i] = 0 \/ count[i] = 1
  BY <1>3
<1>7. rows = FlattenSeq(ss)
  <2> DEFINE tt == [i \in 1..n |->
                      IF ~Matches(scan[i], f) THEN << >>
                      ELSE [k \in 1..JoinedRows(scan[i], catalogue.sections, f.status) |-> scan[i]]]
  <2>1. rows = FlattenSeq(tt)
    BY <1>1 DEF Rows
  <2>2. ASSUME NEW i \in 1..n
        PROVE  ss[i] = IF ~Matches(scan[i], f) THEN << >>
                       ELSE [k \in 1..JoinedRows(scan[i], catalogue.sections, f.status) |-> scan[i]]
    <3>1. CASE Matches(scan[i], f)
      BY <3>1
    <3>2. CASE ~Matches(scan[i], f)
      <4>1. count[i] = 0 /\ ss[i] = [k \in 1..count[i] |-> scan[i]]
        BY <3>2
      <4>2. 1..0 = {} /\ << >> = [k \in {} |-> scan[i]]
        OBVIOUS
      <4> HIDE DEF count, ss
      <4> QED
        BY <3>2, <4>1, <4>2
    <3> QED
      BY <3>1, <3>2
  <2>3. ss = tt
    BY <2>2
  <2> QED
    BY <2>1, <2>3
<1>8. \A i \in 1..n : ss[i] = [k \in 1..count[i] |-> scan[i]]
  OBVIOUS
<1> HIDE DEF A, n, rows, count
<1>9. \A i \in 1..n : ss[i] \in Seq(A) /\ Len(ss[i]) = count[i] /\ \A k \in 1..count[i] : ss[i][k] = scan[i]
  <2> SUFFICES ASSUME NEW i \in 1..n
               PROVE  ss[i] \in Seq(A) /\ Len(ss[i]) = count[i] /\ \A k \in 1..count[i] : ss[i][k] = scan[i]
    OBVIOUS
  <2>1. ss[i] = [k \in 1..count[i] |-> scan[i]] /\ count[i] \in Nat /\ scan[i] \in A
    BY <1>2, <1>4, <1>8
  <2> HIDE DEF ss
  <2>2. ss[i] \in [1..count[i] -> A] /\ DOMAIN ss[i] = 1..count[i] /\ \A k \in 1..count[i] : ss[i][k] = scan[i]
    BY <2>1
  <2> QED
    BY <2>1, <2>2
<1>10. ss \in Seq(Seq(A)) /\ Len(ss) = n
  <2>1. ss = [i \in 1..n |-> ss[i]]
    OBVIOUS
  <2> HIDE DEF ss
  <2>2. ss \in [1..n -> Seq(A)]
    BY <1>9, <2>1
  <2> QED
    BY <1>1, <2>2
<1> HIDE DEF ss
<1>11. rows \in Seq(A)
  BY <1>7, <1>10, FlattenPlaces
<1>12. ASSUME NEW x
       PROVE  x \in ToSet(rows) <=>
                 x \in A /\ Matches(x, f) /\ Held(x, catalogue.sections, f.status)
  <2>1. x \in ToSet(rows) <=> \E i \in 1..n : \E k \in 1..Len(ss[i]) : x = ss[i][k]
    <3>1. \A y : y \in ToSet(FlattenSeq(ss)) <=> \E i \in 1..Len(ss) : \E k \in 1..Len(ss[i]) : y = ss[i][k]
      BY <1>10, FlattenElements
    <3>2. Len(ss) = n /\ rows = FlattenSeq(ss)
      BY <1>7, <1>10
    <3> QED
      BY <3>1, <3>2
  <2>2. ASSUME NEW i \in 1..n
        PROVE  (\E k \in 1..Len(ss[i]) : x = ss[i][k]) <=> x = scan[i] /\ count[i] # 0
    <3>1. Len(ss[i]) = count[i] /\ count[i] \in Nat /\ \A k \in 1..count[i] : ss[i][k] = scan[i]
      BY <1>4, <1>9
    <3>2. count[i] # 0 => 1 \in 1..count[i]
      BY <3>1
    <3>3. count[i] = 0 => 1..count[i] = {}
      BY <3>1
    <3> QED
      BY <3>1, <3>2, <3>3
  <2>3. x \in ToSet(rows) <=> \E i \in 1..n : x = scan[i] /\ count[i] # 0
    BY <2>1, <2>2
  <2>4. x \in ToSet(rows) <=> x \in A /\ Matches(x, f) /\ Held(x, catalogue.sections, f.status)
    <3>1. ASSUME x \in ToSet(rows) PROVE x \in A /\ Matches(x, f) /\ Held(x, catalogue.sections, f.status)
      <4>1. PICK i \in 1..n : x = scan[i] /\ count[i] # 0
        BY <2>3, <3>1
      <4> QED
        BY <1>2, <1>5, <4>1
    <3>2. ASSUME x \in A, Matches(x, f), Held(x, catalogue.sections, f.status) PROVE x \in ToSet(rows)
      <4>1. PICK i \in 1..n : x = scan[i]
        BY <1>2, <3>2
      <4>2. count[i] # 0
        BY <1>5, <3>2, <4>1
      <4> QED
        BY <2>3, <4>1, <4>2
    <3> QED
      BY <3>1, <3>2
  <2> QED
    BY <2>4
<1>13. ASSUME f.status = None, NEW a \in 1..Len(rows), NEW b \in 1..Len(rows), rows[a] = rows[b]
       PROVE  a = b
  <2>1. PICK off : Placed(ss, rows, off)
    BY <1>7, <1>10, FlattenPlaces
  <2>2. PICK i \in 1..n : \E k \in 1..Len(ss[i]) : a = off[i - 1] + k
    BY <1>10, <2>1 DEF Placed
  <2>3. PICK k \in 1..Len(ss[i]) : a = off[i - 1] + k
    BY <2>2
  <2>4. PICK j \in 1..n : \E l \in 1..Len(ss[j]) : b = off[j - 1] + l
    BY <1>10, <2>1 DEF Placed
  <2>5. PICK l \in 1..Len(ss[j]) : b = off[j - 1] + l
    BY <2>4
  <2>6. rows[a] = ss[i][k] /\ rows[b] = ss[j][l]
    BY <1>10, <2>1, <2>3, <2>5 DEF Placed
  <2>7. ss[i][k] = scan[i] /\ ss[j][l] = scan[j]
    BY <1>9, <2>3, <2>5
  <2>8. i = j
    BY <1>1, <1>13, <2>6, <2>7
  <2>9. k = 1 /\ l = 1
    <3>1. Len(ss[i]) = count[i] /\ Len(ss[j]) = count[j] /\ count[i] \in {0, 1} /\ count[j] \in {0, 1}
      BY <1>6, <1>9, <1>13
    <3> QED
      BY <2>3, <2>5, <3>1
  <2> QED
    BY <2>3, <2>5, <2>8, <2>9
<1> QED
  BY <1>11, <1>12, <1>13 DEF RowsExact, A, rows

(* A page has at most `limit' rows, all those from its offset on, and as many  *)
(* courses as rows where no course has two.                                    *)
LEMMA PageIs ==
  ASSUME NEW A, NEW rows \in Seq(A), NEW offset \in Nat, NEW limit \in Nat \ {0}
  PROVE  /\ ToSet(Page(rows, offset, limit)) \subseteq ToSet(rows)
         /\ Cardinality(ToSet(Page(rows, offset, limit))) <= limit
         /\ \A m \in 1..Len(rows) : offset < m /\ m <= offset + limit => rows[m] \in ToSet(Page(rows, offset, limit))
         /\ (\A a, b \in 1..Len(rows) : rows[a] = rows[b] => a = b) /\ (offset = 0 \/ offset + limit <= Len(rows)) =>
              Cardinality(ToSet(Page(rows, offset, limit))) = IF limit <= Len(rows) THEN limit ELSE Len(rows)
<1> DEFINE first == offset + 1
           last == IF Len(rows) <= offset + limit THEN Len(rows) ELSE offset + limit
           p == SubSeq(rows, first, last)
           n == IF first <= last THEN last - first + 1 ELSE 0
<1>1. Page(rows, offset, limit) = p
  BY DEF Page
<1>2. first \in Int /\ last \in Int /\ 1 <= first /\ last <= Len(rows) /\ last <= offset + limit /\ DOMAIN rows = 1..Len(rows)
      /\ Len(rows) \in Nat /\ \A m \in 1..Len(rows) : m <= offset + limit => m <= last
  OBVIOUS
<1>3. \A i \in first..last : rows[i] \in A /\ i \in 1..Len(rows)
  BY <1>2
<1> HIDE DEF last
<1>4. n \in Nat /\ n <= limit
  BY <1>2
<1>5. p \in Seq(A) /\ Len(p) = n /\ \A i \in 1..(last - first + 1) : p[i] = rows[first + i - 1]
  BY <1>2, <1>3, SubSeqProperties
<1> HIDE DEF p
<1>6. \A i \in 1..n : i \in 1..(last - first + 1) /\ first + i - 1 \in first..last
  BY <1>2
<1>7. DOMAIN p = 1..n /\ \A i \in 1..n : p[i] = rows[first + i - 1] /\ first + i - 1 \in 1..Len(rows)
  BY <1>3, <1>5, <1>6
<1>8. ToSet(p) \subseteq ToSet(rows)
  BY <1>2, <1>7 DEF ToSet
<1>9. ASSUME NEW m \in 1..Len(rows), offset < m, m <= offset + limit PROVE rows[m] \in ToSet(p)
  <2>1. m <= last /\ first <= m /\ m \in Int
    BY <1>2, <1>9
  <2>2. m - first + 1 \in 1..n /\ first + (m - first + 1) - 1 = m
    BY <1>2, <2>1
  <2>3. p[m - first + 1] = rows[m]
    BY <1>7, <2>2
  <2> HIDE DEF n, first
  <2> QED
    BY <1>7, <2>2, <2>3 DEF ToSet
<1>10. Cardinality(ToSet(p)) <= limit
  <2> HIDE DEF n
  <2> DEFINE T == ToSet(p)
  <2>1. p \in Surjection(1..n, T)
    <3>1. p \in [1..n -> T] /\ \A t \in T : \E i \in 1..n : p[i] = t
      BY <1>5, <1>7 DEF ToSet
    <3> HIDE DEF T
    <3> QED
      BY <3>1 DEF Surjection
  <2>2. IsFiniteSet(1..n) /\ Cardinality(1..n) = n
    BY <1>4, FS_Interval
  <2> HIDE DEF T
  <2>3. IsFiniteSet(T) /\ Cardinality(T) <= n
    BY <2>1, <2>2, FS_Surjection
  <2>4. Cardinality(T) \in Nat
    BY <2>3, FS_CardinalityType
  <2>5. Cardinality(T) <= limit
    BY <1>4, <2>3, <2>4
  <2> QED
    BY <2>5 DEF T
<1>11. ASSUME \A a, b \in 1..Len(rows) : rows[a] = rows[b] => a = b, offset = 0 \/ offset + limit <= Len(rows)
       PROVE  Cardinality(ToSet(p)) = IF limit <= Len(rows) THEN limit ELSE Len(rows)
  <2> DEFINE T == ToSet(p)
             S == 1..n
  <2>1. n = IF limit <= Len(rows) THEN limit ELSE Len(rows)
    BY <1>2, <1>11 DEF last
  <2> HIDE DEF n
  <2>2. ASSUME NEW x \in S, NEW y \in S, p[x] = p[y] PROVE x = y
    <3>1. first + x - 1 = first + y - 1
      BY <1>7, <1>11, <2>2
    <3> QED
      BY <1>2, <1>4, <3>1
  <2>3. p \in [S -> T] /\ \A t \in T : \E x \in S : p[x] = t
    BY <1>5, <1>7 DEF ToSet
  <2>4. IsFiniteSet(S) /\ Cardinality(S) = n
    BY <1>4, FS_Interval
  <2> HIDE DEF S, T
  <2>5. Cardinality(T) = n
    BY <2>2, <2>3, <2>4, FiniteImage
  <2> QED
    BY <2>1, <2>5 DEF T
<1> QED
  BY <1>1, <1>8, <1>9, <1>10, <1>11

(* The next page begins within this one, and further on, until the end is seen, *)
(* and a page never reaches past the end unless it is the only one.             *)
LEMMA NextPageIs ==
  ASSUME NEW limit \in Nat \ {0}, NEW total \in Nat, NEW o \in Nat
  PROVE  /\ NextPage(o, limit, total) \in Nat
         /\ IF o + limit < total
              THEN o < NextPage(o, limit, total) /\ NextPage(o, limit, total) <= o + limit
              ELSE NextPage(o, limit, total) = o
         /\ o = 0 \/ o + limit <= total => NextPage(o, limit, total) = 0 \/ NextPage(o, limit, total) + limit <= total
<1>1. CASE o + limit < total
  <2>1. NextPage(o, limit, total) = AdvancePage(o, limit, total, 1)
    BY <1>1 DEF NextPage
  <2>2. 1 * limit = limit
    OBVIOUS
  <2>3. AdvancePage(o, limit, total, 1) = IF o + limit > total - limit THEN total - limit ELSE o + limit
    BY <1>1, <2>2 DEF AdvancePage
  <2> QED
    BY <1>1, <2>1, <2>3
<1>2. CASE ~(o + limit < total)
  BY <1>2 DEF NextPage
<1> QED
  BY <1>1, <1>2

(* Every row is on a page that is visited. *)
LEMMA OffsetsCover ==
  ASSUME NEW limit \in Nat \ {0}, NEW total \in Nat
  PROVE  /\ OffsetsVisited(limit, total) \subseteq Nat
         /\ \A m \in 1..total : \E o \in OffsetsVisited(limit, total) : o < m /\ m <= o + limit
         /\ \A o \in OffsetsVisited(limit, total) : o = 0 \/ o + limit <= total
         /\ 0 \in OffsetsVisited(limit, total)
<1> DEFINE step == [i \in 1..total |-> [o \in Nat |-> NextPage(o, limit, total)]]
<1>1. step \in [1..total -> [Nat -> Nat]]
  BY NextPageIs
<1>2. \A i \in 1..total, o \in Nat : step[i][o] = NextPage(o, limit, total)
  OBVIOUS
<1> HIDE DEF step
<1>3. PICK g \in [0..total -> Nat] : g[0] = 0 /\ \A i \in 1..total : g[i] = step[i][g[i - 1]]
  <2> DEFINE V == Nat
  <2>1. 0 \in V /\ step \in [1..total -> [V -> V]]
    BY <1>1
  <2> HIDE DEF V
  <2>2. \E g \in [0..total -> V] : g[0] = 0 /\ \A i \in 1..total : g[i] = step[i][g[i - 1]]
    BY <2>1, Recursion
  <2> QED
    BY <2>2 DEF V
<1> DEFINE Eq(h) == h = [k \in 0..total |-> IF k = 0 THEN 0 ELSE NextPage(h[k - 1], limit, total)]
           visit == CHOOSE h : Eq(h)
<1>4. Eq(g)
  <2>1. g = [k \in 0..total |-> g[k]]
    OBVIOUS
  <2>2. ASSUME NEW k \in 0..total PROVE g[k] = IF k = 0 THEN 0 ELSE NextPage(g[k - 1], limit, total)
    <3>1. CASE k = 0
      BY <1>3, <3>1
    <3>2. CASE k # 0
      <4>1. k \in 1..total /\ k - 1 \in 0..total
        BY <3>2
      <4>2. g[k - 1] \in Nat
        BY <4>1
      <4> QED
        BY <1>2, <1>3, <3>2, <4>1, <4>2
    <3> QED
      BY <3>1, <3>2
  <2> QED
    BY <2>1, <2>2
<1>5. OffsetsVisited(limit, total) = { visit[k] : k \in 0..total }
  BY DEF OffsetsVisited
<1>6. Eq(visit)
  <2>1. \E h : Eq(h)
    BY <1>4
  <2> HIDE DEF Eq
  <2> QED
    BY <2>1
<1>7. visit[0] = 0 /\ \A k \in 1..total : visit[k] = NextPage(visit[k - 1], limit, total)
  <2> HIDE DEF visit
  <2>1. 0 \in 0..total /\ \A k \in 1..total : k \in 0..total /\ k # 0
    OBVIOUS
  <2> QED
    BY <1>6, <2>1
<1> HIDE DEF visit
<1> DEFINE Seen(k) == \A m \in 1..total : m <= visit[k] + limit =>
                        \E j \in 0..k : visit[j] < m /\ m <= visit[j] + limit
           Far(k) == /\ visit[k] \in Nat /\ (k <= visit[k] \/ total <= visit[k] + limit)
                     /\ visit[k] = 0 \/ visit[k] + limit <= total
           T == { k \in Nat : k <= total => Far(k) /\ Seen(k) }
<1>8. 0 \in T
  <2>1. Far(0)
    BY <1>7
  <2>2. Seen(0)
    <3> SUFFICES ASSUME NEW m \in 1..total, m <= visit[0] + limit
                 PROVE  \E j \in 0..0 : visit[j] < m /\ m <= visit[j] + limit
      OBVIOUS
    <3>1. 0 \in 0..0 /\ visit[0] < m
      BY <1>7
    <3> QED
      BY <3>1
  <2> QED
    BY <2>1, <2>2
<1>9. \A k \in Nat : k \in T => k + 1 \in T
  <2> HIDE DEF Far, Seen
  <2> SUFFICES ASSUME NEW k \in Nat, k \in T, k + 1 <= total PROVE Far(k + 1) /\ Seen(k + 1)
    OBVIOUS
  <2>1. Far(k) /\ Seen(k)
    OBVIOUS
  <2> DEFINE l == k + 1
  <2>2. l \in 1..total /\ l - 1 = k /\ l \in Nat
    OBVIOUS
  <2>3. /\ visit[k] \in Nat /\ (k <= visit[k] \/ total <= visit[k] + limit)
        /\ visit[k] = 0 \/ visit[k] + limit <= total
    BY <2>1 DEF Far
  <2>4. visit[l] = NextPage(visit[k], limit, total)
    BY <1>7, <2>2
  <2> HIDE DEF l
  <2>5. /\ visit[l] \in Nat
        /\ IF visit[k] + limit < total THEN visit[k] < visit[l] /\ visit[l] <= visit[k] + limit
           ELSE visit[l] = visit[k]
        /\ visit[l] = 0 \/ visit[l] + limit <= total
    <3> DEFINE v == visit[k]
               u == visit[l]
    <3>1. u = NextPage(v, limit, total) /\ v \in Nat /\ (v = 0 \/ v + limit <= total)
      BY <2>3, <2>4
    <3> HIDE DEF u, v
    <3>2. /\ u \in Nat
          /\ IF v + limit < total THEN v < u /\ u <= v + limit ELSE u = v
          /\ u = 0 \/ u + limit <= total
      BY <3>1, NextPageIs
    <3> QED
      BY <3>2 DEF u, v
  <2>6. Far(l)
    BY <2>2, <2>3, <2>5 DEF Far
  <2>7. Seen(l)
    <3> SUFFICES ASSUME NEW m \in 1..total, m <= visit[l] + limit
                 PROVE  \E j \in 0..l : visit[j] < m /\ m <= visit[j] + limit
      BY DEF Seen
    <3>1. CASE m <= visit[k] + limit
      <4>1. PICK j \in 0..k : visit[j] < m /\ m <= visit[j] + limit
        BY <2>1, <3>1 DEF Seen
      <4>2. j \in 0..l
        BY <2>2
      <4> QED
        BY <4>1, <4>2
    <3>2. CASE ~(m <= visit[k] + limit)
      <4>1. visit[l] < m /\ l \in 0..l
        BY <2>2, <2>3, <2>5, <3>2
      <4> QED
        BY <4>1
    <3> QED
      BY <3>1, <3>2
  <2> QED
    BY <2>6, <2>7 DEF l
<1> HIDE DEF T
<1>10. \A k \in Nat : k \in T
  BY <1>8, <1>9, Induction
<1>11. \A k \in 0..total : Far(k) /\ Seen(k)
  <2> SUFFICES ASSUME NEW k \in 0..total PROVE Far(k) /\ Seen(k)
    OBVIOUS
  <2>1. k \in T /\ k <= total
    BY <1>10
  <2> HIDE DEF Far, Seen
  <2> QED
    BY <2>1 DEF T
<1>12. \A o : o \in OffsetsVisited(limit, total) <=> \E k \in 0..total : o = visit[k]
  BY <1>5
<1>13. OffsetsVisited(limit, total) \subseteq Nat
  BY <1>11, <1>12
<1>14. ASSUME NEW m \in 1..total
       PROVE  \E o \in OffsetsVisited(limit, total) : o < m /\ m <= o + limit
  <2>1. total \in 0..total
    OBVIOUS
  <2>2. m <= visit[total] + limit
    BY <1>11, <2>1
  <2>3. PICK j \in 0..total : visit[j] < m /\ m <= visit[j] + limit
    BY <1>11, <2>1, <2>2
  <2> QED
    BY <1>12, <2>3
<1>15. 0 \in OffsetsVisited(limit, total) /\ \A o \in OffsetsVisited(limit, total) : o = 0 \/ o + limit <= total
  <2>1. 0 \in 0..total
    OBVIOUS
  <2> QED
    BY <1>7, <1>11, <1>12, <2>1
<1> QED
  BY <1>13, <1>14, <1>15

(* What one request answers: the courses that match, counted, and those of a   *)
(* page of its order.                                                          *)
PageExact(catalogue, f, limit, scan, wanted) ==
  LET rows == Rows(scan, catalogue.sections, f)
      total == Cardinality(wanted)
      Items(o) == ToSet(Page(rows, o, limit))
  IN /\ ToSet(rows) = wanted
     /\ \A o \in Nat : Items(o) \subseteq wanted /\ Cardinality(Items(o)) <= limit
     /\ f.status = None =>
          /\ Len(rows) = total
          /\ \A o \in Nat : o = 0 \/ o + limit <= total =>
               Cardinality(Items(o)) = IF limit <= total THEN limit ELSE total
          /\ \A m \in 1..total, o \in Nat : o < m /\ m <= o + limit => rows[m] \in Items(o)

(* The courses of a catalogue that match. *)
Matching(catalogue, f) ==
  { c \in catalogue.courses :
      /\ Matches(c, f)
      /\ f.status # None => \E s \in catalogue.sections : s.course = c.id /\ s.status = f.status }

(* One request answers with courses that match, and a full page of them unless *)
(* a status is asked for.                                                      *)
LEMMA RequestShows ==
  ASSUME NEW catalogue \in Catalogues, NEW scan \in catalogue.scans, NEW f \in Filters, NEW limit \in Limits
  PROVE  /\ Cardinality(Matching(catalogue, f)) \in Nat
         /\ PageExact(catalogue, f, limit, scan, Matching(catalogue, f))
<1> DEFINE A == ToSet(scan)
           rows == Rows(scan, catalogue.sections, f)
           Items(o) == ToSet(Page(rows, o, limit))
           wanted == Matching(catalogue, f)
           total == Cardinality(wanted)
           n == Len(rows)
<1>1. limit \in Nat \ {0} /\ IsSequence(scan) /\ A = catalogue.courses
  BY QueryAssumption
<1>2. /\ rows \in Seq(A)
      /\ \A x : x \in ToSet(rows) <=> x \in wanted
      /\ f.status = None => \A a, b \in 1..n : rows[a] = rows[b] => a = b
  <2>1. RowsExact(scan, catalogue.sections, f, rows)
    BY RowsAre
  <2>2. \A x : x \in wanted <=> x \in A /\ Matches(x, f) /\ Held(x, catalogue.sections, f.status)
    BY <1>1 DEF Held, Matching
  <2> HIDE DEF rows, wanted
  <2> QED
    BY <2>1, <2>2 DEF RowsExact
<1>3. ToSet(rows) = wanted
  BY <1>2
<1> HIDE DEF rows, wanted
<1>4. n \in Nat /\ DOMAIN rows = 1..n /\ \A x : x \in wanted <=> \E m \in 1..n : x = rows[m]
  <2>1. n \in Nat /\ DOMAIN rows = 1..n
    BY <1>2
  <2> QED
    BY <1>3, <2>1 DEF ToSet
<1>5. rows \in [1..n -> wanted] /\ \A t \in wanted : \E m \in 1..n : rows[m] = t
  <2>1. rows \in [1..n -> A]
    BY <1>2, <1>4
  <2> HIDE DEF A, n
  <2>2. \A m \in 1..n : rows[m] \in wanted
    BY <1>4
  <2> QED
    BY <1>4, <2>1, <2>2
<1> HIDE DEF n
<1>6. IsFiniteSet(1..n) /\ Cardinality(1..n) = n
  BY <1>4, FS_Interval
<1>7. total \in Nat
  <2>1. rows \in Surjection(1..n, wanted)
    BY <1>5 DEF Surjection
  <2> QED
    BY <1>6, <2>1, FS_Surjection, FS_CardinalityType
<1>8. f.status = None => n = total
  BY <1>2, <1>5, <1>6, FiniteImage
<1> HIDE DEF total
<1>9. \A o \in Nat :
        /\ Items(o) \subseteq wanted /\ Cardinality(Items(o)) <= limit
        /\ \A m \in 1..n : o < m /\ m <= o + limit => rows[m] \in Items(o)
        /\ (\A a, b \in 1..n : rows[a] = rows[b] => a = b) /\ (o = 0 \/ o + limit <= n) =>
             Cardinality(Items(o)) = IF limit <= n THEN limit ELSE n
  BY <1>1, <1>2, <1>3, PageIs DEF n
<1> HIDE DEF Items
<1>10. f.status = None =>
         /\ n = total
         /\ \A o \in Nat : o = 0 \/ o + limit <= total =>
              Cardinality(Items(o)) = IF limit <= total THEN limit ELSE total
         /\ \A m \in 1..total, o \in Nat : o < m /\ m <= o + limit => rows[m] \in Items(o)
  BY <1>2, <1>8, <1>9
<1> QED
  BY <1>3, <1>7, <1>9, <1>10 DEF PageExact, rows, Items, wanted, total, n

(* Paging forward counts what matches and shows only that, in full pages       *)
(* unless a status is asked for, and all of it while the order is the same.    *)
LEMMA CoursesShown ==
  ASSUME NEW catalogue \in Catalogues, NEW f \in Filters, NEW limit \in Limits,
         BrowseCourses(catalogue, f, limit)
  PROVE  BrowsedExactly'
<1> DEFINE wanted == Matching(catalogue, f)
           total == Cardinality(wanted)
           full == IF limit <= total THEN limit ELSE total
           known == f.level \in DOMAIN LevelRanges \cup {None}
           Rowed(scan) == Rows(scan, catalogue.sections, f)
           Items(scan, o) == ToSet(Page(Rowed(scan), o, limit))
           Shown(scan, o) == ListCourses(scan, catalogue.sections, f, o, limit)
<1>1. limit \in Nat \ {0} /\ None \notin [items : SUBSET catalogue.courses, total : Nat]
  BY QueryAssumption
<1>2. total \in Nat /\ wanted \subseteq catalogue.courses
        /\ \A scan \in catalogue.scans : PageExact(catalogue, f, limit, scan, wanted)
  <2>1. catalogue.scans # {}
    BY DEF BrowseCourses
  <2> QED
    BY <2>1, RequestShows DEF Matching
<1>3. \A scan \in catalogue.scans : \A o \in Nat :
        /\ Cardinality(ToSet(Rowed(scan))) = total
        /\ Items(scan, o) \subseteq wanted /\ Cardinality(Items(scan, o)) <= limit
        /\ f.status = None =>
             /\ Len(Rowed(scan)) = total
             /\ o = 0 \/ o + limit <= total => Cardinality(Items(scan, o)) = full
             /\ \A m \in 1..total : o < m /\ m <= o + limit => Rowed(scan)[m] \in Items(scan, o)
  <2> HIDE DEF wanted
  <2> QED
    BY <1>2 DEF PageExact
<1>4. \A scan \in catalogue.scans : \A o \in Nat :
        Shown(scan, o) = IF known THEN [items |-> Items(scan, o), total |-> total] ELSE None
  <2>1. \A scan, o : Shown(scan, o) = IF known THEN [items |-> Items(scan, o), total |-> Cardinality(ToSet(Rowed(scan)))] ELSE None
    BY DEF ListCourses
  <2> HIDE DEF Shown, known, Items, Rowed, total
  <2> QED
    BY <1>3, <2>1
<1>5. \A scan \in catalogue.scans : known => Shown(scan, 0) # None
  <2> SUFFICES ASSUME NEW scan \in catalogue.scans, known PROVE Shown(scan, 0) # None
    OBVIOUS
  <2> HIDE DEF Shown, known, Items, total, wanted
  <2>1. Items(scan, 0) \in SUBSET catalogue.courses
    BY <1>2, <1>3
  <2>2. [items |-> Items(scan, 0), total |-> total] \in [items : SUBSET catalogue.courses, total : Nat]
    BY <1>2, <2>1
  <2> QED
    BY <1>1, <1>4, <2>2
<1> DEFINE Heard(scan, orders) ==
        /\ input' = [catalogue |-> catalogue, filter |-> f, limit |-> limit, orders |-> orders]
        /\ \/ Shown(scan, 0) = None /\ answer' = None
           \/ /\ Shown(scan, 0) # None
              /\ orders \in [OffsetsVisited(limit, Shown(scan, 0).total) -> catalogue.scans]
              /\ answer' = [total |-> Shown(scan, 0).total,
                            pages |-> [o \in DOMAIN orders |-> Shown(orders[o], o).items]]
<1>6. PICK scan \in catalogue.scans : \E orders : Heard(scan, orders)
  BY DEF BrowseCourses, Ask
<1>7. PICK orders : Heard(scan, orders)
  BY <1>6
<1>8. Wanted' = wanted
  BY <1>7 DEF Wanted, Matching
<1> HIDE DEF Shown, known, Items, Rowed, total, full, wanted
<1>9. CASE ~known
  <2>1. answer' = None
    BY <1>4, <1>7, <1>9
  <2>2. input'.filter.level \notin DOMAIN LevelRanges \cup {None}
    BY <1>7, <1>9 DEF known
  <2> QED
    BY <2>1, <2>2 DEF BrowsedExactly
<1>10. CASE known
  <2> DEFINE visited == OffsetsVisited(limit, total)
             pages == [o \in visited |-> Items(orders[o], o)]
  <2>1. Shown(scan, 0) # None /\ Shown(scan, 0).total = total
    BY <1>4, <1>5, <1>10
  <2>2. /\ visited \subseteq Nat /\ 0 \in visited
        /\ \A m \in 1..total : \E o \in visited : o < m /\ m <= o + limit
        /\ \A o \in visited : o = 0 \/ o + limit <= total
    BY <1>1, <1>2, OffsetsCover
  <2>3. orders \in [visited -> catalogue.scans]
    BY <1>7, <2>1
  <2>4. \A o \in visited : orders[o] \in catalogue.scans /\ o \in Nat
    BY <2>2, <2>3
  <2>5. answer' = [total |-> total, pages |-> pages]
    <3>1. [o \in DOMAIN orders |-> Shown(orders[o], o).items] = pages
      BY <1>4, <1>10, <2>3, <2>4
    <3> QED
      BY <1>7, <2>1, <3>1
  <2> HIDE DEF visited
  <2>6. answer'.total = total /\ answer'.pages = pages /\ DOMAIN pages = visited
          /\ \A o \in visited : pages[o] = Items(orders[o], o)
    BY <2>5
  <2> HIDE DEF pages
  <2>7. \A o \in visited : pages[o] \subseteq wanted /\ Cardinality(pages[o]) <= limit
    BY <1>3, <2>4, <2>6
  <2>8. f.status = None => \A o \in visited : Cardinality(pages[o]) = full
    BY <1>3, <2>2, <2>4, <2>6
  <2>9. ASSUME f.status = None, \A o, p \in visited : orders[o] = orders[p], NEW c \in wanted
        PROVE  c \in UNION { pages[o] : o \in visited }
    <3> DEFINE same == orders[0]
               rows == Rowed(same)
    <3>1. same \in catalogue.scans /\ \A o \in visited : orders[o] = same
      BY <2>2, <2>4, <2>9
    <3>2. ToSet(rows) = wanted /\ Len(rows) = total
      BY <1>2, <1>3, <2>9, <3>1 DEF PageExact, Rowed
    <3>3. rows \in Seq(ToSet(same))
      BY <3>1, RowsAre DEF RowsExact, Rowed
    <3> HIDE DEF rows, same
    <3>4. PICK m \in 1..total : c = rows[m]
      BY <3>2, <3>3 DEF ToSet
    <3>5. PICK o \in visited : o < m /\ m <= o + limit
      BY <2>2
    <3>6. rows[m] \in Items(same, o)
      BY <1>3, <2>4, <2>9, <3>1, <3>5 DEF rows
    <3>7. c \in pages[o]
      BY <2>6, <3>1, <3>4, <3>6
    <3> QED
      BY <3>7
  <2>10. f.status = None /\ (\A o, p \in visited : orders[o] = orders[p]) =>
           wanted \subseteq UNION { pages[o] : o \in visited }
    BY <2>9
  <2>11. /\ input'.catalogue = catalogue /\ input'.filter = f /\ input'.limit = limit /\ input'.orders = orders
         /\ input'.filter.level \in DOMAIN LevelRanges \cup {None}
    BY <1>7, <1>10 DEF known
  <2>12. total = Cardinality(wanted) /\ full = IF limit <= total THEN limit ELSE total
    BY DEF total, full
  <2> QED
    BY <1>8, <2>6, <2>7, <2>8, <2>10, <2>11, <2>12 DEF BrowsedExactly
<1> QED
  BY <1>9, <1>10

(* The queries show what is stored: the listing page by page, a course's       *)
(* availability, the hits of a search, the prerequisite chain, a program's     *)
(* requirements, a student's newest decisions.                                 *)
THEOREM QueriesAreExact == Spec => []QueriesExact
<1> USE DEF QueriesExact
<1>1. Init => QueriesExact
  BY DEF Init, BrowsedExactly, AvailabilityAgrees, ChainComplete, DegreeGrouped, NewestShown, HitsFiltered
<1>2. QueriesExact /\ [Next]_vars => QueriesExact'
  <2> SUFFICES ASSUME QueriesExact, [Next]_vars PROVE QueriesExact'
    OBVIOUS
  <2>1. CASE UNCHANGED vars
    <3>1. BrowsedExactly' = BrowsedExactly /\ AvailabilityAgrees' = AvailabilityAgrees /\ ChainComplete' = ChainComplete
      BY <2>1 DEF vars, BrowsedExactly, Wanted, AvailabilityAgrees, ChainComplete
    <3>2. DegreeGrouped' = DegreeGrouped /\ NewestShown' = NewestShown /\ HitsFiltered' = HitsFiltered
      BY <2>1 DEF vars, DegreeGrouped, NewestShown, HitsFiltered
    <3> QED
      BY <3>1, <3>2
  <2>2. CASE Next
    <3>1. BrowsedExactly'
      <4>1. CASE handler' = "browse"
        BY <2>2, <4>1, JustAsked, CoursesShown
      <4> QED
        BY <4>1 DEF BrowsedExactly
    <3>2. AvailabilityAgrees'
      <4>1. CASE handler' = "course"
        BY <2>2, <4>1, JustAsked, CourseShown
      <4> QED
        BY <4>1 DEF AvailabilityAgrees
    <3>3. ChainComplete'
      <4>1. CASE handler' = "chain"
        BY <2>2, <4>1, JustAsked, ChainShown
      <4> QED
        BY <4>1 DEF ChainComplete
    <3>4. DegreeGrouped'
      <4>1. CASE handler' = "degree"
        BY <2>2, <4>1, JustAsked, DegreeShown
      <4> QED
        BY <4>1 DEF DegreeGrouped
    <3>5. NewestShown'
      <4>1. CASE handler' = "student"
        BY <2>2, <4>1, JustAsked, StudentShown
      <4> QED
        BY <4>1 DEF NewestShown
    <3>6. HitsFiltered'
      <4>1. CASE handler' = "search"
        BY <2>2, <4>1, JustAsked, HitsShown
      <4> QED
        BY <4>1 DEF HitsFiltered
    <3> QED
      BY <3>1, <3>2, <3>3, <3>4, <3>5, <3>6
  <2> QED
    BY <2>1, <2>2
<1> QED
  BY <1>1, <1>2, PTL DEF Spec
=============================================================================
