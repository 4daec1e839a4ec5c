------------------------ MODULE IngestPipelineProofs ------------------------
(***************************************************************************)
(* Readers of Postgres never see half of a load, a run that succeeds has   *)
(* loaded what the source says, and nothing is lost without a confirmation, *)
(* for any sources, modes, retries, kills and number of runs.              *)
(***************************************************************************)
EXTENDS IngestPipeline, FiniteSetTheorems, SequenceTheorems, TLAPS

(* A program that is not in the table has no requirements there: only then     *)
(* are its requirements one source's when it comes.                            *)
ReadersInv ==
  /\ source \in Versions
  /\ DOMAIN pg = Tables
  /\ NeverHalfLoaded
  /\ \A r \in pg.requirements : r.program \in Names(pg.programs)

(* Rows that an upsert leaves are old ones without a rival or new ones.        *)
LEMMA Upserted ==
  ASSUME NEW table, NEW rows, NEW key
  PROVE  /\ rows \subseteq Upsert(table, rows, key)
         /\ Upsert(table, rows, key) \subseteq table \cup rows
BY DEF Upsert

(* An upsert of courses keeps every code and adds the new ones.                *)
LEMMA CodesUpserted ==
  ASSUME NEW table, NEW rows
  PROVE  Codes(Upsert(table, rows, ByCode)) = Codes(table) \cup Codes(rows)
BY DEF Codes, Upsert, ByCode

(* And of programs every name.                                                 *)
LEMMA NamesUpserted ==
  ASSUME NEW table, NEW rows
  PROVE  Names(Upsert(table, rows, ByName)) = Names(table) \cup Names(rows)
BY DEF Names, Upsert, ByName

(* Empty stores.                                                               *)
LEMMA InitReaders == Init => ReadersInv
BY IngestAssumption DEF Init, ReadersInv, NeverHalfLoaded, Tables

(* Postgres and the version of the source are all that a reader sees.          *)
LEMMA ReadersUnchanged ==
  ASSUME ReadersInv, pg' = pg, source' \in Versions
  PROVE  ReadersInv'
BY DEF ReadersInv, NeverHalfLoaded, Names, Codes

(* The courses come with their sections and attributes.                        *)
LEMMA CoursesWritten ==
  ASSUME ReadersInv, WritePostgresCourses
  PROVE  ReadersInv'
<1>1. /\ DOMAIN pg = Tables /\ source' = source /\ pg' = CourseRows(pg, In)
  BY DEF ReadersInv, WritePostgresCourses
<1>2. /\ DOMAIN pg' = Tables
      /\ pg'.courses = Upsert(pg.courses, In.courses, ByCode)
      /\ pg'.sections = Upsert(pg.sections, In.sections, ByCodeAndCrn)
      /\ pg'.attributes = pg.attributes \cup In.attributes
      /\ pg'.programs = pg.programs /\ pg'.requirements = pg.requirements
  BY <1>1 DEF CourseRows, Tables
<1>3. \A s \in In.sections \cup In.attributes : s.code \in Codes(In.courses)
  BY IngestAssumption DEF ReadersInv, In, Codes
<1>4. \A s \in pg'.sections \cup pg'.attributes : s.code \in Codes(pg'.courses)
  BY <1>2, <1>3, Upserted, CodesUpserted DEF ReadersInv, NeverHalfLoaded
<1> QED
  BY <1>1, <1>2, <1>4 DEF ReadersInv, NeverHalfLoaded, Names, Codes

(* A program of the source comes with all of its requirements, and those it    *)
(* had go; the others keep theirs.                                             *)
LEMMA RequirementsWritten ==
  ASSUME ReadersInv, WritePostgresRequirements
  PROVE  ReadersInv'
<1>1. DOMAIN pg = Tables /\ source' = source /\ pg' = RequirementRows(pg, In)
  BY DEF ReadersInv, WritePostgresRequirements
<1>2. /\ DOMAIN pg' = Tables
      /\ pg'.programs = Upsert(pg.programs, In.programs, ByName)
      /\ pg'.requirements =
           { r \in pg.requirements : r.program \notin Names(In.programs) } \cup In.requirements
      /\ pg'.courses = pg.courses /\ pg'.sections = pg.sections /\ pg'.attributes = pg.attributes
  BY <1>1 DEF RequirementRows, Tables
<1>3. \A r \in In.requirements : r.program \in Names(In.programs)
  BY IngestAssumption DEF ReadersInv, In, Names
<1>4. \A r \in pg'.requirements : r.program \in Names(pg'.programs)
  BY <1>2, <1>3, NamesUpserted DEF ReadersInv
<1>5. ASSUME NEW p \in pg'.programs
      PROVE  \E v \in Versions : { r \in pg'.requirements : r.program = p.name } =
                                   { r \in Sources[v].requirements : r.program = p.name }
  <2>1. CASE p.name \in Names(In.programs)
    <3>1. { r \in pg'.requirements : r.program = p.name } =
            { r \in Sources[source].requirements : r.program = p.name }
      BY <1>2, <2>1 DEF In
    <3> QED
      BY <3>1 DEF ReadersInv
  <2>2. CASE p.name \notin Names(In.programs)
    <3>1. p \in pg.programs
      BY <1>2, <1>5, <2>2, Upserted DEF Names
    <3>2. { r \in pg'.requirements : r.program = p.name } = { r \in pg.requirements : r.program = p.name }
      BY <1>2, <1>3, <2>2
    <3> QED
      BY <3>1, <3>2 DEF ReadersInv, NeverHalfLoaded
  <2> QED
    BY <2>1, <2>2
<1> QED
  BY <1>1, <1>2, <1>4, <1>5 DEF ReadersInv, NeverHalfLoaded, Codes

(* Only three parts write Postgres, and NewSource changes the source.          *)
LEMMA NextReaders == ReadersInv /\ [Next]_vars => ReadersInv'
<1> SUFFICES ASSUME ReadersInv, [Next]_vars PROVE ReadersInv'
  OBVIOUS
<1>1. CASE UNCHANGED << source, pg >>
  BY <1>1, ReadersUnchanged DEF ReadersInv
<1>2. CASE NewSource
  BY <1>2, ReadersUnchanged DEF NewSource, stores
<1>3. CASE WipePostgres
  BY <1>3 DEF WipePostgres, ReadersInv, NeverHalfLoaded, Tables
<1>4. CASE WritePostgresCourses
  BY <1>4, CoursesWritten
<1>5. CASE WritePostgresRequirements
  BY <1>5, RequirementsWritten
<1>6. ASSUME NEW mode, NEW confirmed, NEW dry_run, Start(mode, confirmed, dry_run) PROVE ReadersInv'
  BY <1>1, <1>6 DEF Start, stores
<1>7. ASSUME NEW u, Register(u) PROVE ReadersInv'
  BY <1>1, <1>7 DEF Register
<1>8. CASE WipeAborts \/ WipeNeo4j
  BY <1>1, <1>8 DEF WipeAborts, WipeNeo4j, stores
<1>9. ASSUME NEW part, NEW graph, Write(part, graph) PROVE ReadersInv'
  BY <1>1, <1>9 DEF Write
<1>10. CASE Departments \/ CourseNodes \/ SectionNodes \/ AttributeEdges
  BY <1>9, <1>10 DEF Departments, CourseNodes, SectionNodes, AttributeEdges
<1>11. CASE PrerequisiteEdges
  BY <1>9, <1>11 DEF PrerequisiteEdges
<1>12. CASE ProgramNodes \/ RequirementNodes \/ SatisfiedBy \/ OrAlternatives
  BY <1>9, <1>12 DEF ProgramNodes, RequirementNodes, SatisfiedBy, OrAlternatives
<1>13. CASE BuildEmbeddings
  BY <1>1, <1>13 DEF BuildEmbeddings, VectorIndex, SelectMissing, Embed, EmbedFails, EmbeddingsDone, stores
<1>14. CASE Validate
  BY <1>1, <1>14 DEF Validate, ValidateCounts, ValidateRequirements, ValidateExtras, Check, stores
<1>15. CASE StepRaises \/ Killed
  BY <1>1, <1>15 DEF StepRaises, Killed, stores
<1>16. CASE UNCHANGED vars
  BY <1>1, <1>16 DEF vars, stores
<1> QED
  BY <1>2, <1>3, <1>4, <1>5, <1>6, <1>7, <1>8, <1>10, <1>11, <1>12, <1>13, <1>14, <1>15, <1>16
     DEF Next, Pipeline, Wipe, IngestCourses, IngestRequirements

(* Whatever the sources, however runs are mixed, retried, failed or killed: every  *)
(* section and attribute in Postgres has its course, and the requirements of each  *)
(* program there are all of one source's.                                          *)
THEOREM ReadersSeeWholes == Spec => []NeverHalfLoaded
<1>1. Init => ReadersInv
  BY InitReaders
<1>2. ReadersInv /\ [Next]_vars => ReadersInv'
  BY NextReaders
<1>3. ReadersInv => NeverHalfLoaded
  BY DEF ReadersInv
<1> QED
  BY <1>1, <1>2, <1>3, PTL DEF Spec

-----------------------------------------------------------------------------
(* Where a run is *)

StepNames == { "wipe", "courses", "prerequisites", "requirements", "embeddings", "validate" }

(* The steps that are left when one of them is next. *)
LeftFrom ==
  [ wipe |-> << "wipe", "courses", "prerequisites", "requirements", "embeddings", "validate" >>,
    courses |-> << "courses", "prerequisites", "requirements", "embeddings", "validate" >>,
    prerequisites |-> << "prerequisites", "requirements", "embeddings", "validate" >>,
    requirements |-> << "requirements", "embeddings", "validate" >>,
    embeddings |-> << "embeddings", "validate" >>,
    validate |-> << "validate" >> ]

(* How many parts a step has, and how many come before it in a full run. *)
Size ==
  [ wipe |-> 2, courses |-> 5, prerequisites |-> 1, requirements |-> 5, embeddings |-> 3,
    validate |-> 3 ]

Before ==
  [ wipe |-> 0, courses |-> 2, prerequisites |-> 7, requirements |-> 8, embeddings |-> 13,
    validate |-> 16 ]

(* The place of a part among those of a full run. *)
Number ==
  [ wipe_postgres |-> 1, wipe_neo4j |-> 2, write_postgres_courses |-> 3, departments |-> 4,
    course_nodes |-> 5, section_nodes |-> 6, attribute_edges |-> 7, prerequisite_edges |-> 8,
    write_postgres_requirements |-> 9, program_nodes |-> 10, requirement_nodes |-> 11,
    satisfied_by |-> 12, or_alternatives |-> 13, vector_index |-> 14, missing |-> 15, embed |-> 16,
    validate_counts |-> 17, validate_requirements |-> 18, validate_extras |-> 19 ]

PartNames == DOMAIN Number

Where == Before[Step] + run.part

(* A load has done this part since it began, and nothing after it was undone. *)
Done(part) ==
  /\ run.mode \in LoadModes
  /\ run.status = "succeeded" \/ (run.status = "running" /\ Number[part] < Where)

RunFields ==
  { "mode", "confirmed", "status", "steps", "part", "attempt", "todo", "total", "missed" }

RunInv ==
  /\ DOMAIN run = RunFields
  /\ run.status \in { "none", "running", "succeeded", "failed", "refused", "counted" }
  /\ run.status = "running" =>
       /\ run.attempt \in 1..MaxAttempts
       /\ Step \in StepNames /\ run.part \in 1..Size[Step]
       /\ run.mode \in LoadModes => run.steps = LeftFrom[Step]
       /\ run.mode \notin LoadModes => run.steps = << Step >> /\ Step \in { "embeddings", "validate" }
       /\ Step = "wipe" => run.mode = "full"
       /\ run.mode = "full" => run.confirmed = TRUE

-----------------------------------------------------------------------------
(* What the stores hold *)

(* Nothing but what the sources said that were loaded since the stores were   *)
(* empty.                                                                     *)
Loaded(table) == UNION { Sources[v][table] : v \in loaded }

BoundsInv ==
  /\ source \in Versions /\ loaded \subseteq Versions
  /\ accounts \subseteq Users /\ index \in BOOLEAN /\ runs \in 0..MaxRuns
  /\ DOMAIN pg = Tables /\ pg = [t \in Tables |-> pg[t]] /\ DOMAIN neo = Nodes \cup Edges
  /\ \A t \in Tables : pg[t] \subseteq Loaded(t)
  /\ \A t \in { "courses", "programs", "requirements" } : neo[t] \subseteq Loaded(t)
  /\ neo.departments \subseteq { c.dept : c \in Loaded("courses") }
  /\ neo.has_section \subseteq { << s.code, s.crn >> : s \in Loaded("sections") }
  /\ neo.has_attribute \subseteq Loaded("attributes")
  /\ neo.or_alternative \subseteq Loaded("or_alternative")
  /\ \A e \in neo.has_prerequisite :
       e \in Loaded("prerequisites") /\ { e.from, e.to } \subseteq Codes(neo.courses)
  /\ \A e \in neo.satisfied_by : e \in Loaded("satisfied_by") /\ e.code \in Codes(neo.courses)

(* The validators count: so nothing is infinite, and a course has one vector. *)
CountedInv ==
  /\ IsFiniteSet(pg.courses) /\ IsFiniteSet(neo.courses) /\ IsFiniteSet(embedded)
  /\ \A e, f \in embedded : e.code = f.code => e = f
  /\ Codes(embedded) \subseteq Codes(neo.courses)
  /\ At("embed") => Codes(run.todo) \subseteq Codes(neo.courses)

(* Whatever part a load is at, what its earlier parts write is in the stores. *)
ProgressInv ==
  /\ At("wipe_neo4j") => \A t \in Tables : pg[t] = {}
  /\ Done("write_postgres_courses") =>
       source \in loaded /\ \A t \in { "courses", "sections", "attributes" } : In[t] \subseteq pg[t]
  /\ Done("departments") => { c.dept : c \in In.courses } \subseteq neo.departments
  /\ Done("course_nodes") => In.courses \subseteq neo.courses
  /\ Done("section_nodes") => { << s.code, s.crn >> : s \in In.sections } \subseteq neo.has_section
  /\ Done("attribute_edges") => In.attributes \subseteq neo.has_attribute
  /\ Done("prerequisite_edges") => PrerequisiteEdgesOf(neo, In) \subseteq neo.has_prerequisite
  /\ Done("write_postgres_requirements") =>
       \A t \in { "programs", "requirements" } : In[t] \subseteq pg[t]
  /\ Done("program_nodes") => In.programs \subseteq neo.programs
  /\ Done("requirement_nodes") => In.requirements \subseteq neo.requirements
  /\ Done("satisfied_by") =>
       { e \in In.satisfied_by : e.code \in Codes(neo.courses) } \subseteq neo.satisfied_by
  /\ Done("or_alternatives") => In.or_alternative \subseteq neo.or_alternative
  /\ Done("vector_index") => index = TRUE
  /\ Done("validate_counts") => CountsHold
  /\ Done("validate_extras") => ExtrasHold

LoadInv == RunInv /\ BoundsInv /\ CountedInv /\ ProgressInv

-----------------------------------------------------------------------------
(* How a run moves *)

LEMMA ConcatIs ==
  ASSUME NEW S, NEW s \in Seq(S), NEW t \in Seq(S), NEW u \in Seq(S), Len(s) + Len(t) = Len(u),
         \A i \in 1..Len(s) : s[i] = u[i], \A i \in 1..Len(t) : t[i] = u[Len(s) + i]
  PROVE  s \o t = u
<1>1. /\ s \o t \in Seq(S) /\ Len(s \o t) = Len(u)
      /\ \A i \in 1..Len(u) : (s \o t)[i] = u[i]
  BY ConcatProperties
<1> QED
  BY <1>1, SeqEqual

LEMMA LeftIs ==
  /\ Steps("full") = LeftFrom["wipe"]
  /\ Steps("upsert") = LeftFrom["courses"] /\ Steps("run_all") = LeftFrom["courses"]
  /\ Steps("embeddings") = << "embeddings" >> /\ Steps("validate") = << "validate" >>
<1> DEFINE w == << "wipe" >>
           l == Load
           v == << "validate" >>
           wl == << "wipe", "courses", "prerequisites", "requirements", "embeddings" >>
           lv == LeftFrom["courses"]
           wlv == LeftFrom["wipe"]
<1>1. /\ w \in Seq(StepNames) /\ l \in Seq(StepNames) /\ v \in Seq(StepNames)
      /\ wl \in Seq(StepNames) /\ lv \in Seq(StepNames) /\ wlv \in Seq(StepNames)
  BY DEF Load, LeftFrom, StepNames
<1>2. /\ Len(w) = 1 /\ Len(l) = 4 /\ Len(v) = 1 /\ Len(wl) = 5 /\ Len(lv) = 5 /\ Len(wlv) = 6
  BY DEF Load, LeftFrom
<1>3. /\ \A i \in 1..1 : w[i] = wl[i]
      /\ \A i \in 1..4 : l[i] = wl[1 + i]
  BY DEF Load
<1>4. /\ \A i \in 1..5 : wl[i] = wlv[i]
      /\ \A i \in 1..1 : v[i] = wlv[5 + i]
  BY DEF LeftFrom
<1>5. /\ \A i \in 1..4 : l[i] = lv[i]
      /\ \A i \in 1..1 : v[i] = lv[4 + i]
  BY DEF LeftFrom, Load
<1>6. w \o l \o v = wlv /\ l \o v = lv
  <2> HIDE DEF w, l, v, wl, lv, wlv
  <2>1. w \o l = wl
    <3>1. /\ Len(w) + Len(l) = Len(wl) /\ \A i \in 1..Len(w) : w[i] = wl[i]
          /\ \A i \in 1..Len(l) : l[i] = wl[Len(w) + i]
      BY ONLY <1>2, <1>3
    <3> QED
      BY ONLY <1>1, <3>1, ConcatIs
  <2>2. wl \o v = wlv
    <3>1. /\ Len(wl) + Len(v) = Len(wlv) /\ \A i \in 1..Len(wl) : wl[i] = wlv[i]
          /\ \A i \in 1..Len(v) : v[i] = wlv[Len(wl) + i]
      BY ONLY <1>2, <1>4
    <3> QED
      BY ONLY <1>1, <3>1, ConcatIs
  <2>3. l \o v = lv
    <3>1. /\ Len(l) + Len(v) = Len(lv) /\ \A i \in 1..Len(l) : l[i] = lv[i]
          /\ \A i \in 1..Len(v) : v[i] = lv[Len(l) + i]
      BY ONLY <1>2, <1>5
    <3> QED
      BY ONLY <1>1, <3>1, ConcatIs
  <2> QED
    BY <2>1, <2>2, <2>3
<1> QED
  BY <1>6 DEF Steps

(* The step that comes next.                                                  *)
After ==
  [ wipe |-> "courses", courses |-> "prerequisites", prerequisites |-> "requirements",
    requirements |-> "embeddings", embeddings |-> "validate" ]

LEMMA LeftFacts ==
  ASSUME NEW s \in StepNames
  PROVE  /\ Head(LeftFrom[s]) = s
         /\ Len(LeftFrom[s]) = 1 <=> s = "validate"
         /\ s # "validate" => Tail(LeftFrom[s]) = LeftFrom[After[s]] /\ After[s] \in StepNames
<1>1. CASE s = "wipe"
  BY <1>1 DEF LeftFrom, After, StepNames
<1>2. CASE s = "courses"
  BY <1>2 DEF LeftFrom, After, StepNames
<1>3. CASE s = "prerequisites"
  BY <1>3 DEF LeftFrom, After, StepNames
<1>4. CASE s = "requirements"
  BY <1>4 DEF LeftFrom, After, StepNames
<1>5. CASE s = "embeddings"
  BY <1>5 DEF LeftFrom, After, StepNames
<1>6. CASE s = "validate"
  BY <1>6 DEF LeftFrom
<1> QED
  BY <1>1, <1>2, <1>3, <1>4, <1>5, <1>6 DEF StepNames

LEMMA SizeFacts ==
  ASSUME NEW s \in StepNames
  PROVE  /\ Len(Parts[s]) = Size[s] /\ Size[s] \in 1..5 /\ Before[s] \in 0..16
         /\ s # "validate" => Before[After[s]] = Before[s] + Size[s]
         /\ s = "validate" => Before[s] + Size[s] = 19
<1>1. CASE s = "wipe"
  BY <1>1 DEF Parts, Size, Before, After
<1>2. CASE s = "courses"
  BY <1>2 DEF Parts, Size, Before, After
<1>3. CASE s = "prerequisites"
  BY <1>3 DEF Parts, Size, Before, After
<1>4. CASE s = "requirements"
  BY <1>4 DEF Parts, Size, Before, After
<1>5. CASE s = "embeddings"
  BY <1>5 DEF Parts, Size, Before, After
<1>6. CASE s = "validate"
  BY <1>6 DEF Parts, Size, Before
<1> QED
  BY <1>1, <1>2, <1>3, <1>4, <1>5, <1>6 DEF StepNames

LEMMA PlaceFacts ==
  ASSUME NEW s \in StepNames, NEW i \in 1..Size[s]
  PROVE  Parts[s][i] \in PartNames /\ Number[Parts[s][i]] = Before[s] + i
BY DEF Parts, Size, Before, StepNames, Number, PartNames

(* What the moves look at.                                                    *)
Like(r) ==
  /\ DOMAIN r = RunFields
  /\ r.mode = run.mode /\ r.confirmed = run.confirmed /\ r.status = run.status
  /\ r.steps = run.steps /\ r.part = run.part /\ r.attempt = run.attempt

LEMMA StepMoves ==
  ASSUME RunInv, run.status = "running", NEW r, Like(r), run' = NextStep(r)
  PROVE  /\ RunInv' /\ run'.mode = run.mode
         /\ run'.status = "running" => Where' = Before[Step] + Size[Step] + 1
         /\ run'.status # "running" => run'.status = "succeeded"
         /\ run.mode \in LoadModes => (run'.status = "succeeded" <=> Step = "validate")
<1>1. Step \in StepNames /\ r.part \in 1..Size[Step]
  BY DEF RunInv, Like
<1>2. CASE Len(r.steps) = 1
  <2>1. run' = [r EXCEPT !.status = "succeeded"]
    BY <1>2 DEF NextStep
  <2>2. /\ DOMAIN run' = RunFields /\ run'.status = "succeeded" /\ run'.mode = run.mode
    BY <2>1 DEF Like, RunFields
  <2>3. run.mode \in LoadModes => Step = "validate"
    BY <1>1, <1>2, LeftFacts DEF RunInv, Like
  <2> QED
    BY <2>2, <2>3 DEF RunInv
<1>3. CASE Len(r.steps) # 1
  <2>1. run' = [r EXCEPT !.steps = Tail(@), !.part = 1, !.attempt = 1]
    BY <1>3 DEF NextStep
  <2>2. /\ DOMAIN run' = RunFields /\ run'.status = "running" /\ run'.mode = run.mode
        /\ run'.confirmed = run.confirmed /\ run'.part = 1 /\ run'.attempt = 1
        /\ run'.steps = Tail(run.steps)
    BY <2>1 DEF Like, RunFields
  <2>3. run.mode \in LoadModes /\ run.steps = LeftFrom[Step]
    <3>1. Len(<< Step >>) = 1
      OBVIOUS
    <3> QED
      BY <1>3, <3>1 DEF RunInv, Like
  <2>4. Step # "validate"
    BY <1>1, <1>3, <2>3, LeftFacts DEF Like
  <2>5. run'.steps = LeftFrom[After[Step]] /\ After[Step] \in StepNames
    BY <1>1, <2>2, <2>3, <2>4, LeftFacts
  <2>6. Step' = After[Step]
    BY <2>5, LeftFacts DEF Step
  <2>7. Step' # "wipe"
    BY <1>1, <2>4, <2>6 DEF After, StepNames
  <2>8. 1 \in 1..MaxAttempts /\ 1 \in 1..Size[Step']
    BY <2>5, <2>6, SizeFacts, IngestAssumption
  <2>9. RunInv'
    BY <2>2, <2>3, <2>5, <2>6, <2>7, <2>8 DEF RunInv
  <2>10. Where' = Before[Step] + Size[Step] + 1
    BY <1>1, <2>2, <2>4, <2>6, SizeFacts DEF Where
  <2> QED
    BY <2>2, <2>4, <2>9, <2>10
<1> QED
  BY <1>2, <1>3

LEMMA PartMoves ==
  ASSUME RunInv, run.status = "running", NEW r, Like(r), run' = NextPart(r)
  PROVE  /\ RunInv' /\ run'.mode = run.mode
         /\ run'.status = "running" => Where' = Where + 1
         /\ run'.status # "running" => run'.status = "succeeded"
         /\ run.mode \in LoadModes /\ run'.status = "succeeded" => Where = 19
<1>1. Step \in StepNames /\ run.part \in 1..Size[Step] /\ Head(r.steps) = Step
  BY DEF RunInv, Like, Step
<1>2. /\ Len(Parts[Step]) = Size[Step] /\ Size[Step] \in 1..5 /\ Before[Step] \in 0..16
      /\ Step = "validate" => Before[Step] + Size[Step] = 19
  BY <1>1, SizeFacts
<1>3. CASE run.part = Size[Step]
  <2>1. run' = NextStep(r)
    BY <1>1, <1>2, <1>3 DEF NextPart, Like
  <2> QED
    BY <1>2, <1>3, <2>1, StepMoves DEF Where
<1>4. CASE run.part # Size[Step]
  <2>1. run' = [r EXCEPT !.part = @ + 1, !.attempt = IF Step = "wipe" THEN 1 ELSE @]
    BY <1>1, <1>2, <1>4 DEF NextPart, Like
  <2>2. /\ DOMAIN run' = RunFields /\ run'.status = "running" /\ run'.mode = run.mode
        /\ run'.confirmed = run.confirmed /\ run'.part = run.part + 1
        /\ run'.attempt \in { 1, run.attempt } /\ run'.steps = run.steps
    BY <2>1 DEF Like, RunFields
  <2>3. Step' = Step /\ run'.part \in 1..Size[Step] /\ Where' = Where + 1
    <3>1. Step' = Step
      BY <2>2 DEF Step
    <3>2. \A n \in 1..5, b \in 0..16 : \A i \in 1..n : i # n => i + 1 \in 1..n /\ b + (i + 1) = b + i + 1
      OBVIOUS
    <3> QED
      BY <1>1, <1>2, <1>4, <2>2, <3>1, <3>2 DEF Where
  <2>4. 1 \in 1..MaxAttempts
    BY IngestAssumption
  <2> QED
    BY <2>2, <2>3, <2>4 DEF RunInv
<1> QED
  BY <1>3, <1>4

LEMMA RaisesMoves ==
  ASSUME RunInv, run.status = "running", run' = Raises(run)
  PROVE  /\ RunInv' /\ run'.mode = run.mode /\ run'.status \in { "running", "failed" }
         /\ run'.status = "running" => /\ Where' <= Where /\ Step' = Step
                                       /\ run'.part \in { 1, run.part }
                                       /\ Step = "wipe" => run'.part = run.part
<1>1. Step \in StepNames /\ run.part \in 1..Size[Step] /\ Head(run.steps) = Step
  BY DEF RunInv, Step
<1>2. Size[Step] \in 1..5 /\ Before[Step] \in 0..16
  BY <1>1, SizeFacts
<1>3. CASE run' = Fail(run)
  BY <1>3 DEF Fail, RunInv, RunFields
<1>4. CASE /\ run.attempt # MaxAttempts
           /\ run' = [run EXCEPT !.part = IF Step = "wipe" THEN @ ELSE 1,
                                 !.attempt = @ + 1, !.todo = {}, !.missed = 0]
  <2>1. /\ DOMAIN run' = RunFields /\ run'.status = "running" /\ run'.mode = run.mode
        /\ run'.confirmed = run.confirmed /\ run'.part \in { 1, run.part }
        /\ Step = "wipe" => run'.part = run.part
        /\ run'.attempt = run.attempt + 1 /\ run'.steps = run.steps
    BY <1>4 DEF RunInv, RunFields
  <2>2. run'.attempt \in 1..MaxAttempts
    BY <1>4, <2>1, IngestAssumption DEF RunInv
  <2>3. Step' = Step /\ run'.part \in 1..Size[Step] /\ Where' <= Where
    BY <1>1, <1>2, <2>1 DEF Step, Where
  <2> QED
    BY <2>1, <2>2, <2>3 DEF RunInv
<1> QED
  BY <1>1, <1>3, <1>4 DEF Raises

(* A part that is at hand is the one its number says.                         *)
LEMMA Here ==
  ASSUME RunInv, NEW part \in PartNames, At(part)
  PROVE  run.status = "running" /\ Number[part] = Where
BY PlaceFacts DEF RunInv, At, Where

(* The embeddings and the validation alone know no other part.                *)
LEMMA OnlyLoads ==
  ASSUME RunInv, run.status = "running", Where \in 1..13
  PROVE  run.mode \in LoadModes
<1>1. Step \in StepNames /\ run.part \in 1..Size[Step]
  BY DEF RunInv
<1>2. Step \notin { "embeddings", "validate" }
  BY <1>1 DEF Where, Before, Size
<1> QED
  BY <1>2 DEF RunInv

LEMMA HereNext ==
  ASSUME RunInv', NEW part \in PartNames, At(part)'
  PROVE  run'.status = "running" /\ Number[part] = Where'
BY PlaceFacts DEF RunInv, At, Where

LEMMA Numbers ==
  ASSUME NEW part \in PartNames
  PROVE  Number[part] \in 1..19
BY DEF PartNames, Number

(* A part is done and the run goes on to the next.                            *)
LEMMA Advance ==
  ASSUME RunInv, NEW p \in PartNames, At(p), NEW r, Like(r), run' = NextPart(r)
  PROVE  /\ RunInv' /\ run.status = "running"
         /\ \A q \in PartNames : Done(q)' => Number[q] <= Number[p]
         /\ \A q \in PartNames : Number[q] < Number[p] /\ Done(q)' => Done(q)
         /\ \A q \in PartNames : At(q)' => Number[q] = Number[p] + 1
         /\ Number[p] <= 13 => \A q \in PartNames : Number[q] < Number[p] => Done(q)
<1>1. run.status = "running" /\ Where = Number[p] /\ Number[p] \in 1..19
  BY Here, Numbers
<1>2. /\ RunInv' /\ run'.mode = run.mode
      /\ run'.status = "running" => Where' = Where + 1
      /\ run'.status # "running" => run'.status = "succeeded"
      /\ run.mode \in LoadModes /\ run'.status = "succeeded" => Where = 19
  BY <1>1, PartMoves
<1>3. ASSUME NEW q \in PartNames, Done(q)' PROVE Number[q] <= Number[p]
  BY <1>1, <1>2, <1>3, Numbers DEF Done
<1>4. ASSUME NEW q \in PartNames, Number[q] < Number[p], Done(q)' PROVE Done(q)
  BY <1>1, <1>2, <1>4 DEF Done
<1>5. ASSUME NEW q \in PartNames, At(q)' PROVE Number[q] = Number[p] + 1
  BY <1>1, <1>2, <1>5, HereNext
<1>6. ASSUME Number[p] <= 13, NEW q \in PartNames, Number[q] < Number[p] PROVE Done(q)
  BY <1>1, <1>6, OnlyLoads DEF Done
<1> QED
  BY <1>1, <1>2, <1>3, <1>4, <1>5, <1>6

(* The stores stay as they are: the facts that are claimed afterwards were    *)
(* claimed before, or were just validated.                                    *)
LEMMA Steady ==
  ASSUME LoadInv, RunInv', UNCHANGED << source, pg, neo, embedded, index, loaded >>,
         accounts' \subseteq Users, runs' \in 0..MaxRuns,
         \A p \in PartNames : Number[p] <= 14 /\ Done(p)' => Done(p),
         At("wipe_neo4j")' => At("wipe_neo4j"),
         At("embed")' => Codes(run'.todo) \subseteq Codes(neo.courses),
         Done("validate_counts")' => Done("validate_counts") \/ CountsHold,
         Done("validate_extras")' => Done("validate_extras") \/ ExtrasHold
  PROVE  LoadInv'
<1>1. Loaded("courses")' = Loaded("courses") /\ In' = In
  BY DEF Loaded, In
<1>2. BoundsInv'
  BY DEF LoadInv, BoundsInv, Loaded
<1>3. CountedInv'
  BY DEF LoadInv, CountedInv
<1>4. CountsHold' = CountsHold /\ ExtrasHold' = ExtrasHold
  BY <1>1 DEF CountsHold, ExtrasHold
<1>5. \A p \in { "write_postgres_courses", "departments", "course_nodes", "section_nodes",
                 "attribute_edges", "prerequisite_edges", "write_postgres_requirements",
                 "program_nodes", "requirement_nodes", "satisfied_by", "or_alternatives",
                 "vector_index" } : Done(p)' => Done(p)
  BY DEF Number, PartNames
<1>6. ProgressInv'
  BY <1>1, <1>4, <1>5 DEF LoadInv, ProgressInv, PrerequisiteEdgesOf
<1> QED
  BY <1>2, <1>3, <1>6 DEF LoadInv

(* A run that does not go on claims nothing.                                  *)
LEMMA Ends ==
  ASSUME LoadInv, DOMAIN run' = RunFields, run'.status \in { "none", "failed", "refused", "counted" },
         UNCHANGED stores, source' \in Versions, loaded' = loaded, runs' \in 0..MaxRuns
  PROVE  LoadInv'
<1>1. RunInv'
  BY DEF RunInv
<1>2. BoundsInv'
  BY DEF stores, LoadInv, BoundsInv, Loaded
<1>3. \A p : ~At(p)' /\ ~Done(p)'
  BY DEF At, Done
<1>4. CountedInv' /\ ProgressInv'
  BY <1>3 DEF stores, LoadInv, CountedInv, ProgressInv
<1> QED
  BY <1>1, <1>2, <1>4 DEF LoadInv

LEMMA FailEnds ==
  ASSUME LoadInv, run' = Fail(run), UNCHANGED << source, stores, runs, loaded >>
  PROVE  LoadInv'
<1>1. DOMAIN run' = RunFields /\ run'.status = "failed"
  BY DEF LoadInv, RunInv, Fail, RunFields
<1> QED
  BY <1>1, Ends DEF LoadInv, BoundsInv

LEMMA NewSourceStep ==
  ASSUME LoadInv, NewSource
  PROVE  LoadInv'
<1>1. DOMAIN run' = RunFields /\ run'.status = "none" /\ source' \in Versions
  BY DEF NewSource, Idle, RunFields
<1> QED
  BY <1>1, Ends DEF NewSource, LoadInv, BoundsInv

LEMMA StartStep ==
  ASSUME LoadInv, NEW mode \in Modes, NEW confirmed \in BOOLEAN, NEW dry_run \in BOOLEAN,
         Start(mode, confirmed, dry_run)
  PROVE  LoadInv'
<1>1. runs' \in 0..MaxRuns /\ source' = source /\ loaded' = loaded /\ UNCHANGED stores
  BY IngestAssumption DEF Start, LoadInv, BoundsInv
<1>2. CASE run' \in { Idle("refused"), Idle("counted") }
  <2>1. DOMAIN run' = RunFields /\ run'.status \in { "refused", "counted" }
    BY <1>2 DEF Idle, RunFields
  <2> QED
    BY <1>1, <2>1, Ends DEF LoadInv, BoundsInv
<1>3. CASE /\ MayStart(mode, confirmed)
           /\ run' = [Idle("running") EXCEPT !.mode = mode, !.confirmed = confirmed,
                                             !.steps = Steps(mode)]
  <2>1. /\ DOMAIN run' = RunFields /\ run'.status = "running" /\ run'.mode = mode
        /\ run'.confirmed = confirmed /\ run'.steps = Steps(mode)
        /\ run'.part = 1 /\ run'.attempt = 1 /\ run'.todo = {}
    BY <1>3 DEF Idle, RunFields
  <2>2. 1 \in 1..MaxAttempts
    BY IngestAssumption
  <2>3. PICK s \in StepNames :
          /\ Step' = s /\ (mode \in LoadModes => run'.steps = LeftFrom[s])
          /\ (mode \in LoadModes => s = (IF mode = "full" THEN "wipe" ELSE "courses"))
          /\ (mode \notin LoadModes => run'.steps = << s >> /\ s \in { "embeddings", "validate" })
    <3>1. CASE mode = "full"
      BY <2>1, <3>1, LeftIs, LeftFacts DEF Step, LoadModes, StepNames
    <3>2. CASE mode \in { "upsert", "run_all" }
      BY <2>1, <3>2, LeftIs, LeftFacts DEF Step, LoadModes, StepNames
    <3>3. CASE mode = "embeddings"
      <4>1. Head(<< "embeddings" >>) = "embeddings"
        OBVIOUS
      <4> QED
        BY <2>1, <3>3, <4>1, LeftIs DEF Step, LoadModes, StepNames
    <3>4. CASE mode = "validate"
      <4>1. Head(<< "validate" >>) = "validate"
        OBVIOUS
      <4> QED
        BY <2>1, <3>4, <4>1, LeftIs DEF Step, LoadModes, StepNames
    <3> QED
      BY <3>1, <3>2, <3>3, <3>4 DEF Modes
  <2>4. 1 \in 1..Size[s] /\ Before[s] \in 0..16
    BY SizeFacts
  <2>5. mode = "full" => confirmed = TRUE
    BY <1>3, Zenon DEF MayStart
  <2>6. s = "wipe" => mode = "full"
    BY <2>3
  <2>7. RunInv'
    BY <2>1, <2>2, <2>3, <2>4, <2>5, <2>6 DEF RunInv
  <2>8. Where' = Before[s] + 1
    BY <2>1, <2>3 DEF Where
  <2>9. ASSUME NEW p \in PartNames, Done(p)' PROVE Number[p] < 3
    <3>1. Number[p] < Where' /\ Before[s] \in { 0, 2 }
      BY <2>1, <2>3, <2>9 DEF Done, Before
    <3> QED
      BY <2>8, <3>1, Numbers
  <2>10. ~At("wipe_neo4j")' /\ ~At("embed")'
    <3>1. /\ "embed" \in PartNames /\ Number["embed"] = 16
          /\ "wipe_neo4j" \in PartNames /\ Number["wipe_neo4j"] = 2
      BY DEF PartNames, Number
    <3>2. \A t \in StepNames : Before[t] + 1 # 16 /\ Before[t] + 1 # 2
      BY DEF StepNames, Before
    <3> QED
      BY <2>7, <2>8, <3>1, <3>2, HereNext
  <2>11. \A p \in PartNames : Done(p)' => p \in { "wipe_postgres", "wipe_neo4j" }
    BY <2>9 DEF PartNames, Number
  <2>12. CountedInv' /\ BoundsInv'
    BY <1>1, <2>10 DEF stores, LoadInv, CountedInv, BoundsInv, Loaded
  <2>13. ProgressInv'
    <3>1. \A p \in { "write_postgres_courses", "departments", "course_nodes", "section_nodes",
                     "attribute_edges", "prerequisite_edges", "write_postgres_requirements",
                     "program_nodes", "requirement_nodes", "satisfied_by", "or_alternatives",
                     "vector_index", "validate_counts", "validate_extras" } : ~Done(p)'
      BY <2>11 DEF PartNames, Number
    <3> QED
      BY <2>10, <3>1 DEF ProgressInv
  <2> QED
    BY <2>7, <2>12, <2>13 DEF LoadInv
<1> QED
  BY <1>2, <1>3 DEF Start

LEMMA RegisterStep ==
  ASSUME LoadInv, NEW u \in Users, Register(u)
  PROVE  LoadInv'
<1>1. RunInv'
  BY DEF Register, LoadInv, RunInv, Step
<1>2. \A p : (At(p)' <=> At(p)) /\ (Done(p)' <=> Done(p))
  BY DEF Register, At, Done, Step, Where
<1> QED
  BY <1>1, <1>2, Steady DEF Register, LoadInv, BoundsInv, CountedInv

(* A step that raises goes back or ends the run.                              *)
LEMMA RaisesStep ==
  ASSUME LoadInv, run.status = "running", run' = Raises(run),
         UNCHANGED << source, stores, runs, loaded >>
  PROVE  LoadInv'
<1>1. /\ RunInv' /\ run'.mode = run.mode /\ run'.status \in { "running", "failed" }
      /\ run'.status = "running" => /\ Where' <= Where /\ Step' = Step
                                    /\ run'.part \in { 1, run.part }
                                    /\ Step = "wipe" => run'.part = run.part
  BY RaisesMoves DEF LoadInv
<1>2. CASE run'.status = "failed"
  BY <1>1, <1>2, Ends DEF LoadInv, BoundsInv, RunInv
<1>3. CASE run'.status = "running"
  <2>1. Before[Step] \in 0..16 /\ run.part \in 1..Size[Step] /\ Size[Step] \in 1..5
    BY SizeFacts DEF LoadInv, RunInv
  <2>2. Where \in 1..21 /\ Where' \in 1..21
    BY <1>1, <1>3, <2>1 DEF Where
  <2>3. \A p \in PartNames : Done(p)' => Done(p)
    BY <1>1, <1>3, <2>2, Numbers DEF Done
  <2>4. At("wipe_neo4j")' => At("wipe_neo4j")
    <3>1. "wipe_neo4j" \in PartNames /\ Number["wipe_neo4j"] = 2
      BY DEF PartNames, Number
    <3>2. ASSUME At("wipe_neo4j")' PROVE Step = "wipe"
      <4>1. Where' = 2 /\ Where' = Before[Step] + run'.part
        BY <1>1, <3>1, <3>2, HereNext DEF Where
      <4> QED
        BY <1>1, <1>3, <2>1, <4>1 DEF LoadInv, RunInv, StepNames, Before
    <3> QED
      BY <1>1, <1>3, <3>2 DEF At
  <2>5. At("embed")' => Codes(run'.todo) \subseteq Codes(neo.courses)
    <3>1. run'.todo = {} \/ run' = Fail(run)
      BY DEF Raises, LoadInv, RunInv, RunFields
    <3> QED
      BY <1>3, <3>1 DEF Codes, Fail, LoadInv, RunInv, RunFields
  <2>6. "validate_counts" \in PartNames /\ "validate_extras" \in PartNames
    BY DEF PartNames, Number
  <2> QED
    BY <1>1, <2>3, <2>4, <2>5, <2>6, Steady DEF stores, LoadInv, BoundsInv
<1> QED
  BY <1>1, <1>2, <1>3

(* A validator passes or the run fails.                                       *)
LEMMA CheckStep ==
  ASSUME LoadInv, NEW part \in { "validate_counts", "validate_requirements", "validate_extras" },
         NEW passed \in BOOLEAN, Check(part, passed),
         part = "validate_counts" => passed = CountsHold,
         part = "validate_extras" => passed = ExtrasHold
  PROVE  LoadInv'
<1>1. CASE run' = Fail(run)
  BY <1>1, FailEnds DEF Check
<1>2. CASE passed /\ run' = NextPart(run)
  <2>1. part \in PartNames /\ Number[part] \in 17..19
    BY DEF PartNames, Number
  <2>2. Like(run)
    BY DEF Like, LoadInv, RunInv
  <2>3. /\ RunInv'
        /\ \A q \in PartNames : Done(q)' => Number[q] <= Number[part]
        /\ \A q \in PartNames : Number[q] < Number[part] /\ Done(q)' => Done(q)
        /\ \A q \in PartNames : At(q)' => Number[q] = Number[part] + 1
    BY <1>2, <2>1, <2>2, Advance DEF Check, LoadInv
  <2>4. \A q \in PartNames : Number[q] <= 14 /\ Done(q)' => Done(q)
    BY <2>1, <2>3, Numbers
  <2>5. ~At("wipe_neo4j")' /\ ~At("embed")'
    BY <2>1, <2>3 DEF PartNames, Number
  <2>6. Done("validate_counts")' => Done("validate_counts") \/ CountsHold
    <3>1. CASE part = "validate_counts"
      BY <1>2, <3>1, Zenon
    <3>2. CASE part # "validate_counts"
      <4>1. "validate_counts" \in PartNames /\ Number["validate_counts"] < Number[part]
        BY <3>2 DEF PartNames, Number
      <4> QED
        BY <2>3, <4>1
    <3> QED
      BY <3>1, <3>2
  <2>7. Done("validate_extras")' => Done("validate_extras") \/ ExtrasHold
    <3>1. CASE part = "validate_extras"
      BY <1>2, <3>1, Zenon
    <3>2. CASE part # "validate_extras"
      <4>1. "validate_extras" \in PartNames /\ Number["validate_extras"] > Number[part]
        BY <3>2 DEF PartNames, Number
      <4> QED
        BY <2>1, <2>3, <4>1, Numbers
    <3> QED
      BY <3>1, <3>2
  <2> QED
    BY <2>3, <2>4, <2>5, <2>6, <2>7, Steady DEF Check, stores, LoadInv, BoundsInv
<1> QED
  BY <1>1, <1>2 DEF Check

LEMMA ValidateStep ==
  ASSUME LoadInv, Validate
  PROVE  LoadInv'
<1>1. CASE ValidateCounts
  <2>1. PICK passed \in BOOLEAN : passed = CountsHold
    BY DEF CountsHold
  <2> QED
    BY <1>1, <2>1, CheckStep DEF ValidateCounts
<1>2. CASE ValidateRequirements
  <2>1. PICK passed \in BOOLEAN : passed = RequirementsHold
    BY DEF RequirementsHold
  <2> QED
    BY <1>2, <2>1, CheckStep DEF ValidateRequirements
<1>3. CASE ValidateExtras
  <2>1. PICK passed \in BOOLEAN : passed = ExtrasHold
    BY DEF ExtrasHold
  <2> QED
    BY <1>3, <2>1, CheckStep DEF ValidateExtras
<1> QED
  BY <1>1, <1>2, <1>3 DEF Validate

LEMMA KilledStep ==
  ASSUME LoadInv, Killed \/ WipeAborts
  PROVE  LoadInv'
BY FailEnds DEF Killed, WipeAborts, LoadInv

(* What an upsert leaves of the old rows and brings of the new ones, finite.  *)
LEMMA UpsertFinite ==
  ASSUME NEW table, NEW rows, NEW key, IsFiniteSet(table), IsFiniteSet(rows)
  PROVE  IsFiniteSet(Upsert(table, rows, key))
<1>1. IsFiniteSet(table \cup rows)
  BY FS_Union
<1> QED
  BY <1>1, Upserted, FS_Subset

-----------------------------------------------------------------------------
(* The parts of the wipe *)

LEMMA WipePostgresStep ==
  ASSUME LoadInv, WipePostgres
  PROVE  LoadInv'
<1>1. At("wipe_postgres") /\ "wipe_postgres" \in PartNames /\ Number["wipe_postgres"] = 1 /\ Like(run)
  BY DEF WipePostgres, PartNames, Number, Like, LoadInv, RunInv
<1>2. /\ RunInv' /\ \A q \in PartNames : Done(q)' => Number[q] <= 1
      /\ \A q \in PartNames : At(q)' => Number[q] = 2
  BY <1>1, Advance DEF WipePostgres, LoadInv
<1>3. ~At("embed")'
  BY <1>2 DEF PartNames, Number
<1>4. BoundsInv'
  BY DEF WipePostgres, LoadInv, BoundsInv, Tables, Loaded
<1>5. CountedInv'
  BY <1>3, FS_EmptySet DEF WipePostgres, LoadInv, CountedInv, Tables
<1>6. \A q \in PartNames : Number[q] > 1 => ~Done(q)'
  BY <1>2, Numbers
<1>7. ProgressInv'
  BY <1>6 DEF WipePostgres, ProgressInv, Tables, PartNames, Number
<1> QED
  BY <1>2, <1>4, <1>5, <1>7 DEF LoadInv

LEMMA WipeNeo4jStep ==
  ASSUME LoadInv, WipeNeo4j
  PROVE  LoadInv'
<1>1. At("wipe_neo4j") /\ "wipe_neo4j" \in PartNames /\ Number["wipe_neo4j"] = 2 /\ Like(run)
  BY DEF WipeNeo4j, PartNames, Number, Like, LoadInv, RunInv
<1>2. /\ RunInv' /\ \A q \in PartNames : Done(q)' => Number[q] <= 2
      /\ \A q \in PartNames : At(q)' => Number[q] = 3
  BY <1>1, Advance DEF WipeNeo4j, LoadInv
<1>3. ~At("embed")' /\ ~At("wipe_neo4j")'
  BY <1>2 DEF PartNames, Number
<1>4. \A t \in Tables : pg[t] = {}
  BY <1>1 DEF LoadInv, ProgressInv
<1>5. DOMAIN neo' = Nodes \cup Edges /\ \A t \in Nodes \cup Edges : neo'[t] = {}
  BY DEF WipeNeo4j
<1>6. BoundsInv'
  BY <1>4, <1>5 DEF WipeNeo4j, LoadInv, BoundsInv, Nodes, Edges
<1>7. CountedInv'
  BY <1>3, <1>5, FS_EmptySet DEF WipeNeo4j, LoadInv, CountedInv, Nodes, Edges, Codes
<1>8. \A q \in PartNames : Number[q] > 2 => ~Done(q)'
  BY <1>2, Numbers
<1>9. ProgressInv'
  BY <1>3, <1>8 DEF ProgressInv, PartNames, Number
<1> QED
  BY <1>2, <1>6, <1>7, <1>9 DEF LoadInv

-----------------------------------------------------------------------------
(* The parts that load *)

LoadParts ==
  { "write_postgres_courses", "departments", "course_nodes", "section_nodes", "attribute_edges",
    "prerequisite_edges", "write_postgres_requirements", "program_nodes", "requirement_nodes",
    "satisfied_by", "or_alternatives" }

(* One of them is done: the earlier ones were, and no later one is.           *)
LEMMA LoadPart ==
  ASSUME LoadInv, NEW p \in LoadParts, At(p), run' = NextPart(run)
  PROVE  /\ RunInv' /\ ~At("wipe_neo4j")' /\ ~At("embed")'
         /\ \A q \in PartNames : Number[q] < Number[p] => Done(q)
         /\ \A q \in PartNames : Number[q] > Number[p] => ~Done(q)'
<1>1. p \in PartNames /\ Number[p] \in 3..13 /\ Like(run)
  BY DEF LoadParts, PartNames, Number, Like, LoadInv, RunInv
<1>2. /\ RunInv' /\ \A q \in PartNames : Done(q)' => Number[q] <= Number[p]
      /\ \A q \in PartNames : At(q)' => Number[q] = Number[p] + 1
      /\ \A q \in PartNames : Number[q] < Number[p] => Done(q)
  BY <1>1, Advance DEF LoadInv
<1>3. ~At("wipe_neo4j")' /\ ~At("embed")'
  BY <1>1, <1>2 DEF PartNames, Number
<1> QED
  BY <1>1, <1>2, <1>3, Numbers

LEMMA WritePostgresCoursesStep ==
  ASSUME LoadInv, WritePostgresCourses
  PROVE  LoadInv'
<1>1. /\ RunInv' /\ ~At("wipe_neo4j")' /\ ~At("embed")'
      /\ \A q \in PartNames : Number[q] > 3 => ~Done(q)'
  BY LoadPart DEF WritePostgresCourses, LoadParts, Number
<1>2. /\ DOMAIN pg' = Tables /\ source' = source /\ source \in Versions
      /\ pg'.courses = Upsert(pg.courses, In.courses, ByCode)
      /\ pg'.sections = Upsert(pg.sections, In.sections, ByCodeAndCrn)
      /\ pg'.attributes = pg.attributes \cup In.attributes
      /\ pg'.programs = pg.programs /\ pg'.requirements = pg.requirements
      /\ loaded' = loaded \cup {source} /\ loaded \subseteq Versions
  BY DEF WritePostgresCourses, CourseRows, Tables, LoadInv, BoundsInv
<1>3. \A t : Loaded(t)' = Loaded(t) \cup In[t]
  BY <1>2 DEF Loaded, In
<1>4. \A t \in Tables : pg'[t] \subseteq pg[t] \cup In[t]
  BY <1>2, Upserted DEF Tables
<1>5. BoundsInv'
  <2>1. pg' = [t \in Tables |-> pg'[t]]
    BY DEF WritePostgresCourses, CourseRows, LoadInv, BoundsInv
  <2> QED
    BY <1>2, <1>3, <1>4, <2>1 DEF WritePostgresCourses, LoadInv, BoundsInv
<1>6. IsFiniteSet(In.courses)
  BY <1>2, IngestAssumption DEF In
<1>7. CountedInv'
  BY <1>1, <1>2, <1>6, UpsertFinite DEF WritePostgresCourses, LoadInv, CountedInv
<1>8. \A t \in { "courses", "sections", "attributes" } : In'[t] \subseteq pg'[t]
  BY <1>2, Upserted DEF In
<1>9. ProgressInv'
  BY <1>1, <1>2, <1>8 DEF ProgressInv, PartNames, Number
<1> QED
  BY <1>1, <1>5, <1>7, <1>9 DEF LoadInv

LEMMA DepartmentsStep ==
  ASSUME LoadInv, Departments
  PROVE  LoadInv'
<1>1. /\ RunInv' /\ ~At("wipe_neo4j")' /\ ~At("embed")'
      /\ \A q \in PartNames : Number[q] < 4 => Done(q)
      /\ \A q \in PartNames : Number[q] > 4 => ~Done(q)'
  BY LoadPart DEF Departments, Write, LoadParts, Number
<1>2. /\ UNCHANGED << source, pg, accounts, embedded, index, runs, loaded >>
      /\ neo' = [neo EXCEPT !.departments = @ \cup { c.dept : c \in In.courses }]
      /\ DOMAIN neo = Nodes \cup Edges
  BY DEF Departments, Write, LoadInv, BoundsInv
<1>3. /\ DOMAIN neo' = Nodes \cup Edges
      /\ neo'.departments = neo.departments \cup { c.dept : c \in In.courses }
      /\ \A t \in (Nodes \cup Edges) \ { "departments" } : neo'[t] = neo[t]
  BY <1>2 DEF Nodes, Edges
<1>4. source \in loaded
  BY <1>1 DEF LoadInv, ProgressInv, PartNames, Number
<1>5. { c.dept : c \in In.courses } \subseteq { c.dept : c \in Loaded("courses") }
  BY <1>4 DEF In, Loaded
<1>6. BoundsInv'
  BY <1>2, <1>3, <1>5 DEF LoadInv, BoundsInv, Loaded, Nodes, Edges
<1>7. CountedInv'
  BY <1>1, <1>2, <1>3 DEF LoadInv, CountedInv, Nodes, Edges
<1>8. ProgressInv'
  BY <1>1, <1>2, <1>3 DEF LoadInv, ProgressInv, PartNames, Number, In
<1> QED
  BY <1>1, <1>6, <1>7, <1>8 DEF LoadInv

LEMMA CourseNodesStep ==
  ASSUME LoadInv, CourseNodes
  PROVE  LoadInv'
<1>1. /\ RunInv' /\ ~At("wipe_neo4j")' /\ ~At("embed")'
      /\ \A q \in PartNames : Number[q] < 5 => Done(q)
      /\ \A q \in PartNames : Number[q] > 5 => ~Done(q)'
  BY LoadPart DEF CourseNodes, Write, LoadParts, Number
<1>2. /\ UNCHANGED << source, pg, accounts, embedded, index, runs, loaded >>
      /\ neo' = [neo EXCEPT !.courses = Upsert(@, In.courses, ByCode)]
      /\ DOMAIN neo = Nodes \cup Edges
  BY DEF CourseNodes, Write, LoadInv, BoundsInv
<1>3. /\ DOMAIN neo' = Nodes \cup Edges
      /\ neo'.courses = Upsert(neo.courses, In.courses, ByCode)
      /\ \A t \in (Nodes \cup Edges) \ { "courses" } : neo'[t] = neo[t]
  BY <1>2 DEF Nodes, Edges
<1>4. source \in loaded
  BY <1>1 DEF LoadInv, ProgressInv, PartNames, Number
<1>5. /\ neo'.courses \subseteq Loaded("courses") /\ In.courses \subseteq neo'.courses
      /\ Codes(neo.courses) \subseteq Codes(neo'.courses)
  <2>1. In.courses \subseteq Loaded("courses")
    BY <1>4 DEF In, Loaded
  <2> QED
    BY <1>3, <2>1, Upserted, CodesUpserted DEF LoadInv, BoundsInv
<1>6. IsFiniteSet(In.courses)
  BY IngestAssumption DEF In, LoadInv, BoundsInv
<1>7. BoundsInv'
  BY <1>2, <1>3, <1>5 DEF LoadInv, BoundsInv, Loaded, Nodes, Edges
<1>8. CountedInv'
  BY <1>1, <1>2, <1>3, <1>5, <1>6, UpsertFinite DEF LoadInv, CountedInv
<1>9. ProgressInv'
  BY <1>1, <1>2, <1>3, <1>5 DEF LoadInv, ProgressInv, PartNames, Number, In, Nodes, Edges
<1> QED
  BY <1>1, <1>7, <1>8, <1>9 DEF LoadInv

LEMMA SectionNodesStep ==
  ASSUME LoadInv, SectionNodes
  PROVE  LoadInv'
<1> DEFINE rows == { s \in In.sections : s.code \in Codes(neo.courses) }
<1>1. /\ RunInv' /\ ~At("wipe_neo4j")' /\ ~At("embed")'
      /\ \A q \in PartNames : Number[q] < 6 => Done(q)
      /\ \A q \in PartNames : Number[q] > 6 => ~Done(q)'
  BY LoadPart DEF SectionNodes, Write, LoadParts, Number
<1>2. /\ UNCHANGED << source, pg, accounts, embedded, index, runs, loaded >>
      /\ neo' = [neo EXCEPT
           !.sections = Upsert(@, { [crn |-> s.crn, status |-> s.status] : s \in rows }, ByCrn),
           !.has_section = @ \cup { << s.code, s.crn >> : s \in rows }]
      /\ DOMAIN neo = Nodes \cup Edges /\ source \in Versions
  BY DEF SectionNodes, Write, LoadInv, BoundsInv
<1>3. /\ DOMAIN neo' = Nodes \cup Edges
      /\ neo'.has_section = neo.has_section \cup { << s.code, s.crn >> : s \in rows }
      /\ \A t \in (Nodes \cup Edges) \ { "sections", "has_section" } : neo'[t] = neo[t]
  BY <1>2 DEF Nodes, Edges
<1>4. source \in loaded /\ In.courses \subseteq neo.courses
  BY <1>1 DEF LoadInv, ProgressInv, PartNames, Number
<1>5. rows = In.sections
  BY <1>2, <1>4, IngestAssumption DEF In, Codes
<1>6. { << s.code, s.crn >> : s \in In.sections } \subseteq { << s.code, s.crn >> : s \in Loaded("sections") }
  BY <1>4 DEF In, Loaded
<1>7. BoundsInv'
  BY <1>2, <1>3, <1>5, <1>6 DEF LoadInv, BoundsInv, Loaded, Nodes, Edges
<1>8. CountedInv'
  BY <1>1, <1>2, <1>3 DEF LoadInv, CountedInv, Nodes, Edges
<1>9. ProgressInv'
  <2>1. /\ UNCHANGED << source, pg, loaded >> /\ In' = In
        /\ { << s.code, s.crn >> : s \in In.sections } \subseteq neo'.has_section
    BY <1>2, <1>3, <1>5 DEF In
  <2>2. { << s.code, s.crn >> : s \in In'.sections } \subseteq neo'.has_section
    BY <2>1
  <2>3. /\ neo'.departments = neo.departments /\ neo'.courses = neo.courses
        /\ "departments" \in PartNames /\ "course_nodes" \in PartNames
        /\ Number["departments"] = 4 /\ Number["course_nodes"] = 5
    BY <1>3 DEF PartNames, Number, Nodes, Edges
  <2>4. { c.dept : c \in In'.courses } \subseteq neo'.departments /\ In'.courses \subseteq neo'.courses
    BY <1>1, <2>1, <2>3 DEF LoadInv, ProgressInv
  <2> QED
    BY <1>1, <2>1, <2>2, <2>4 DEF LoadInv, ProgressInv, PartNames, Number
<1> QED
  BY <1>1, <1>7, <1>8, <1>9 DEF LoadInv

LEMMA AttributeEdgesStep ==
  ASSUME LoadInv, AttributeEdges
  PROVE  LoadInv'
<1>1. /\ RunInv' /\ ~At("wipe_neo4j")' /\ ~At("embed")'
      /\ \A q \in PartNames : Number[q] < 7 => Done(q)
      /\ \A q \in PartNames : Number[q] > 7 => ~Done(q)'
  BY LoadPart DEF AttributeEdges, Write, LoadParts, Number
<1>2. /\ UNCHANGED << source, pg, accounts, embedded, index, runs, loaded >>
      /\ neo' = [neo EXCEPT !.has_attribute =
                   @ \cup { a \in In.attributes : a.code \in Codes(neo.courses) }]
      /\ DOMAIN neo = Nodes \cup Edges /\ source \in Versions
  BY DEF AttributeEdges, Write, LoadInv, BoundsInv
<1>3. source \in loaded /\ In.courses \subseteq neo.courses
  BY <1>1 DEF LoadInv, ProgressInv, PartNames, Number
<1>4. { a \in In.attributes : a.code \in Codes(neo.courses) } = In.attributes
  BY <1>2, <1>3, IngestAssumption DEF In, Codes
<1>5. /\ DOMAIN neo' = Nodes \cup Edges
      /\ neo'.has_attribute = neo.has_attribute \cup In.attributes
      /\ \A t \in (Nodes \cup Edges) \ { "has_attribute" } : neo'[t] = neo[t]
  BY <1>2, <1>4 DEF Nodes, Edges
<1>6. In.attributes \subseteq Loaded("attributes")
  BY <1>3 DEF In, Loaded
<1>7. BoundsInv'
  BY <1>2, <1>5, <1>6 DEF LoadInv, BoundsInv, Loaded, Nodes, Edges
<1>8. CountedInv'
  BY <1>1, <1>2, <1>5 DEF LoadInv, CountedInv, Nodes, Edges
<1>9. ProgressInv'
  BY <1>1, <1>2, <1>5 DEF LoadInv, ProgressInv, PartNames, Number, In, Nodes, Edges
<1> QED
  BY <1>1, <1>7, <1>8, <1>9 DEF LoadInv

LEMMA PrerequisiteEdgesStep ==
  ASSUME LoadInv, PrerequisiteEdges
  PROVE  LoadInv'
<1>1. /\ RunInv' /\ ~At("wipe_neo4j")' /\ ~At("embed")'
      /\ \A q \in PartNames : Number[q] < 8 => Done(q)
      /\ \A q \in PartNames : Number[q] > 8 => ~Done(q)'
  BY LoadPart DEF PrerequisiteEdges, Write, LoadParts, Number
<1>2. /\ UNCHANGED << source, pg, accounts, embedded, index, runs, loaded >>
      /\ neo' = [neo EXCEPT !.has_prerequisite = Upsert(@, PrerequisiteEdgesOf(neo, In), ByEnds)]
      /\ DOMAIN neo = Nodes \cup Edges
  BY DEF PrerequisiteEdges, Write, LoadInv, BoundsInv
<1>3. /\ DOMAIN neo' = Nodes \cup Edges
      /\ neo'.has_prerequisite =
           Upsert(neo.has_prerequisite, PrerequisiteEdgesOf(neo, In), ByEnds)
      /\ \A t \in (Nodes \cup Edges) \ { "has_prerequisite" } : neo'[t] = neo[t]
  BY <1>2 DEF Nodes, Edges
<1>4. source \in loaded
  BY <1>1 DEF LoadInv, ProgressInv, PartNames, Number
<1>5. \A e \in PrerequisiteEdgesOf(neo, In) :
        e \in Loaded("prerequisites") /\ { e.from, e.to } \subseteq Codes(neo.courses)
  BY <1>4 DEF In, Loaded, PrerequisiteEdgesOf
<1>6. /\ PrerequisiteEdgesOf(neo, In) \subseteq neo'.has_prerequisite
      /\ neo'.has_prerequisite \subseteq neo.has_prerequisite \cup PrerequisiteEdgesOf(neo, In)
  BY <1>3, Upserted
<1>7. neo'.courses = neo.courses /\ In' = In
  BY <1>2, <1>3 DEF Nodes, Edges, In
<1>8. PrerequisiteEdgesOf(neo', In') = PrerequisiteEdgesOf(neo, In)
  BY <1>7 DEF PrerequisiteEdgesOf
<1>9. BoundsInv'
  BY <1>2, <1>3, <1>5, <1>6 DEF LoadInv, BoundsInv, Loaded, Nodes, Edges
<1>10. CountedInv'
  BY <1>1, <1>2, <1>3 DEF LoadInv, CountedInv, Nodes, Edges
<1>11. ProgressInv'
  BY <1>1, <1>2, <1>3, <1>6, <1>7, <1>8 DEF LoadInv, ProgressInv, PartNames, Number, Nodes, Edges
<1> QED
  BY <1>1, <1>9, <1>10, <1>11 DEF LoadInv

LEMMA WritePostgresRequirementsStep ==
  ASSUME LoadInv, WritePostgresRequirements
  PROVE  LoadInv'
<1>1. /\ RunInv' /\ ~At("wipe_neo4j")' /\ ~At("embed")'
      /\ \A q \in PartNames : Number[q] < 9 => Done(q)
      /\ \A q \in PartNames : Number[q] > 9 => ~Done(q)'
  BY LoadPart DEF WritePostgresRequirements, LoadParts, Number
<1>2. /\ DOMAIN pg' = Tables /\ UNCHANGED << source, accounts, neo, embedded, index, runs, loaded >>
      /\ pg'.programs = Upsert(pg.programs, In.programs, ByName)
      /\ pg'.requirements =
           { r \in pg.requirements : r.program \notin Names(In.programs) } \cup In.requirements
      /\ pg'.courses = pg.courses /\ pg'.sections = pg.sections /\ pg'.attributes = pg.attributes
  BY DEF WritePostgresRequirements, RequirementRows, Tables, LoadInv, BoundsInv
<1>3. source \in loaded
  BY <1>1 DEF LoadInv, ProgressInv, PartNames, Number
<1>4. \A t \in Tables : pg'[t] \subseteq pg[t] \cup In[t] /\ In[t] \subseteq Loaded(t)
  BY <1>2, <1>3, Upserted DEF Tables, In, Loaded
<1>5. BoundsInv'
  <2>1. pg' = [t \in Tables |-> pg'[t]]
    BY DEF WritePostgresRequirements, RequirementRows, LoadInv, BoundsInv
  <2> QED
    BY <1>2, <1>4, <2>1 DEF LoadInv, BoundsInv, Loaded
<1>6. CountedInv'
  BY <1>1, <1>2 DEF LoadInv, CountedInv
<1>7. In' = In /\ In.programs \subseteq pg'.programs /\ In.requirements \subseteq pg'.requirements
  BY <1>2, Upserted DEF In
<1>8. ProgressInv'
  BY <1>1, <1>2, <1>7 DEF LoadInv, ProgressInv, PartNames, Number, PrerequisiteEdgesOf
<1> QED
  BY <1>1, <1>5, <1>6, <1>8 DEF LoadInv

LEMMA ProgramNodesStep ==
  ASSUME LoadInv, ProgramNodes
  PROVE  LoadInv'
<1>1. /\ RunInv' /\ ~At("wipe_neo4j")' /\ ~At("embed")'
      /\ \A q \in PartNames : Number[q] < 10 => Done(q)
      /\ \A q \in PartNames : Number[q] > 10 => ~Done(q)'
  BY LoadPart DEF ProgramNodes, Write, LoadParts, Number
<1>2. /\ UNCHANGED << source, pg, accounts, embedded, index, runs, loaded >>
      /\ neo' = [neo EXCEPT !.programs = Upsert(@, In.programs, ByName)]
      /\ DOMAIN neo = Nodes \cup Edges
  BY DEF ProgramNodes, Write, LoadInv, BoundsInv
<1>3. /\ DOMAIN neo' = Nodes \cup Edges
      /\ neo'.programs = Upsert(neo.programs, In.programs, ByName)
      /\ \A t \in (Nodes \cup Edges) \ { "programs" } : neo'[t] = neo[t]
  BY <1>2 DEF Nodes, Edges
<1>4. source \in loaded
  BY <1>1 DEF LoadInv, ProgressInv, PartNames, Number
<1>5. neo'.programs \subseteq Loaded("programs") /\ In.programs \subseteq neo'.programs
  <2>1. In.programs \subseteq Loaded("programs")
    BY <1>4 DEF In, Loaded
  <2> QED
    BY <1>3, <2>1, Upserted DEF LoadInv, BoundsInv
<1>6. BoundsInv'
  BY <1>2, <1>3, <1>5 DEF LoadInv, BoundsInv, Loaded, Nodes, Edges
<1>7. CountedInv'
  BY <1>1, <1>2, <1>3 DEF LoadInv, CountedInv, Nodes, Edges
<1>8. In' = In /\ neo'.courses = neo.courses /\ neo'.has_prerequisite = neo.has_prerequisite
  BY <1>2, <1>3 DEF In, Nodes, Edges
<1>9. PrerequisiteEdgesOf(neo', In') = PrerequisiteEdgesOf(neo, In)
  BY <1>8 DEF PrerequisiteEdgesOf
<1>10. ProgressInv'
  BY <1>1, <1>2, <1>3, <1>5, <1>8, <1>9 DEF LoadInv, ProgressInv, PartNames, Number, Nodes, Edges
<1> QED
  BY <1>1, <1>6, <1>7, <1>10 DEF LoadInv

LEMMA RequirementNodesStep ==
  ASSUME LoadInv, RequirementNodes
  PROVE  LoadInv'
<1> DEFINE rows == { r \in In.requirements : r.program \in Names(neo.programs) }
<1>1. /\ RunInv' /\ ~At("wipe_neo4j")' /\ ~At("embed")'
      /\ \A q \in PartNames : Number[q] < 11 => Done(q)
      /\ \A q \in PartNames : Number[q] > 11 => ~Done(q)'
  BY LoadPart DEF RequirementNodes, Write, LoadParts, Number
<1>2. /\ UNCHANGED << source, pg, accounts, embedded, index, runs, loaded >>
      /\ neo' = [neo EXCEPT !.requirements = Upsert(@, rows, ByPosition)]
      /\ DOMAIN neo = Nodes \cup Edges /\ source \in Versions
  BY DEF RequirementNodes, Write, LoadInv, BoundsInv
<1>3. /\ DOMAIN neo' = Nodes \cup Edges
      /\ neo'.requirements = Upsert(neo.requirements, rows, ByPosition)
      /\ \A t \in (Nodes \cup Edges) \ { "requirements" } : neo'[t] = neo[t]
  BY <1>2 DEF Nodes, Edges
<1>4. source \in loaded /\ In.programs \subseteq neo.programs
  BY <1>1 DEF LoadInv, ProgressInv, PartNames, Number
<1>5. rows = In.requirements
  BY <1>2, <1>4, IngestAssumption DEF In, Names
<1>6. neo'.requirements \subseteq Loaded("requirements") /\ In.requirements \subseteq neo'.requirements
  <2>1. In.requirements \subseteq Loaded("requirements")
    BY <1>4 DEF In, Loaded
  <2> QED
    BY <1>3, <1>5, <2>1, Upserted DEF LoadInv, BoundsInv
<1> HIDE DEF rows
<1>7. BoundsInv'
  BY <1>2, <1>3, <1>6 DEF LoadInv, BoundsInv, Loaded, Nodes, Edges
<1>8. CountedInv'
  BY <1>1, <1>2, <1>3 DEF LoadInv, CountedInv, Nodes, Edges
<1>9. In' = In /\ neo'.courses = neo.courses /\ neo'.has_prerequisite = neo.has_prerequisite
  BY <1>2, <1>3 DEF In, Nodes, Edges
<1>10. PrerequisiteEdgesOf(neo', In') = PrerequisiteEdgesOf(neo, In)
  BY <1>9 DEF PrerequisiteEdgesOf
<1>11. ProgressInv'
  BY <1>1, <1>2, <1>3, <1>6, <1>9, <1>10 DEF LoadInv, ProgressInv, PartNames, Number, Nodes, Edges
<1> QED
  BY <1>1, <1>7, <1>8, <1>11 DEF LoadInv

LEMMA SatisfiedByStep ==
  ASSUME LoadInv, SatisfiedBy
  PROVE  LoadInv'
<1> DEFINE rows == { e \in In.satisfied_by : /\ << e.program, e.pos >> \in AtPosition(neo.requirements)
                                             /\ e.code \in Codes(neo.courses) }
           all == { e \in In.satisfied_by : e.code \in Codes(neo.courses) }
<1>1. /\ RunInv' /\ ~At("wipe_neo4j")' /\ ~At("embed")'
      /\ \A q \in PartNames : Number[q] < 12 => Done(q)
      /\ \A q \in PartNames : Number[q] > 12 => ~Done(q)'
  BY LoadPart DEF SatisfiedBy, Write, LoadParts, Number
<1>2. /\ UNCHANGED << source, pg, accounts, embedded, index, runs, loaded >>
      /\ neo' = [neo EXCEPT !.satisfied_by = @ \cup rows]
      /\ DOMAIN neo = Nodes \cup Edges /\ source \in Versions
  BY DEF SatisfiedBy, Write, LoadInv, BoundsInv
<1>3. /\ DOMAIN neo' = Nodes \cup Edges
      /\ neo'.satisfied_by = neo.satisfied_by \cup rows
      /\ \A t \in (Nodes \cup Edges) \ { "satisfied_by" } : neo'[t] = neo[t]
  BY <1>2 DEF Nodes, Edges
<1>4. source \in loaded /\ In.requirements \subseteq neo.requirements
  BY <1>1 DEF LoadInv, ProgressInv, PartNames, Number
<1>5. \A e \in In.satisfied_by : << e.program, e.pos >> \in AtPosition(neo.requirements)
  BY <1>2, <1>4, IngestAssumption DEF In, AtPosition
<1>6. rows = all /\ In' = In /\ neo'.courses = neo.courses
      /\ neo'.has_prerequisite = neo.has_prerequisite
  BY <1>2, <1>3, <1>5 DEF In, Nodes, Edges
<1>7. \A e \in rows : e \in Loaded("satisfied_by") /\ e.code \in Codes(neo.courses)
  BY <1>4 DEF In, Loaded
<1> HIDE DEF rows, all
<1>8. BoundsInv'
  BY <1>2, <1>3, <1>7 DEF LoadInv, BoundsInv, Loaded, Nodes, Edges
<1>9. CountedInv'
  BY <1>1, <1>2, <1>3 DEF LoadInv, CountedInv, Nodes, Edges
<1>10. { e \in In'.satisfied_by : e.code \in Codes(neo'.courses) } \subseteq neo'.satisfied_by
  BY <1>3, <1>6 DEF all
<1>11. PrerequisiteEdgesOf(neo', In') = PrerequisiteEdgesOf(neo, In)
  BY <1>6 DEF PrerequisiteEdgesOf
<1>12. ProgressInv'
  BY <1>1, <1>2, <1>3, <1>6, <1>10, <1>11 DEF LoadInv, ProgressInv, PartNames, Number, Nodes, Edges
<1> QED
  BY <1>1, <1>8, <1>9, <1>12 DEF LoadInv

LEMMA OrAlternativesStep ==
  ASSUME LoadInv, OrAlternatives
  PROVE  LoadInv'
<1> DEFINE rows == { e \in In.or_alternative :
                       { << e.program, e.pos >>, << e.program, e.pred >> }
                         \subseteq AtPosition(neo.requirements) }
<1>1. /\ RunInv' /\ ~At("wipe_neo4j")' /\ ~At("embed")'
      /\ \A q \in PartNames : Number[q] < 13 => Done(q)
      /\ \A q \in PartNames : Number[q] > 13 => ~Done(q)'
  BY LoadPart DEF OrAlternatives, Write, LoadParts, Number
<1>2. /\ UNCHANGED << source, pg, accounts, embedded, index, runs, loaded >>
      /\ neo' = [neo EXCEPT !.or_alternative = @ \cup rows]
      /\ DOMAIN neo = Nodes \cup Edges /\ source \in Versions
  BY DEF OrAlternatives, Write, LoadInv, BoundsInv
<1>3. /\ DOMAIN neo' = Nodes \cup Edges
      /\ neo'.or_alternative = neo.or_alternative \cup rows
      /\ \A t \in (Nodes \cup Edges) \ { "or_alternative" } : neo'[t] = neo[t]
  BY <1>2 DEF Nodes, Edges
<1>4. source \in loaded /\ In.requirements \subseteq neo.requirements
  BY <1>1 DEF LoadInv, ProgressInv, PartNames, Number
<1>5. \A e \in In.or_alternative : /\ << e.program, e.pos >> \in AtPosition(neo.requirements)
                                   /\ << e.program, e.pred >> \in AtPosition(neo.requirements)
  BY <1>2, <1>4, IngestAssumption DEF In, AtPosition
<1>6. rows = In.or_alternative
  BY <1>5
<1> HIDE DEF rows
<1>7. In' = In /\ neo'.courses = neo.courses /\ neo'.has_prerequisite = neo.has_prerequisite
      /\ neo'.satisfied_by = neo.satisfied_by
  BY <1>2, <1>3 DEF In, Nodes, Edges
<1>8. rows \subseteq Loaded("or_alternative")
  BY <1>4, <1>6 DEF In, Loaded
<1>9. BoundsInv'
  BY <1>2, <1>3, <1>8 DEF LoadInv, BoundsInv, Loaded, Nodes, Edges
<1>10. CountedInv'
  BY <1>1, <1>2, <1>3 DEF LoadInv, CountedInv, Nodes, Edges
<1>11. PrerequisiteEdgesOf(neo', In') = PrerequisiteEdgesOf(neo, In)
  BY <1>7 DEF PrerequisiteEdgesOf
<1>12. ProgressInv'
  BY <1>1, <1>2, <1>3, <1>6, <1>7, <1>11 DEF LoadInv, ProgressInv, PartNames, Number, Nodes, Edges
<1> QED
  BY <1>1, <1>9, <1>10, <1>12 DEF LoadInv

-----------------------------------------------------------------------------
(* The embeddings *)

LEMMA VectorIndexStep ==
  ASSUME LoadInv, VectorIndex
  PROVE  LoadInv'
<1>1. /\ At("vector_index") /\ "vector_index" \in PartNames /\ Number["vector_index"] = 14 /\ Like(run)
      /\ UNCHANGED << source, pg, accounts, neo, embedded, runs, loaded >> /\ index' = TRUE
  BY DEF VectorIndex, PartNames, Number, Like, LoadInv, RunInv
<1>2. /\ RunInv' /\ \A q \in PartNames : Done(q)' => Number[q] <= 14
      /\ \A q \in PartNames : Number[q] < 14 /\ Done(q)' => Done(q)
      /\ \A q \in PartNames : At(q)' => Number[q] = 15
  BY <1>1, Advance DEF VectorIndex, LoadInv
<1>3. ~At("wipe_neo4j")' /\ ~At("embed")'
  BY <1>2 DEF PartNames, Number
<1>4. BoundsInv'
  BY <1>1 DEF LoadInv, BoundsInv, Loaded
<1>5. CountedInv'
  BY <1>1, <1>3 DEF LoadInv, CountedInv
<1>6. ~Done("validate_counts")' /\ ~Done("validate_extras")'
  BY <1>2 DEF PartNames, Number
<1>7. \A p \in { "write_postgres_courses", "departments", "course_nodes", "section_nodes",
                 "attribute_edges", "prerequisite_edges", "write_postgres_requirements",
                 "program_nodes", "requirement_nodes", "satisfied_by", "or_alternatives" } :
        Done(p)' => Done(p)
  BY <1>2 DEF PartNames, Number
<1>8. In' = In
  BY <1>1 DEF In
<1>9. ProgressInv'
  BY <1>1, <1>3, <1>6, <1>7, <1>8 DEF LoadInv, ProgressInv, PrerequisiteEdgesOf
<1> QED
  BY <1>2, <1>4, <1>5, <1>9 DEF LoadInv

(* With nothing to embed the step is over.                                    *)
LEMMA SelectMissingStep ==
  ASSUME LoadInv, SelectMissing
  PROVE  LoadInv'
<1> DEFINE todo == Missing(neo, embedded)
<1>1. /\ At("missing") /\ "missing" \in PartNames /\ Number["missing"] = 15 /\ Like(run)
      /\ UNCHANGED << source, stores, runs, loaded >>
  BY DEF SelectMissing, PartNames, Number, Like, LoadInv, RunInv
<1>2. /\ run.status = "running" /\ Where = 15 /\ Step \in StepNames /\ run.part \in 1..Size[Step]
  BY <1>1, Here DEF LoadInv, RunInv
<1>3. Codes(todo) \subseteq Codes(neo.courses)
  BY DEF Missing, Codes
<1>4. /\ "validate_counts" \in PartNames /\ Number["validate_counts"] = 17
      /\ "validate_extras" \in PartNames /\ Number["validate_extras"] = 19
      /\ "wipe_neo4j" \in PartNames /\ Number["wipe_neo4j"] = 2
      /\ "embed" \in PartNames /\ Number["embed"] = 16
  BY DEF PartNames, Number
<1>5. CASE run' = NextStep(run)
  <2>1. Step = "embeddings"
    BY <1>2 DEF Where, StepNames, Before, Size
  <2>2. Before[Step] + Size[Step] = 16
    BY <2>1 DEF Before, Size
  <2>3. /\ RunInv' /\ run'.mode = run.mode
        /\ run'.status = "running" => Where' = 17
        /\ run.mode \in LoadModes => run'.status # "succeeded"
    BY <1>1, <1>2, <1>5, <2>1, <2>2, StepMoves DEF LoadInv
  <2>4. ASSUME NEW p \in PartNames, Done(p)' PROVE Number[p] < 17 /\ (Number[p] <= 14 => Done(p))
    BY <1>2, <2>3, <2>4, Numbers DEF Done
  <2>5. ~At("wipe_neo4j")' /\ ~At("embed")'
    BY <1>4, <2>3, HereNext
  <2> QED
    BY <1>1, <1>4, <2>3, <2>4, <2>5, Steady DEF stores, LoadInv, BoundsInv
<1>6. CASE run' = NextPart([run EXCEPT !.todo = todo, !.total = Cardinality(todo), !.missed = 0])
  <2>1. PICK r : r = [run EXCEPT !.todo = todo, !.total = Cardinality(todo), !.missed = 0]
    OBVIOUS
  <2>2. Like(r) /\ r.todo = todo /\ run' = NextPart(r)
    BY <1>6, <2>1 DEF Like, LoadInv, RunInv, RunFields
  <2>3. /\ RunInv' /\ \A q \in PartNames : Done(q)' => Number[q] <= 15
        /\ \A q \in PartNames : Number[q] < 15 /\ Done(q)' => Done(q)
        /\ \A q \in PartNames : At(q)' => Number[q] = 16
    BY <1>1, <2>2, Advance DEF LoadInv
  <2>4. run'.todo = todo
    <3>1. r.part # Len(Parts[Head(r.steps)])
      <4>1. Step = "embeddings" /\ run.part = 2 /\ Head(r.steps) = Step
        BY <1>2, <2>2 DEF Where, StepNames, Before, Size, Like, Step
      <4> QED
        BY <2>2, <4>1 DEF Parts, Like
    <3>2. run' = [r EXCEPT !.part = @ + 1, !.attempt = IF Head(r.steps) = "wipe" THEN 1 ELSE @]
      BY <2>2, <3>1 DEF NextPart
    <3> QED
      BY <2>2, <3>2 DEF Like, RunFields
  <2>5. ASSUME NEW p \in PartNames, Number[p] <= 14, Done(p)' PROVE Done(p)
    BY <2>3, <2>5, Numbers
  <2>6. ~At("wipe_neo4j")' /\ ~Done("validate_counts")' /\ ~Done("validate_extras")'
    BY <1>4, <2>3
  <2>7. At("embed")' => Codes(run'.todo) \subseteq Codes(neo.courses)
    BY <1>3, <2>4
  <2> HIDE DEF todo
  <2> QED
    BY <1>1, <2>3, <2>5, <2>6, <2>7, Steady DEF stores, LoadInv, BoundsInv
<1> QED
  BY <1>5, <1>6 DEF SelectMissing

(* A course of the step's list is taken off it: nothing else of the run moves. *)
LEMMA TakeOff ==
  ASSUME LoadInv, NEW e \in run.todo, At("embed"),
         run' = [run EXCEPT !.todo = @ \ {e}] \/ run' = [run EXCEPT !.todo = @ \ {e}, !.missed = @ + 1]
  PROVE  /\ RunInv' /\ Codes(run'.todo) \subseteq Codes(neo.courses) /\ e.code \in Codes(neo.courses)
         /\ \A p : (At(p)' <=> At(p)) /\ (Done(p)' <=> Done(p))
         /\ ~At("wipe_neo4j") /\ ~Done("validate_counts") /\ ~Done("validate_extras")
<1>1. /\ DOMAIN run' = RunFields /\ run'.mode = run.mode /\ run'.confirmed = run.confirmed
      /\ run'.status = run.status /\ run'.steps = run.steps /\ run'.part = run.part
      /\ run'.attempt = run.attempt /\ run'.todo = run.todo \ {e}
  BY DEF LoadInv, RunInv, RunFields
<1>2. RunInv'
  BY <1>1 DEF LoadInv, RunInv, Step
<1>3. \A p : (At(p)' <=> At(p)) /\ (Done(p)' <=> Done(p))
  BY <1>1 DEF At, Done, Step, Where
<1>4. Codes(run'.todo) \subseteq Codes(neo.courses) /\ e.code \in Codes(neo.courses)
  BY <1>1 DEF LoadInv, CountedInv, Codes
<1>5. /\ "validate_counts" \in PartNames /\ Number["validate_counts"] = 17
      /\ "validate_extras" \in PartNames /\ Number["validate_extras"] = 19
      /\ "wipe_neo4j" \in PartNames /\ Number["wipe_neo4j"] = 2
      /\ "embed" \in PartNames /\ Number["embed"] = 16
  BY DEF PartNames, Number
<1>6. run.status = "running" /\ Where = 16
  BY <1>5, Here DEF LoadInv
<1>7. ~At("wipe_neo4j") /\ ~Done("validate_counts") /\ ~Done("validate_extras")
  BY <1>5, <1>6, Here DEF LoadInv, Done
<1> QED
  BY <1>2, <1>3, <1>4, <1>7

LEMMA EmbedStep ==
  ASSUME LoadInv, NEW e \in run.todo, Embed(e)
  PROVE  LoadInv'
<1>1. /\ At("embed") /\ embedded' = Upsert(embedded, {e}, ByCode)
      /\ run' = [run EXCEPT !.todo = @ \ {e}]
      /\ UNCHANGED << source, pg, accounts, neo, index, runs, loaded >>
  BY DEF Embed
<1>2. /\ RunInv' /\ Codes(run'.todo) \subseteq Codes(neo.courses) /\ e.code \in Codes(neo.courses)
      /\ \A p : (At(p)' <=> At(p)) /\ (Done(p)' <=> Done(p))
      /\ ~At("wipe_neo4j") /\ ~Done("validate_counts") /\ ~Done("validate_extras")
  BY <1>1, TakeOff
<1>3. BoundsInv'
  BY <1>1 DEF LoadInv, BoundsInv, Loaded
<1>4. CountedInv'
  <2>1. Codes(embedded') \subseteq Codes(neo.courses)
    <3>1. Codes(embedded') = Codes(embedded) \cup Codes({e})
      BY <1>1, CodesUpserted
    <3> QED
      BY <1>2, <3>1 DEF LoadInv, CountedInv, Codes
  <2>2. \A f, g \in embedded' : f.code = g.code => f = g
    BY <1>1 DEF LoadInv, CountedInv, Upsert, ByCode
  <2>3. IsFiniteSet(embedded')
    BY <1>1, FS_Singleton, UpsertFinite DEF LoadInv, CountedInv
  <2> QED
    BY <1>1, <1>2, <2>1, <2>2, <2>3 DEF LoadInv, CountedInv
<1>5. In' = In
  BY <1>1 DEF In
<1>6. ProgressInv'
  BY <1>1, <1>2, <1>5 DEF LoadInv, ProgressInv, PrerequisiteEdgesOf
<1> QED
  BY <1>2, <1>3, <1>4, <1>6 DEF LoadInv

LEMMA EmbedFailsStep ==
  ASSUME LoadInv, NEW e \in run.todo, EmbedFails(e)
  PROVE  LoadInv'
<1>1. /\ At("embed") /\ run' = [run EXCEPT !.todo = @ \ {e}, !.missed = @ + 1]
      /\ UNCHANGED << source, stores, runs, loaded >>
  BY DEF EmbedFails
<1>2. /\ RunInv' /\ Codes(run'.todo) \subseteq Codes(neo.courses)
      /\ \A p : (At(p)' <=> At(p)) /\ (Done(p)' <=> Done(p))
  BY <1>1, TakeOff
<1> QED
  BY <1>1, <1>2, Steady DEF stores, LoadInv, BoundsInv

LEMMA EmbeddingsDoneStep ==
  ASSUME LoadInv, EmbeddingsDone
  PROVE  LoadInv'
<1>1. /\ At("embed") /\ run.status = "running" /\ UNCHANGED << source, stores, runs, loaded >>
  BY DEF EmbeddingsDone, At
<1>2. CASE run' = Raises(run)
  BY <1>1, <1>2, RaisesStep
<1>3. CASE run' = NextPart(run)
  <2>1. /\ "embed" \in PartNames /\ Number["embed"] = 16 /\ Like(run)
    BY DEF PartNames, Number, Like, LoadInv, RunInv
  <2>2. /\ RunInv' /\ \A q \in PartNames : Done(q)' => Number[q] <= 16
        /\ \A q \in PartNames : Number[q] < 16 /\ Done(q)' => Done(q)
        /\ \A q \in PartNames : At(q)' => Number[q] = 17
    BY <1>1, <1>3, <2>1, Advance DEF LoadInv
  <2>3. ASSUME NEW p \in PartNames, Number[p] <= 14, Done(p)' PROVE Done(p)
    BY <2>2, <2>3, Numbers
  <2>4. ~At("wipe_neo4j")' /\ ~At("embed")' /\ ~Done("validate_counts")' /\ ~Done("validate_extras")'
    BY <2>2 DEF PartNames, Number
  <2> QED
    BY <1>1, <2>2, <2>3, <2>4, Steady DEF stores, LoadInv, BoundsInv
<1> QED
  BY <1>2, <1>3 DEF EmbeddingsDone

-----------------------------------------------------------------------------
(* Every step *)

LEMMA InitLoad == Init => LoadInv
<1> SUFFICES ASSUME Init PROVE LoadInv
  OBVIOUS
<1>1. /\ source = 1 /\ accounts = {} /\ embedded = {} /\ index = FALSE /\ runs = 0 /\ loaded = {}
      /\ DOMAIN pg = Tables /\ \A t \in Tables : pg[t] = {}
      /\ pg = [t \in Tables |-> pg[t]]
      /\ DOMAIN neo = Nodes \cup Edges /\ \A t \in Nodes \cup Edges : neo[t] = {}
      /\ DOMAIN run = RunFields /\ run.status = "none"
  BY DEF Init, Idle, RunFields
<1>2. RunInv
  BY <1>1 DEF RunInv
<1>3. /\ source \in Versions /\ 0 \in 0..MaxRuns
      /\ neo.courses = {} /\ neo.programs = {} /\ neo.requirements = {} /\ neo.departments = {}
      /\ neo.has_section = {} /\ neo.has_attribute = {} /\ neo.or_alternative = {}
      /\ neo.has_prerequisite = {} /\ neo.satisfied_by = {}
  BY <1>1, IngestAssumption DEF Nodes, Edges
<1>4. BoundsInv
  BY <1>1, <1>3 DEF BoundsInv
<1>5. \A p : ~At(p) /\ ~Done(p)
  BY <1>1 DEF At, Done
<1>6. CountedInv
  BY <1>1, <1>5, FS_EmptySet DEF CountedInv, Nodes, Tables, Codes
<1>7. ProgressInv
  BY <1>5 DEF ProgressInv
<1> QED
  BY <1>2, <1>4, <1>6, <1>7 DEF LoadInv

LEMMA StutterLoad ==
  ASSUME LoadInv, UNCHANGED vars
  PROVE  LoadInv'
<1>1. RunInv'
  BY DEF vars, stores, LoadInv, RunInv, Step
<1>2. \A p : (At(p)' <=> At(p)) /\ (Done(p)' <=> Done(p))
  BY DEF vars, At, Done, Step, Where
<1> QED
  BY <1>1, <1>2, Steady DEF vars, stores, LoadInv, BoundsInv, CountedInv

LEMMA NextLoad == LoadInv /\ [Next]_vars => LoadInv'
<1> SUFFICES ASSUME LoadInv, [Next]_vars PROVE LoadInv'
  OBVIOUS
<1>1. CASE UNCHANGED vars
  BY <1>1, StutterLoad
<1>2. ASSUME NEW mode \in Modes, NEW confirmed \in BOOLEAN, NEW dry_run \in BOOLEAN,
             Start(mode, confirmed, dry_run)
      PROVE  LoadInv'
  BY <1>2, StartStep
<1>3. CASE NewSource
  BY <1>3, NewSourceStep
<1>4. ASSUME NEW u \in Users, Register(u) PROVE LoadInv'
  BY <1>4, RegisterStep
<1>5. CASE Wipe
  BY <1>5, WipePostgresStep, WipeNeo4jStep, KilledStep DEF Wipe
<1>6. CASE IngestCourses
  BY <1>6, WritePostgresCoursesStep, DepartmentsStep, CourseNodesStep, SectionNodesStep,
     AttributeEdgesStep DEF IngestCourses
<1>7. CASE PrerequisiteEdges
  BY <1>7, PrerequisiteEdgesStep
<1>8. CASE IngestRequirements
  BY <1>8, WritePostgresRequirementsStep, ProgramNodesStep, RequirementNodesStep, SatisfiedByStep,
     OrAlternativesStep DEF IngestRequirements
<1>9. CASE BuildEmbeddings
  BY <1>9, VectorIndexStep, SelectMissingStep, EmbedStep, EmbedFailsStep, EmbeddingsDoneStep
     DEF BuildEmbeddings
<1>10. CASE Validate
  BY <1>10, ValidateStep
<1>11. CASE StepRaises
  BY <1>11, RaisesStep DEF StepRaises
<1>12. CASE Killed
  BY <1>12, KilledStep
<1> QED
  BY <1>1, <1>2, <1>3, <1>4, <1>5, <1>6, <1>7, <1>8, <1>9, <1>10, <1>11, <1>12 DEF Next, Pipeline

(* The stores hold what loaded sources said and no more, and what the parts    *)
(* that a run has done write is there, at every step of the ingestion job.     *)
THEOREM LoadInvariant == Spec => []LoadInv
<1>1. Init => LoadInv
  BY InitLoad
<1>2. LoadInv /\ [Next]_vars => LoadInv'
  BY NextLoad
<1> QED
  BY <1>1, <1>2, PTL DEF Spec

(* Type correctness: the tables hold rows of the sources, each attempt is     *)
(* within with_retry's bound, and a vector belongs to a course of the graph.  *)
THEOREM TypeCorrect == Spec => []TypeOK
<1>1. LoadInv => TypeOK
  <2> SUFFICES ASSUME LoadInv PROVE TypeOK
    OBVIOUS
  <2>1. \A t : Loaded(t) \subseteq Of(t)
    BY DEF LoadInv, BoundsInv, Loaded, Of
  <2>2. \A t \in Tables : pg[t] \subseteq Of(t) /\ DOMAIN pg = Tables
    BY <2>1 DEF LoadInv, BoundsInv
  <2>3. pg \in [Tables -> SUBSET UNION { Of(t) : t \in Tables }]
    <3>1. \A t \in Tables : pg[t] \in SUBSET UNION { Of(u) : u \in Tables }
      BY <2>2
    <3>2. pg = [t \in Tables |-> pg[t]]
      BY DEF LoadInv, BoundsInv
    <3> QED
      BY <3>1, <3>2
  <2>4. run.status = "running" => /\ run.attempt \in 1..MaxAttempts
                                  /\ run.part \in 1..Len(Parts[Step])
    BY SizeFacts DEF LoadInv, RunInv
  <2>5. \A t \in { "courses", "programs", "requirements" } : neo[t] \subseteq Of(t)
    BY <2>1 DEF LoadInv, BoundsInv
  <2>6. neo.has_prerequisite \subseteq Of("prerequisites")
    BY <2>1 DEF LoadInv, BoundsInv
  <2> QED
    BY <2>2, <2>3, <2>4, <2>5, <2>6 DEF TypeOK, LoadInv, BoundsInv, CountedInv, RunInv
<1> QED
  BY <1>1, LoadInvariant, PTL

-----------------------------------------------------------------------------
(* A load that succeeded *)

(* Every part of it is done.                                                  *)
LEMMA AllDone ==
  ASSUME LoadInv, LoadSucceeded
  PROVE  /\ \A t \in Tables : In[t] \subseteq pg[t]
         /\ \A t \in { "courses", "programs", "requirements" } : In[t] \subseteq neo[t]
         /\ { c.dept : c \in In.courses } \subseteq neo.departments
         /\ { << s.code, s.crn >> : s \in In.sections } \subseteq neo.has_section
         /\ In.attributes \subseteq neo.has_attribute
         /\ PrerequisiteEdgesOf(neo, In) \subseteq neo.has_prerequisite
         /\ { e \in In.satisfied_by : e.code \in Codes(neo.courses) } \subseteq neo.satisfied_by
         /\ In.or_alternative \subseteq neo.or_alternative
         /\ index = TRUE /\ CountsHold /\ ExtrasHold
<1>1. \A part : Done(part)
  BY DEF Done, LoadSucceeded
<1> QED
  BY <1>1 DEF LoadInv, ProgressInv, Tables

LEMMA SameSize ==
  ASSUME NEW S, NEW T, IsFiniteSet(T), S \subseteq T, Cardinality(S) = Cardinality(T)
  PROVE  S = T
BY FS_Subset

(* A course may stand under one code twice in a set, so it has at most as many *)
(* codes as members.                                                          *)
LEMMA CodesCount ==
  ASSUME NEW courses, IsFiniteSet(courses)
  PROVE  /\ IsFiniteSet(Codes(courses)) /\ Cardinality(Codes(courses)) \in Nat
         /\ Cardinality(Codes(courses)) <= Cardinality(courses)
         /\ (\A c, d \in courses : c.code = d.code => c = d) =>
              Cardinality(Codes(courses)) = Cardinality(courses)
<1> DEFINE f == [c \in courses |-> c.code]
<1>1. f \in Surjection(courses, Codes(courses))
  BY DEF Surjection, Codes
<1>2. ASSUME \A c, d \in courses : c.code = d.code => c = d
      PROVE  f \in Injection(courses, Codes(courses))
  BY <1>1, <1>2 DEF Injection, IsInjective, Codes
<1> HIDE DEF f
<1> QED
  BY <1>1, <1>2, FS_Surjection, FS_CardinalityType

(* The validators count the courses in the source and in both stores, and the *)
(* vectors: with as many of each, they are the same ones.                     *)
LEMMA SameCourses ==
  ASSUME LoadInv, LoadSucceeded
  PROVE  /\ pg.courses = In.courses /\ neo.courses = In.courses
         /\ Codes(embedded) = Codes(neo.courses)
<1>1. /\ In.courses \subseteq pg.courses /\ In.courses \subseteq neo.courses
      /\ CountsHold /\ ExtrasHold
  BY AllDone DEF Tables
<1>2. /\ IsFiniteSet(pg.courses) /\ IsFiniteSet(neo.courses) /\ IsFiniteSet(embedded)
      /\ \A e, f \in embedded : e.code = f.code => e = f
      /\ Codes(embedded) \subseteq Codes(neo.courses)
  BY DEF LoadInv, CountedInv
<1>3. pg.courses = In.courses /\ neo.courses = In.courses
  BY <1>1, <1>2, SameSize DEF CountsHold
<1>4. Codes(embedded) = Codes(neo.courses)
  <2>1. Cardinality(embedded) = Cardinality(neo.courses)
    BY <1>1 DEF CountsHold, ExtrasHold
  <2>2. Cardinality(Codes(embedded)) = Cardinality(embedded)
    BY <1>2, CodesCount
  <2>3. /\ IsFiniteSet(Codes(neo.courses)) /\ Cardinality(Codes(neo.courses)) \in Nat
        /\ Cardinality(Codes(neo.courses)) <= Cardinality(neo.courses)
    BY <1>2, CodesCount
  <2>4. /\ Cardinality(Codes(embedded)) <= Cardinality(Codes(neo.courses))
        /\ Cardinality(Codes(embedded)) \in Nat
    BY <1>2, <2>3, CodesCount, FS_Subset
  <2>5. Cardinality(Codes(embedded)) = Cardinality(Codes(neo.courses))
    BY <2>1, <2>2, <2>3, <2>4
  <2> QED
    BY <1>2, <2>3, <2>5, SameSize
<1> QED
  BY <1>3, <1>4

(* For any sources, and whatever runs were interrupted, repeated or mixed      *)
(* before: a load that succeeds leaves what the source says now in both       *)
(* stores, the same courses in each, and a vector for every one of them.      *)
THEOREM SuccessCurrent == Spec => []SuccessIsCurrent
<1>1. LoadInv => SuccessIsCurrent
  BY AllDone, SameCourses DEF SuccessIsCurrent
<1> QED
  BY <1>1, LoadInvariant, PTL

(* And if only that source was loaded since the stores were empty, it leaves   *)
(* exactly what one undisturbed load leaves.                                  *)
THEOREM SuccessExact == Spec => []SuccessIsExact
<1>1. LoadInv => SuccessIsExact
  <2> SUFFICES ASSUME LoadInv, LoadSucceeded, loaded = {source} PROVE Exact
    BY DEF SuccessIsExact
  <2>1. \A t : Loaded(t) = In[t]
    BY DEF Loaded, In
  <2>2. /\ neo.courses = In.courses /\ Codes(embedded) = Codes(In.courses)
    BY SameCourses
  <2>3. /\ \A t \in Tables : pg[t] = In[t]
        /\ \A t \in { "courses", "programs", "requirements" } : neo[t] = In[t]
        /\ neo.has_attribute = In.attributes
        /\ neo.or_alternative = In.or_alternative
    BY <2>1, AllDone DEF LoadInv, BoundsInv
  <2>4. neo.departments = { c.dept : c \in In.courses }
    <3>1. { c.dept : c \in Loaded("courses") } = { c.dept : c \in In.courses }
      BY <2>1
    <3> QED
      BY <3>1, AllDone DEF LoadInv, BoundsInv
  <2>5. neo.has_section = { << s.code, s.crn >> : s \in In.sections }
    <3>1. { << s.code, s.crn >> : s \in Loaded("sections") } = { << s.code, s.crn >> : s \in In.sections }
      BY <2>1
    <3> QED
      BY <3>1, AllDone DEF LoadInv, BoundsInv
  <2>6. neo.has_prerequisite = PrerequisiteEdgesOf(neo, In)
    <3>1. \A e \in neo.has_prerequisite :
            e \in In.prerequisites /\ { e.from, e.to } \subseteq Codes(neo.courses)
      BY <2>1 DEF LoadInv, BoundsInv
    <3>2. neo.has_prerequisite \subseteq PrerequisiteEdgesOf(neo, In)
      BY <3>1 DEF PrerequisiteEdgesOf
    <3> QED
      BY <3>2, AllDone
  <2>7. neo.satisfied_by = { e \in In.satisfied_by : e.code \in Codes(In.courses) }
    <3>1. \A e \in neo.satisfied_by : e \in In.satisfied_by /\ e.code \in Codes(In.courses)
      BY <2>1, <2>2 DEF LoadInv, BoundsInv
    <3>2. { e \in In.satisfied_by : e.code \in Codes(In.courses) } \subseteq neo.satisfied_by
      BY <2>2, AllDone
    <3> QED
      BY <3>1, <3>2
  <2> QED
    BY <2>2, <2>3, <2>4, <2>5, <2>6, <2>7, AllDone DEF Exact
<1> QED
  BY <1>1, LoadInvariant, PTL

-----------------------------------------------------------------------------
(* What a step may lose *)

(* The wipe's parts come first in a full run only, and it was confirmed.      *)
LEMMA WipeConfirmed ==
  ASSUME LoadInv, At("wipe_postgres") \/ At("wipe_neo4j")
  PROVE  run.mode = "full" /\ run.confirmed
<1>1. /\ "wipe_postgres" \in PartNames /\ Number["wipe_postgres"] = 1
      /\ "wipe_neo4j" \in PartNames /\ Number["wipe_neo4j"] = 2
  BY DEF PartNames, Number
<1>2. run.status = "running" /\ Where \in 1..2
  BY <1>1, Here DEF LoadInv
<1>3. Step \in StepNames /\ run.part \in 1..Size[Step]
  BY <1>2 DEF LoadInv, RunInv
<1>4. Step = "wipe"
  BY <1>2, <1>3 DEF Where, StepNames, Before, Size
<1>5. run.mode = "full" /\ run.confirmed = TRUE
  BY <1>2, <1>4 DEF LoadInv, RunInv
<1> QED
  BY <1>5, Zenon

(* For any sources, runs, retries and kills no step takes a course, a program, *)
(* a vector or an account away, or the requirements of a program that the      *)
(* source has some for, unless a full run was confirmed (_wipe, write_postgres *)
(* and the loaders' upserts).                                                  *)
THEOREM NothingLost == Spec => NothingLostUnconfirmed
<1> DEFINE Kept == /\ Codes(pg.courses) \subseteq Codes(pg'.courses)
                   /\ Names(pg.programs) \subseteq Names(pg'.programs)
                   /\ Required(pg.requirements) \ (Names(In.programs) \ Required(In.requirements))
                        \subseteq Required(pg'.requirements)
                   /\ accounts \subseteq accounts'
                   /\ Codes(embedded) \subseteq Codes(embedded')
<1>1. ASSUME LoadInv, Next PROVE Kept \/ (run.mode = "full" /\ run.confirmed)
  <2>1. CASE UNCHANGED << pg, embedded >> /\ accounts \subseteq accounts'
    BY <2>1
  <2>2. CASE WipePostgres \/ WipeNeo4j
    BY <1>1, <2>2, WipeConfirmed DEF WipePostgres, WipeNeo4j
  <2>3. CASE WritePostgresCourses
    <3>1. /\ pg'.courses = Upsert(pg.courses, In.courses, ByCode)
          /\ pg'.programs = pg.programs /\ pg'.requirements = pg.requirements
          /\ accounts' = accounts /\ embedded' = embedded
      BY <1>1, <2>3 DEF WritePostgresCourses, CourseRows, Tables, LoadInv, BoundsInv
    <3> QED
      BY <3>1, CodesUpserted
  <2>4. CASE WritePostgresRequirements
    <3>1. /\ pg'.programs = Upsert(pg.programs, In.programs, ByName)
          /\ pg'.requirements =
               { r \in pg.requirements : r.program \notin Names(In.programs) } \cup In.requirements
          /\ pg'.courses = pg.courses /\ accounts' = accounts /\ embedded' = embedded
      BY <1>1, <2>4 DEF WritePostgresRequirements, RequirementRows, Tables, LoadInv, BoundsInv
    <3>2. Required(pg.requirements) \ (Names(In.programs) \ Required(In.requirements))
            \subseteq Required(pg'.requirements)
      BY <3>1 DEF Required
    <3> QED
      BY <3>1, <3>2, NamesUpserted
  <2>5. ASSUME NEW e \in run.todo, Embed(e) PROVE Kept
    BY <2>5, CodesUpserted DEF Embed
  <2>6. ASSUME NEW mode, NEW confirmed, NEW dry_run, Start(mode, confirmed, dry_run) PROVE Kept
    BY <2>1, <2>6 DEF Start, stores
  <2>7. ASSUME NEW u, Register(u) PROVE Kept
    BY <2>1, <2>7 DEF Register
  <2>8. CASE NewSource \/ WipeAborts \/ StepRaises \/ Killed
    BY <2>1, <2>8 DEF NewSource, WipeAborts, StepRaises, Killed, stores
  <2>9. ASSUME NEW part, NEW graph, Write(part, graph) PROVE Kept
    BY <2>1, <2>9 DEF Write
  <2>10. CASE Departments \/ CourseNodes \/ SectionNodes \/ AttributeEdges
    BY <2>9, <2>10 DEF Departments, CourseNodes, SectionNodes, AttributeEdges
  <2>11. CASE PrerequisiteEdges
    BY <2>9, <2>11 DEF PrerequisiteEdges
  <2>12. CASE ProgramNodes \/ RequirementNodes \/ SatisfiedBy \/ OrAlternatives
    BY <2>9, <2>12 DEF ProgramNodes, RequirementNodes, SatisfiedBy, OrAlternatives
  <2>13. CASE VectorIndex \/ SelectMissing \/ EmbeddingsDone \/ \E e \in run.todo : EmbedFails(e)
    BY <2>1, <2>13 DEF VectorIndex, SelectMissing, EmbeddingsDone, EmbedFails, stores
  <2>14. CASE Validate
    BY <2>1, <2>14 DEF Validate, ValidateCounts, ValidateRequirements, ValidateExtras, Check, stores
  <2> HIDE DEF Kept
  <2> QED
    BY <1>1, <2>2, <2>3, <2>4, <2>5, <2>6, <2>7, <2>8, <2>10, <2>11, <2>12, <2>13, <2>14
       DEF Next, Pipeline, Wipe, IngestCourses, IngestRequirements, BuildEmbeddings
<1>2. LoadInv /\ [Next]_vars => [Kept \/ (run.mode = "full" /\ run.confirmed)]_vars
  BY <1>1
<1> QED
  BY <1>2, LoadInvariant, PTL DEF Spec, NothingLostUnconfirmed

-----------------------------------------------------------------------------
(* How a run comes to its end *)

(* r is nearer to the end of its run than s: it has fewer steps left, or within the *)
(* same step more attempts are used up, or more parts done, or fewer courses left   *)
(* to embed.  The wipe's parts count their attempts anew.                           *)
Later(r, s) ==
  \/ r.status # "running"
  \/ Len(r.steps) < Len(s.steps)
  \/ /\ r.steps = s.steps /\ Head(s.steps) = "wipe"
     /\ r.part > s.part \/ (r.part = s.part /\ r.attempt > s.attempt)
  \/ /\ r.steps = s.steps /\ Head(s.steps) # "wipe"
     /\ \/ r.attempt > s.attempt
        \/ r.attempt = s.attempt /\ r.part > s.part
        \/ /\ r.attempt = s.attempt /\ r.part = s.part
           /\ IsFiniteSet(s.todo) /\ r.todo \subseteq s.todo /\ r.todo # s.todo

(* Whatever fails and however often, each move of a run takes it on: a repetition   *)
(* is paid for with an attempt, and a course that cannot be embedded is left out    *)
(* (with_retry, build_all_embeddings).                                              *)
RunAdvances == [][run.status = "running" => Later(run', run)]_run

(* What has to be embedded is finite all the time: the graph has finitely many *)
(* courses when it is asked for those without a vector.                       *)
TodoInv == IsFiniteSet(run.todo)

LEMMA FewerLeft ==
  ASSUME NEW s \in StepNames, s # "validate"
  PROVE  Len(LeftFrom[After[s]]) < Len(LeftFrom[s])
<1>1. CASE s = "wipe"
  <2>1. Len(LeftFrom["wipe"]) = 6 /\ Len(LeftFrom["courses"]) = 5 /\ After["wipe"] = "courses"
    BY DEF LeftFrom, After
  <2>2. Len(LeftFrom[s]) = 6 /\ Len(LeftFrom[After[s]]) = 5
    BY <1>1, <2>1
  <2> QED
    BY <2>2
<1>2. CASE s = "courses"
  <2>1. Len(LeftFrom["courses"]) = 5 /\ Len(LeftFrom["prerequisites"]) = 4 /\ After["courses"] = "prerequisites"
    BY DEF LeftFrom, After
  <2>2. Len(LeftFrom[s]) = 5 /\ Len(LeftFrom[After[s]]) = 4
    BY <1>2, <2>1
  <2> QED
    BY <2>2
<1>3. CASE s = "prerequisites"
  <2>1. Len(LeftFrom["prerequisites"]) = 4 /\ Len(LeftFrom["requirements"]) = 3 /\ After["prerequisites"] = "requirements"
    BY DEF LeftFrom, After
  <2>2. Len(LeftFrom[s]) = 4 /\ Len(LeftFrom[After[s]]) = 3
    BY <1>3, <2>1
  <2> QED
    BY <2>2
<1>4. CASE s = "requirements"
  <2>1. Len(LeftFrom["requirements"]) = 3 /\ Len(LeftFrom["embeddings"]) = 2 /\ After["requirements"] = "embeddings"
    BY DEF LeftFrom, After
  <2>2. Len(LeftFrom[s]) = 3 /\ Len(LeftFrom[After[s]]) = 2
    BY <1>4, <2>1
  <2> QED
    BY <2>2
<1>5. CASE s = "embeddings"
  <2>1. Len(LeftFrom["embeddings"]) = 2 /\ Len(LeftFrom["validate"]) = 1 /\ After["embeddings"] = "validate"
    BY DEF LeftFrom, After
  <2>2. Len(LeftFrom[s]) = 2 /\ Len(LeftFrom[After[s]]) = 1
    BY <1>5, <2>1
  <2> QED
    BY <2>2
<1> QED
  BY <1>1, <1>2, <1>3, <1>4, <1>5 DEF StepNames

(* The next part of the step, or the first of the next step.                  *)
LEMMA PartLater ==
  ASSUME RunInv, run.status = "running", NEW r, Like(r), run' = NextPart(r) \/ run' = NextStep(r)
  PROVE  Later(run', run) /\ run'.todo = r.todo
<1>1. Step \in StepNames /\ run.part \in 1..Size[Step] /\ run.attempt \in 1..MaxAttempts
      /\ Head(r.steps) = Step /\ Head(run.steps) = Step /\ MaxAttempts \in Nat
  BY IngestAssumption DEF RunInv, Like, Step
<1>2. Len(Parts[Step]) = Size[Step] /\ Size[Step] \in 1..5
  BY <1>1, SizeFacts
<1>3. CASE run' = NextStep(r)
  <2>1. CASE Len(r.steps) = 1
    <3>1. run' = [r EXCEPT !.status = "succeeded"]
      BY <1>3, <2>1 DEF NextStep
    <3>2. run'.status = "succeeded" /\ run'.todo = r.todo
      BY <3>1 DEF Like, RunFields
    <3> QED
      BY <3>2 DEF Later
  <2>2. CASE Len(r.steps) # 1
    <3>1. run' = [r EXCEPT !.steps = Tail(@), !.part = 1, !.attempt = 1]
      BY <1>3, <2>2 DEF NextStep
    <3>2. run'.steps = Tail(run.steps) /\ run'.todo = r.todo
      BY <3>1 DEF Like, RunFields
    <3>3. run.steps = LeftFrom[Step]
      <4>1. Len(<< Step >>) = 1
        OBVIOUS
      <4> QED
        BY <2>2, <4>1 DEF RunInv, Like
    <3>4. Step # "validate"
      BY <1>1, <2>2, <3>3, LeftFacts DEF Like
    <3>5. Len(run'.steps) < Len(run.steps)
      BY <1>1, <3>2, <3>3, <3>4, LeftFacts, FewerLeft
    <3> QED
      BY <3>2, <3>5 DEF Later
  <2> QED
    BY <2>1, <2>2
<1>4. CASE run' = NextPart(r) /\ run' # NextStep(r)
  <2>1. run' = [r EXCEPT !.part = @ + 1, !.attempt = IF Step = "wipe" THEN 1 ELSE @]
    BY <1>1, <1>4 DEF NextPart
  <2>2. /\ run'.part = run.part + 1 /\ run'.steps = run.steps /\ run'.todo = r.todo
        /\ Step # "wipe" => run'.attempt = run.attempt
    BY <2>1 DEF Like, RunFields
  <2>3. run'.part > run.part
    BY <1>1, <1>2, <2>2
  <2> QED
    BY <1>1, <2>2, <2>3 DEF Later
<1> QED
  BY <1>3, <1>4

(* A repetition is one attempt more.                                          *)
LEMMA RaisesLater ==
  ASSUME RunInv, run.status = "running", run' = Raises(run), TodoInv
  PROVE  Later(run', run) /\ TodoInv'
<1>1. DOMAIN run = RunFields /\ run.attempt \in 1..MaxAttempts /\ Head(run.steps) = Step
      /\ MaxAttempts \in Nat
  BY IngestAssumption DEF RunInv, Step
<1>2. CASE run' = Fail(run)
  <2>1. run'.status = "failed" /\ run'.todo = run.todo
    BY <1>1, <1>2 DEF Fail, RunFields
  <2> QED
    BY <2>1 DEF Later, TodoInv
<1>3. CASE run' = [run EXCEPT !.part = IF Step = "wipe" THEN @ ELSE 1,
                              !.attempt = @ + 1, !.todo = {}, !.missed = 0]
  <2>1. /\ run'.attempt = run.attempt + 1 /\ run'.steps = run.steps /\ run'.todo = {}
        /\ Step = "wipe" => run'.part = run.part
    BY <1>1, <1>3 DEF RunFields
  <2>2. run'.attempt > run.attempt
    BY <1>1, <2>1
  <2> QED
    BY <1>1, <2>1, <2>2, FS_EmptySet DEF Later, TodoInv
<1> QED
  BY <1>1, <1>2, <1>3 DEF Raises

LEMMA FailLater ==
  ASSUME RunInv, run' = Fail(run), TodoInv
  PROVE  Later(run', run) /\ TodoInv'
<1>1. run'.status = "failed" /\ run'.todo = run.todo
  BY DEF RunInv, Fail, RunFields
<1> QED
  BY <1>1 DEF Later, TodoInv

(* The courses without a vector are finitely many.                            *)
LEMMA MissingFinite ==
  ASSUME IsFiniteSet(neo.courses)
  PROVE  IsFiniteSet(Missing(neo, embedded))
<1>1. IsFiniteSet(Codes(neo.courses))
  BY CodesCount
<1>2. IsFiniteSet(Codes(neo.courses) \ Codes(embedded))
  BY <1>1, FS_Subset
<1> DEFINE codes == Codes(neo.courses) \ Codes(embedded)
           f == [c \in codes |-> [code |-> c, of |-> TextOf(neo, c)]]
<1>3. f \in Surjection(codes, Missing(neo, embedded))
  BY DEF Surjection, Missing
<1> HIDE DEF f, codes
<1>4. IsFiniteSet(codes)
  BY <1>2 DEF codes
<1> QED
  BY <1>3, <1>4, FS_Surjection

(* The embedding loop: a course is taken off whether it succeeds or not.      *)
LEMMA EmbeddingsLater ==
  ASSUME LoadInv, TodoInv, BuildEmbeddings
  PROVE  Later(run', run) /\ TodoInv'
<1>1. RunInv /\ Like(run) /\ run.status = "running" /\ IsFiniteSet(neo.courses)
  BY DEF LoadInv, RunInv, CountedInv, Like, BuildEmbeddings, VectorIndex, SelectMissing, Embed, EmbedFails,
         EmbeddingsDone, At
<1>2. CASE VectorIndex
  BY <1>1, <1>2, PartLater DEF VectorIndex, TodoInv
<1>3. CASE SelectMissing
  <2> DEFINE todo == Missing(neo, embedded)
             r == [run EXCEPT !.todo = todo, !.total = Cardinality(todo), !.missed = 0]
  <2>1. run' = NextStep(run) \/ run' = NextPart(r)
    BY <1>3 DEF SelectMissing
  <2>2. Like(r) /\ r.todo = todo
    BY <1>1 DEF Like, RunFields
  <2>3. IsFiniteSet(todo)
    BY <1>1, MissingFinite
  <2> HIDE DEF r, todo
  <2>4. CASE run' = NextStep(run)
    BY <1>1, <2>4, PartLater DEF TodoInv
  <2>5. CASE run' = NextPart(r)
    BY <1>1, <2>2, <2>3, <2>5, PartLater DEF TodoInv
  <2> QED
    BY <2>1, <2>4, <2>5
<1>4. ASSUME NEW e \in run.todo, Embed(e) \/ EmbedFails(e)
      PROVE  Later(run', run) /\ TodoInv'
  <2>1. /\ run'.steps = run.steps /\ run'.part = run.part /\ run'.attempt = run.attempt
        /\ run'.todo = run.todo \ {e}
    BY <1>1, <1>4 DEF Embed, EmbedFails, Like, RunFields
  <2>2. At("embed")
    BY <1>4 DEF Embed, EmbedFails
  <2>3. Head(run.steps) # "wipe"
    <3>1. Step \in StepNames /\ run.part \in 1..Size[Step]
      BY <1>1 DEF RunInv
    <3>2. "embed" \in PartNames /\ Number["embed"] = 16
      BY DEF PartNames, Number
    <3>3. Where = 16
      BY <1>1, <2>2, <3>2, Here DEF LoadInv
    <3> QED
      BY <3>1, <3>3 DEF Where, Step, Before, Size, StepNames
  <2>4. IsFiniteSet(run.todo) /\ IsFiniteSet(run.todo \ {e})
    BY FS_Subset DEF TodoInv
  <2>5. run'.todo \subseteq run.todo /\ run'.todo # run.todo
    BY <1>4, <2>1
  <2> QED
    BY <2>1, <2>3, <2>4, <2>5 DEF Later, TodoInv
<1>5. CASE EmbeddingsDone
  <2>1. CASE run' = Raises(run)
    BY <1>1, <2>1, RaisesLater
  <2>2. CASE run' = NextPart(run)
    BY <1>1, <2>2, PartLater DEF TodoInv
  <2> QED
    BY <1>5, <2>1, <2>2 DEF EmbeddingsDone
<1> QED
  BY <1>2, <1>3, <1>4, <1>5 DEF BuildEmbeddings

(* A part that is done, or a step that raises.                                *)
LEMMA MovesLater ==
  ASSUME LoadInv, TodoInv, Pipeline \/ Killed
  PROVE  Later(run', run) /\ TodoInv'
<1>1. RunInv /\ Like(run)
  BY DEF LoadInv, RunInv, Like
<1>2. ASSUME run.status = "running", run' = NextPart(run) PROVE Later(run', run) /\ TodoInv'
  BY <1>1, <1>2, PartLater DEF TodoInv
<1>3. CASE Wipe
  BY <1>1, <1>2, <1>3, FailLater DEF Wipe, WipePostgres, WipeAborts, WipeNeo4j, At
<1>4. ASSUME NEW part, NEW graph, Write(part, graph) PROVE Later(run', run) /\ TodoInv'
  BY <1>2, <1>4 DEF Write, At
<1>5. CASE IngestCourses
  BY <1>2, <1>4, <1>5 DEF IngestCourses, WritePostgresCourses, At, Departments, CourseNodes,
     SectionNodes, AttributeEdges
<1>6. CASE PrerequisiteEdges
  BY <1>4, <1>6 DEF PrerequisiteEdges
<1>7. CASE IngestRequirements
  BY <1>2, <1>4, <1>7 DEF IngestRequirements, WritePostgresRequirements, At, ProgramNodes,
     RequirementNodes, SatisfiedBy, OrAlternatives
<1>8. CASE BuildEmbeddings
  BY <1>8, EmbeddingsLater
<1>9. ASSUME NEW part, NEW passed, Check(part, passed) PROVE Later(run', run) /\ TodoInv'
  BY <1>1, <1>2, <1>9, FailLater DEF Check, At
<1>10. CASE Validate
  BY <1>9, <1>10 DEF Validate, ValidateCounts, ValidateRequirements, ValidateExtras
<1>11. CASE StepRaises
  BY <1>1, <1>11, RaisesLater DEF StepRaises
<1>12. CASE Killed
  BY <1>1, <1>12, FailLater DEF Killed
<1> QED
  BY <1>3, <1>5, <1>6, <1>7, <1>8, <1>10, <1>11, <1>12 DEF Pipeline

(* For any sources, however many courses fail and whatever raises, no move of  *)
(* a run is for nothing: steps, attempts, parts and courses left are finitely  *)
(* many and each move uses some up (with_retry, build_all_embeddings).         *)
THEOREM EveryMoveCounts == Spec => RunAdvances
<1>1. Init => TodoInv
  BY FS_EmptySet DEF Init, Idle, TodoInv
<1>2. LoadInv /\ TodoInv /\ [Next]_vars => TodoInv' /\ [run.status = "running" => Later(run', run)]_run
  <2> SUFFICES ASSUME LoadInv, TodoInv, [Next]_vars
               PROVE  TodoInv' /\ (run' = run \/ (run.status = "running" => Later(run', run)))
    OBVIOUS
  <2>1. CASE run' = run
    BY <2>1 DEF TodoInv
  <2>2. CASE Pipeline \/ Killed
    BY <2>2, MovesLater
  <2>3. ASSUME NEW mode, NEW confirmed, NEW dry_run, Start(mode, confirmed, dry_run)
        PROVE  TodoInv' /\ run.status # "running"
    <3>1. run'.todo = {} /\ run.status # "running"
      BY <2>3 DEF Start, Idle
    <3> QED
      BY <3>1, FS_EmptySet DEF TodoInv
  <2>4. CASE NewSource
    BY <2>4, FS_EmptySet DEF NewSource, Idle, TodoInv
  <2>5. ASSUME NEW u, Register(u) PROVE run' = run
    BY <2>5 DEF Register
  <2> QED
    BY <2>1, <2>2, <2>3, <2>4, <2>5 DEF Next, vars
<1> QED
  BY <1>1, <1>2, LoadInvariant, PTL DEF Spec, RunAdvances

=============================================================================
