--------------------------- MODULE IngestPipeline ---------------------------
(***************************************************************************)
(* The data ingestion pipeline (data/ingest): it reads the scraped         *)
(* catalogue and loads it into Postgres and Neo4j, two stores without a    *)
(* common transaction, and embeds every course through Ollama.  A run is a *)
(* list of steps, a step a list of parts, and a part one transaction.      *)
(* Any part may raise and the job may be killed between two parts; the     *)
(* operator starts the next run, in any mode, and the source file changes  *)
(* between runs.                                                           *)
(*                                                                         *)
(* The parsed source is the input here: what the parsers make of the text  *)
(* is in CatalogParsing.  `text' stands for every column of a course that  *)
(* is not a key.                                                           *)
(***************************************************************************)
EXTENDS Integers, Sequences, FiniteSets, SequencesExt

CONSTANTS
  Sources,       \* the parsed source file, version by version
  Users,
  MaxAttempts,   \* with_retry's attempts (5 in the code)
  ToleratedPct,  \* FAILURE_THRESHOLD in percent (5 in the code)
  Expected,      \* the counts the validators were written with
  MaxRuns        \* bound: runs of the job

Versions == DOMAIN Sources

Tables == { "courses", "sections", "attributes", "programs", "requirements" }
Nodes == { "departments", "courses", "sections", "programs", "requirements" }
Edges == { "has_section", "has_attribute", "has_prerequisite", "satisfied_by", "or_alternative" }

(* Every section, attribute and requirement of a source belongs to one of   *)
(* its courses and programs, and what satisfies a requirement or is its     *)
(* alternative to one of its requirements: the parsers read them nested in  *)
(* these.                                                                   *)
ASSUME IngestAssumption ==
  /\ MaxAttempts \in Nat \ {0} /\ ToleratedPct \in Nat /\ MaxRuns \in Nat
  /\ 1 \in Versions
  /\ \A v \in Versions :
       /\ \A s \in Sources[v].sections : \E c \in Sources[v].courses : c.code = s.code
       /\ \A a \in Sources[v].attributes : \E c \in Sources[v].courses : c.code = a.code
       /\ \A r \in Sources[v].requirements : \E p \in Sources[v].programs : p.name = r.program
       /\ \A e \in Sources[v].satisfied_by \cup Sources[v].or_alternative :
            \E r \in Sources[v].requirements : r.program = e.program /\ r.pos = e.pos
       /\ \A e \in Sources[v].or_alternative :
            \E r \in Sources[v].requirements : r.program = e.program /\ r.pos = e.pred
       /\ IsFiniteSet(Sources[v].courses)

VARIABLES
  source,    \* the version of the source file in the job's image
  pg,        \* Postgres: table -> rows
  accounts,  \* users, with their completed courses and decisions
  neo,       \* Neo4j: label or relationship type -> nodes or edges
  embedded,  \* Course.embedding: [code, of], `of' the text it was computed from
  index,     \* whether the vector index exists
  run,       \* the run under way or the last one
  runs,      \* counter for the bound
  loaded     \* history variable: the sources written since both stores were empty

stores == << pg, accounts, neo, embedded, index >>
vars == << source, stores, run, runs, loaded >>

-----------------------------------------------------------------------------
(* Steps and parts *)

Modes == { "full", "upsert", "embeddings", "validate", "run_all" }
LoadModes == { "full", "upsert", "run_all" }

Load == << "courses", "prerequisites", "requirements", "embeddings" >>

Steps(mode) ==
  CASE mode = "full" -> << "wipe" >> \o Load \o << "validate" >>
    [] mode \in { "upsert", "run_all" } -> Load \o << "validate" >>
    [] mode = "embeddings" -> << "embeddings" >>
    [] mode = "validate" -> << "validate" >>

Parts ==
  [ wipe |-> << "wipe_postgres", "wipe_neo4j" >>,
    courses |-> << "write_postgres_courses", "departments", "course_nodes", "section_nodes",
                   "attribute_edges" >>,
    prerequisites |-> << "prerequisite_edges" >>,
    requirements |-> << "write_postgres_requirements", "program_nodes", "requirement_nodes",
                        "satisfied_by", "or_alternatives" >>,
    embeddings |-> << "vector_index", "missing", "embed" >>,
    validate |-> << "validate_counts", "validate_requirements", "validate_extras" >> ]

Step == Head(run.steps)
At(part) == run.status = "running" /\ Parts[Step][run.part] = part

(* The step after this one, or the end of the run. *)
NextStep(r) ==
  IF Len(r.steps) = 1
    THEN [r EXCEPT !.status = "succeeded"]
    ELSE [r EXCEPT !.steps = Tail(@), !.part = 1, !.attempt = 1]

NextPart(r) ==
  IF r.part = Len(Parts[Head(r.steps)])
    THEN NextStep(r)
    ELSE [r EXCEPT !.part = @ + 1,
                   !.attempt = IF Head(r.steps) = "wipe" THEN 1 ELSE @]

Fail(r) == [r EXCEPT !.status = "failed"]

(* Mutant: an attempt that fails is not counted. *)
RaisesForEver(r) ==
  IF Head(r.steps) # "validate" /\ r.mode \in { "full", "upsert" }
    THEN [r EXCEPT !.part = 1, !.todo = {}, !.missed = 0]
    ELSE Fail(r)

(* Mutant: one attempt too many. *)
RaisesOnceMore(r) ==
  IF Head(r.steps) = "validate" \/ r.mode \notin { "full", "upsert" } \/ r.attempt > MaxAttempts
    THEN Fail(r)
    ELSE [r EXCEPT !.part = 1, !.attempt = @ + 1, !.todo = {}, !.missed = 0]

(* with_retry runs the whole step again, up to MaxAttempts times; the two    *)
(* statements of the wipe are retried one by one.  Validation is not         *)
(* retried, nor is any step of --mode=embeddings or of run_all.              *)
Raises(r) ==
  IF Head(r.steps) = "validate" \/ r.mode \notin { "full", "upsert" } \/ r.attempt = MaxAttempts
    THEN Fail(r)
    ELSE [r EXCEPT !.part = IF Head(r.steps) = "wipe" THEN @ ELSE 1,
                   !.attempt = @ + 1, !.todo = {}, !.missed = 0]

(* INSERT ... ON CONFLICT DO UPDATE, and MERGE with SET: rows of the table   *)
(* that agree with a new row on the columns of the key give way to it, the   *)
(* others stay.                                                              *)
Upsert(table, rows, key) ==
  { t \in table : \A r \in rows : \E column \in key : r[column] # t[column] } \cup rows

ByCode == { "code" }
ByCrn == { "crn" }
ByCodeAndCrn == { "code", "crn" }
ByName == { "name" }
ByPosition == { "program", "pos" }
ByEnds == { "from", "to", "type" }

In == Sources[source]
Codes(courses) == { c.code : c \in courses }
Names(programs) == { p.name : p \in programs }

-----------------------------------------------------------------------------
(* Starting a run *)

Idle(status) ==
  [mode |-> "validate", confirmed |-> FALSE, status |-> status, steps |-> << >>,
   part |-> 1, attempt |-> 1, todo |-> {}, total |-> 0, missed |-> 0]

Init ==
  /\ source = 1
  /\ pg = [t \in Tables |-> {}]
  /\ accounts = {}
  /\ neo = [t \in Nodes \cup Edges |-> {}]
  /\ embedded = {}
  /\ index = FALSE
  /\ run = Idle("none")
  /\ runs = 0
  /\ loaded = {}

(* Mutant: the confirmation flag is not asked for. *)
MayStartAnyway(mode, confirmed) == TRUE

MayStart(mode, confirmed) == mode = "full" => confirmed

Start(mode, confirmed, dry_run) ==
  /\ run.status # "running" /\ runs < MaxRuns
  /\ mode = "run_all" => ~confirmed /\ ~dry_run      \* it takes no arguments
  /\ runs' = runs + 1
  /\ run' = CASE ~MayStart(mode, confirmed) -> Idle("refused")
              [] MayStart(mode, confirmed) /\ dry_run -> Idle("counted")
              [] OTHER -> [Idle("running") EXCEPT !.mode = mode, !.confirmed = confirmed,
                                                  !.steps = Steps(mode)]
  /\ UNCHANGED << source, stores, loaded >>

(* The scrape is run again and the image rebuilt: no run of it yet. *)
NewSource ==
  /\ run.status # "running" /\ source + 1 \in Versions
  /\ source' = source + 1
  /\ run' = Idle("none")
  /\ UNCHANGED << stores, runs, loaded >>

(* Students use the application meanwhile. *)
Register(u) ==
  /\ u \notin accounts
  /\ accounts' = accounts \cup {u}
  /\ UNCHANGED << source, pg, neo, embedded, index, run, runs, loaded >>

-----------------------------------------------------------------------------
(* wipe *)

(* TRUNCATE ... CASCADE reaches every table with a foreign key to one of     *)
(* those it names: users has one to programs, completed_courses and          *)
(* student_decisions have one to users.                                      *)
WipePostgres ==
  /\ At("wipe_postgres")
  /\ pg' = [t \in Tables |-> {}]
  /\ accounts' = {}
  /\ run' = NextPart(run)
  /\ UNCHANGED << source, neo, embedded, index, runs, loaded >>

(* The statement failed inside its transaction: the session is not rolled    *)
(* back, so every further attempt on it fails too.                           *)
WipeAborts ==
  /\ At("wipe_postgres")
  /\ run' = Fail(run)
  /\ UNCHANGED << source, stores, runs, loaded >>

WipeNeo4j ==
  /\ At("wipe_neo4j")
  /\ neo' = [t \in Nodes \cup Edges |-> {}]
  /\ embedded' = {}
  /\ loaded' = {}
  /\ run' = NextPart(run)
  /\ UNCHANGED << source, pg, accounts, index, runs >>

-----------------------------------------------------------------------------
(* ingest_courses: Postgres in one transaction, then Neo4j in four *)

(* Mutant: ON CONFLICT DO NOTHING. *)
CourseRowsKept(p, s) ==
  [p EXCEPT !.courses = { c \in s.courses : c.code \notin Codes(@) } \cup @,
            !.sections = Upsert(@, s.sections, ByCodeAndCrn),
            !.attributes = @ \cup s.attributes]

CourseRows(p, s) ==
  [p EXCEPT !.courses = Upsert(@, s.courses, ByCode),
            !.sections = Upsert(@, s.sections, ByCodeAndCrn),
            !.attributes = @ \cup s.attributes]

WritePostgresCourses ==
  /\ At("write_postgres_courses")
  /\ pg' = CourseRows(pg, In)
  /\ loaded' = loaded \cup {source}
  /\ run' = NextPart(run)
  /\ UNCHANGED << source, accounts, neo, embedded, index, runs >>

(* One execute_write of Neo4j. *)
Write(part, graph) ==
  /\ At(part)
  /\ neo' = graph
  /\ run' = NextPart(run)
  /\ UNCHANGED << source, pg, accounts, embedded, index, runs, loaded >>

Departments ==
  Write("departments", [neo EXCEPT !.departments = @ \cup { c.dept : c \in In.courses }])

(* SET does not touch the embedding of a node that is merged. *)
CourseNodes ==
  Write("course_nodes", [neo EXCEPT !.courses = Upsert(@, In.courses, ByCode)])

(* A Section node is merged on its crn alone. *)
SectionNodes ==
  LET rows == { s \in In.sections : s.code \in Codes(neo.courses) } IN
  Write("section_nodes",
        [neo EXCEPT !.sections = Upsert(@, { [crn |-> s.crn, status |-> s.status] : s \in rows }, ByCrn),
                    !.has_section = @ \cup { << s.code, s.crn >> : s \in rows }])

AttributeEdges ==
  Write("attribute_edges",
        [neo EXCEPT !.has_attribute =
           @ \cup { a \in In.attributes : a.code \in Codes(neo.courses) }])

-----------------------------------------------------------------------------
(* parse_prerequisites: edges between courses the graph has *)

PrerequisiteEdgesOf(graph, s) ==
  { e \in s.prerequisites : e.from \in Codes(graph.courses) /\ e.to \in Codes(graph.courses) }

PrerequisiteEdges ==
  Write("prerequisite_edges",
        [neo EXCEPT !.has_prerequisite = Upsert(@, PrerequisiteEdgesOf(neo, In), ByEnds)])

-----------------------------------------------------------------------------
(* ingest_requirements: Postgres in one transaction, then Neo4j in four *)

(* Mutant: the old requirements are not deleted. *)
RequirementRowsAdded(p, s) ==
  [p EXCEPT !.programs = Upsert(@, s.programs, ByName),
            !.requirements = @ \cup s.requirements]

RequirementRows(p, s) ==
  [p EXCEPT !.programs = Upsert(@, s.programs, ByName),
            !.requirements = { r \in @ : r.program \notin Names(s.programs) } \cup s.requirements]

WritePostgresRequirements ==
  /\ At("write_postgres_requirements")
  /\ pg' = RequirementRows(pg, In)
  /\ run' = NextPart(run)
  /\ UNCHANGED << source, accounts, neo, embedded, index, runs, loaded >>

ProgramNodes ==
  Write("program_nodes", [neo EXCEPT !.programs = Upsert(@, In.programs, ByName)])

RequirementNodes ==
  LET rows == { r \in In.requirements : r.program \in Names(neo.programs) } IN
  Write("requirement_nodes", [neo EXCEPT !.requirements = Upsert(@, rows, ByPosition)])

AtPosition(requirements) == { << r.program, r.pos >> : r \in requirements }

SatisfiedBy ==
  Write("satisfied_by",
        [neo EXCEPT !.satisfied_by =
           @ \cup { e \in In.satisfied_by : /\ << e.program, e.pos >> \in AtPosition(neo.requirements)
                                            /\ e.code \in Codes(neo.courses) }])

OrAlternatives ==
  Write("or_alternatives",
        [neo EXCEPT !.or_alternative =
           @ \cup { e \in In.or_alternative :
                      { << e.program, e.pos >>, << e.program, e.pred >> }
                        \subseteq AtPosition(neo.requirements) }])

-----------------------------------------------------------------------------
(* build_all_embeddings *)

VectorIndex ==
  /\ At("vector_index")
  /\ index' = TRUE
  /\ run' = NextPart(run)
  /\ UNCHANGED << source, pg, accounts, neo, embedded, runs, loaded >>

(* build_embedding_text of a course of the graph. *)
TextOf(graph, code) ==
  [text |-> { c.text : c \in { d \in graph.courses : d.code = code } },
   attributes |-> { a.attr : a \in { b \in graph.has_attribute : b.code = code } }]

Missing(graph, have) ==
  { [code |-> c, of |-> TextOf(graph, c)] : c \in Codes(graph.courses) \ Codes(have) }

SelectMissing ==
  /\ At("missing")
  /\ LET todo == Missing(neo, embedded) IN
     run' = IF todo = {} THEN NextStep(run)
            ELSE NextPart([run EXCEPT !.todo = todo, !.total = Cardinality(todo), !.missed = 0])
  /\ UNCHANGED << source, stores, runs, loaded >>

(* Ollama answered, at one of its attempts, and the vector is stored. *)
Embed(e) ==
  /\ At("embed") /\ e \in run.todo
  /\ embedded' = Upsert(embedded, {e}, ByCode)
  /\ run' = [run EXCEPT !.todo = @ \ {e}]
  /\ UNCHANGED << source, pg, accounts, neo, index, runs, loaded >>

(* Every attempt for this course failed: it is counted and left out. *)
EmbedFails(e) ==
  /\ At("embed") /\ e \in run.todo
  /\ run' = [run EXCEPT !.todo = @ \ {e}, !.missed = @ + 1]
  /\ UNCHANGED << source, stores, runs, loaded >>

EmbeddingsDone ==
  /\ At("embed") /\ run.todo = {}
  /\ run' = IF run.missed * 100 > ToleratedPct * run.total THEN Raises(run) ELSE NextPart(run)
  /\ UNCHANGED << source, stores, runs, loaded >>

-----------------------------------------------------------------------------
(* validate: counts against those the validators were written with *)

Check(part, passed) ==
  /\ At(part)
  /\ run' = IF passed THEN NextPart(run) ELSE Fail(run)
  /\ UNCHANGED << source, stores, runs, loaded >>

(* validate_counts --db *)
CountsHold ==
  /\ Cardinality(In.courses) = Expected.courses
  /\ Cardinality(In.sections) = Expected.sections
  /\ Cardinality({ c.dept : c \in In.courses }) = Expected.departments
  /\ Cardinality(pg.courses) = Expected.courses
  /\ Cardinality(pg.sections) = Expected.sections
  /\ pg.attributes # {}
  /\ Cardinality(neo.courses) = Expected.courses
  /\ Cardinality(neo.departments) = Expected.departments
  /\ neo.has_attribute # {}

ValidateCounts == Check("validate_counts", CountsHold)

(* validate_requirements looks at the source file only. *)
RequirementsHold ==
  /\ Cardinality(In.programs) = Expected.programs
  /\ Cardinality(In.requirements) = Expected.requirements
  /\ \A r \in In.requirements : r.type = "or_alternative" =>
       \E e \in In.or_alternative : e.program = r.program /\ e.pos = r.pos

ValidateRequirements == Check("validate_requirements", RequirementsHold)

(* Mutant: the embeddings are not counted. *)
ExtrasWithoutEmbeddings ==
  /\ Cardinality(neo.has_prerequisite) > Expected.prerequisites
  /\ Cardinality(neo.programs) = Expected.programs
  /\ index

(* validate_neo4j_extras *)
ExtrasHold ==
  /\ Cardinality(neo.has_prerequisite) > Expected.prerequisites
  /\ Cardinality(neo.programs) = Expected.programs
  /\ Cardinality(embedded) = Expected.courses
  /\ index

ValidateExtras == Check("validate_extras", ExtrasHold)

-----------------------------------------------------------------------------
(* Failures *)

(* A part raises: a store or the network failed, its transaction is undone. *)
StepRaises ==
  /\ run.status = "running"
  /\ run' = Raises(run)
  /\ UNCHANGED << source, stores, runs, loaded >>

(* The job is killed: what was committed stays. *)
Killed ==
  /\ run.status = "running"
  /\ run' = Fail(run)
  /\ UNCHANGED << source, stores, runs, loaded >>

Wipe == WipePostgres \/ WipeAborts \/ WipeNeo4j
IngestCourses == WritePostgresCourses \/ Departments \/ CourseNodes \/ SectionNodes \/ AttributeEdges
IngestRequirements ==
  WritePostgresRequirements \/ ProgramNodes \/ RequirementNodes \/ SatisfiedBy \/ OrAlternatives
BuildEmbeddings ==
  \/ VectorIndex
  \/ SelectMissing
  \/ \E e \in run.todo : Embed(e) \/ EmbedFails(e)
  \/ EmbeddingsDone
Validate == ValidateCounts \/ ValidateRequirements \/ ValidateExtras

Pipeline ==
  Wipe \/ IngestCourses \/ PrerequisiteEdges \/ IngestRequirements \/ BuildEmbeddings \/ Validate
    \/ StepRaises

Next ==
  \/ \E mode \in Modes, confirmed, dry_run \in BOOLEAN : Start(mode, confirmed, dry_run)
  \/ NewSource
  \/ \E u \in Users : Register(u)
  \/ Pipeline
  \/ Killed

(* A run under way takes its next part or raises: the code is sequential    *)
(* and its clients have timeouts.                                           *)
Spec == Init /\ [][Next]_vars /\ WF_vars(Pipeline)

-----------------------------------------------------------------------------
(* Properties *)

Of(table) == UNION { Sources[v][table] : v \in Versions }

TypeOK ==
  /\ source \in Versions
  /\ pg \in [Tables -> SUBSET UNION { Of(t) : t \in Tables }]
  /\ \A t \in Tables : pg[t] \subseteq Of(t)
  /\ accounts \subseteq Users
  /\ DOMAIN neo = Nodes \cup Edges
  /\ \A t \in { "courses", "programs", "requirements" } : neo[t] \subseteq Of(t)
  /\ neo.has_prerequisite \subseteq Of("prerequisites")
  /\ Codes(embedded) \subseteq Codes(neo.courses)
  /\ index \in BOOLEAN
  /\ run.status \in { "none", "running", "succeeded", "failed", "refused", "counted" }
  /\ run.status = "running" => /\ run.attempt \in 1..MaxAttempts
                               /\ run.part \in 1..Len(Parts[Step])
  /\ runs \in 0..MaxRuns
  /\ loaded \subseteq Versions

(* What the stores hold once the present source is loaded into empty ones. *)
Exact ==
  /\ \A t \in Tables : pg[t] = In[t]
  /\ \A t \in { "courses", "programs", "requirements" } : neo[t] = In[t]
  /\ neo.departments = { c.dept : c \in In.courses }
  /\ neo.has_section = { << s.code, s.crn >> : s \in In.sections }
  /\ neo.has_attribute = In.attributes
  /\ neo.has_prerequisite = PrerequisiteEdgesOf(neo, In)
  /\ neo.satisfied_by = { e \in In.satisfied_by : e.code \in Codes(In.courses) }
  /\ neo.or_alternative = In.or_alternative
  /\ Codes(embedded) = Codes(In.courses)
  /\ index

LoadSucceeded == run.status = "succeeded" /\ run.mode \in LoadModes

(* However many runs were interrupted, repeated or mixed before it, a load that    *)
(* ends well leaves in both stores exactly what one undisturbed load into empty    *)
(* stores leaves, as long as the source did not change (infra/README.md: running   *)
(* it twice produces identical state).                                             *)
SuccessIsExact == (LoadSucceeded /\ loaded = {source}) => Exact

(* And if the source did change, whatever it says now is in both stores, in its    *)
(* present form: what an earlier source left is beside it, never instead of it.    *)
SuccessIsCurrent ==
  LoadSucceeded =>
    /\ \A t \in Tables : In[t] \subseteq pg[t]
    /\ \A t \in { "courses", "programs", "requirements" } : In[t] \subseteq neo[t]
    /\ neo.courses = pg.courses
    /\ In.attributes \subseteq neo.has_attribute
    /\ PrerequisiteEdgesOf(neo, In) \subseteq neo.has_prerequisite
    /\ In.or_alternative \subseteq neo.or_alternative
    /\ Codes(embedded) = Codes(neo.courses)

(* Postgres serves the application while a run is under way.  At no moment does a   *)
(* reader find a section, attribute or requirement without its parent, or a        *)
(* program with part of one source's requirements and part of another's            *)
(* (write_postgres deletes and inserts in one transaction).                        *)
NeverHalfLoaded ==
  /\ \A s \in pg.sections \cup pg.attributes : s.code \in Codes(pg.courses)
  /\ \A p \in pg.programs : \E v \in Versions :
       { r \in pg.requirements : r.program = p.name } =
         { r \in Sources[v].requirements : r.program = p.name }

Required(rows) == { r.program : r \in rows }

(* No step takes a course, a program or an account out of Postgres, or leaves a     *)
(* program without requirements that the source has some for, unless the operator  *)
(* confirmed a full run (__main__.py asks for --i-understand-this-wipes-prod).      *)
NothingLostUnconfirmed ==
  [][ \/ /\ Codes(pg.courses) \subseteq Codes(pg'.courses)
         /\ Names(pg.programs) \subseteq Names(pg'.programs)
         /\ Required(pg.requirements) \ (Names(In.programs) \ Required(In.requirements))
              \subseteq Required(pg'.requirements)
         /\ accounts \subseteq accounts'
         /\ Codes(embedded) \subseteq Codes(embedded')
      \/ run.mode = "full" /\ run.confirmed ]_vars

(* A run that starts ends, whatever fails: retries are bounded.  *)
RunEnds == run.status = "running" ~> run.status # "running"
=============================================================================
