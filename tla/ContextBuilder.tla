--------------------------- MODULE ContextBuilder ---------------------------
(***************************************************************************)
(* The context of a prompt (context_builder.py): what Postgres and Neo4j   *)
(* know about the student and the message, in three sections under one     *)
(* budget of characters.                                                   *)
(*                                                                         *)
(* A text is a sequence of characters; one entry of a result (a line about *)
(* a course, a prerequisite, a decision) is one character here.  None is a *)
(* source that failed or was not asked.  Delimiter tags that retrieved     *)
(* data may hold are taken out of it before it is measured.                *)
(***************************************************************************)
EXTENDS Integers, Sequences, FiniteSets, SequencesExt

CONSTANTS
  Overhead,        \* per section: the characters of its two tags
  SuffixChars,     \* of "\n[...truncated]"
  SeparatorChars,  \* of the blank line between sections
  CharsPerToken,   \* CHARS_PER_TOKEN
  MaxDecisions,    \* decisions a profile lists: 10 in the code
  None

Tags == << "user_profile", "conversation_summary", "retrieved_context" >>

ASSUME ContextAssumption ==
  /\ Overhead \in [ToSet(Tags) -> Nat]
  /\ SuffixChars \in Nat \ {0} /\ SeparatorChars \in Nat
  /\ CharsPerToken \in Nat \ {0} /\ MaxDecisions \in Nat

-----------------------------------------------------------------------------
(* Formatters *)

FormatStudentProfile(profile) ==
  << "program" >> \o (IF profile.completed = << >> THEN << "none" >> ELSE profile.completed)
                  \o SubSeq(profile.decisions, 1, IF Len(profile.decisions) <= MaxDecisions
                                                    THEN Len(profile.decisions) ELSE MaxDecisions)

FormatPrereqChain(edges) == << "course" >> \o (IF edges = << >> THEN << "none" >> ELSE edges)

FormatDegreeRequirements(requirements) ==
  IF requirements = None THEN << "not found" >> ELSE << "degree" >> \o requirements

-----------------------------------------------------------------------------
(* Retrieval, by intent; `graph' is what Neo4j has, or None while it fails *)

RetrieveForPrereqCheck(graph) ==
  IF graph.courses = << >> THEN << >>
  ELSE graph.courses \o << "blank" >> \o FormatPrereqChain(graph.edges)

RetrieveForDegreePlanning(graph, program) ==
  IF program = None THEN << >> ELSE FormatDegreeRequirements(graph.requirements)

Retrieve(intent, profile, embedded, graph) ==
  CASE graph = None -> None
    [] graph # None /\ intent = "course_search" /\ embedded -> graph.courses
    [] graph # None /\ intent = "prereq_check" /\ embedded -> RetrieveForPrereqCheck(graph)
    [] graph # None /\ intent = "degree_planning" ->
         RetrieveForDegreePlanning(graph, IF profile = None THEN None ELSE profile.program)
    [] OTHER -> None

-----------------------------------------------------------------------------
(* Assembly: the sections so far and the characters counted for them *)

Chars(section) == Overhead[section.tag] + Len(section.text) + (IF section.cut THEN SuffixChars ELSE 0)

Whole(tag, content) == [tag |-> tag, text |-> content, cut |-> FALSE]

(* The suffix is added although it may not fit. *)
Cut(tag, content, available) ==
  [tag |-> tag, cut |-> TRUE,
   text |-> SubSeq(content, 1, IF available < SuffixChars THEN 0 ELSE available - SuffixChars)]

WrapSection(tag, content, available) ==
  IF Len(content) <= available THEN Whole(tag, content) ELSE Cut(tag, content, available)

(* Mutant: the blank line is not counted. *)
Unseparated(s) == s.running

Separated(s) == s.running + (IF s.sections = << >> THEN 0 ELSE SeparatorChars)

(* A section without room is left out, and its separator stays counted. *)
AddSection(s, tag, content, max_chars) ==
  LET available == max_chars - Separated(s) - Overhead[tag]
      section == WrapSection(tag, content, available)
  IN CASE content = None \/ content = << >> -> s
       [] content # None /\ content # << >> /\ available <= 0 -> [s EXCEPT !.running = Separated(s)]
       [] content # None /\ content # << >> /\ available > 0 ->
            [sections |-> Append(s.sections, section), running |-> Separated(s) + Chars(section)]

Empty == [sections |-> << >>, running |-> 0]

AssembleWithBudget(profile_text, summary_text, retrieved_text, max_tokens) ==
  LET max_chars == max_tokens * CharsPerToken
      one == AddSection(Empty, Tags[1], profile_text, max_chars)
      two == AddSection(one, Tags[2], summary_text, max_chars)
  IN AddSection(two, Tags[3], retrieved_text, max_chars).sections

(* Of at most three sections, joined by separators. *)
TotalChars(sections) ==
  LET taken(k) == IF k <= Len(sections) THEN Chars(sections[k]) + SeparatorChars ELSE 0 IN
  IF sections = << >> THEN 0 ELSE taken(1) + taken(2) + taken(3) - SeparatorChars

BuildContext(intent, profile, embedded, graph, summary, max_tokens) ==
  AssembleWithBudget(IF profile = None THEN None ELSE FormatStudentProfile(profile), summary,
                     Retrieve(intent, profile, embedded, graph), max_tokens)
=============================================================================
