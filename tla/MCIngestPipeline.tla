-------------------------- MODULE MCIngestPipeline --------------------------
(* Model-checking instance of IngestPipeline: two courses of two departments, *)
(* one a prerequisite of the other, a program whose second requirement is an  *)
(* alternative to the first, and one with a single requirement.  The second   *)
(* source rewrites a course, turns the prerequisite into a corequisite and    *)
(* changes the first program's requirements; the third replaces a course and  *)
(* leaves the second program none.                                            *)
EXTENDS IngestPipeline

CONSTANTS c1, c2, c3, d1, d2, a1, p1, p2, u1

Source1 ==
  [ courses |-> { [code |-> c1, dept |-> d1, text |-> "old"], [code |-> c2, dept |-> d2, text |-> "old"] },
    sections |-> { [code |-> c1, crn |-> 1, status |-> "Open"], [code |-> c2, crn |-> 2, status |-> "Open"] },
    attributes |-> { [code |-> c1, attr |-> a1] },
    prerequisites |-> { [from |-> c2, to |-> c1, type |-> "prerequisite", grade |-> "C-"],
                        [from |-> c2, to |-> c3, type |-> "prerequisite", grade |-> "C-"] },
    programs |-> { [name |-> p1, credits |-> 120], [name |-> p2, credits |-> 30] },
    requirements |-> { [program |-> p1, pos |-> 0, type |-> "required", name |-> "first"],
                       [program |-> p1, pos |-> 1, type |-> "or_alternative", name |-> "second"],
                       [program |-> p2, pos |-> 0, type |-> "required", name |-> "only"] },
    satisfied_by |-> { [program |-> p1, pos |-> 0, code |-> c1], [program |-> p1, pos |-> 1, code |-> c3] },
    or_alternative |-> { [program |-> p1, pos |-> 1, pred |-> 0] } ]

Source2 ==
  [ Source1 EXCEPT
      !.courses = { [code |-> c1, dept |-> d1, text |-> "new"], [code |-> c2, dept |-> d2, text |-> "old"] },
      !.prerequisites = { [from |-> c2, to |-> c1, type |-> "corequisite", grade |-> "C-"] },
      !.requirements = { [program |-> p1, pos |-> 0, type |-> "required", name |-> "first"],
                         [program |-> p1, pos |-> 1, type |-> "required", name |-> "third"],
                         [program |-> p2, pos |-> 0, type |-> "required", name |-> "only"] },
      !.satisfied_by = { [program |-> p1, pos |-> 1, code |-> c2] },
      !.or_alternative = {} ]

Source3 ==
  [ Source2 EXCEPT
      !.courses = { [code |-> c1, dept |-> d1, text |-> "new"], [code |-> c3, dept |-> d2, text |-> "old"] },
      !.requirements = { r \in Source2.requirements : r.program = p1 },
      !.sections = { [code |-> c1, crn |-> 1, status |-> "Open"], [code |-> c3, crn |-> 3, status |-> "Open"] },
      !.prerequisites = { [from |-> c3, to |-> c1, type |-> "prerequisite", grade |-> "C-"] } ]

MCSources == << Source1, Source2, Source3 >>

MCExpected ==
  [courses |-> 2, sections |-> 2, departments |-> 2, programs |-> 2, requirements |-> 3,
   prerequisites |-> 0]
=============================================================================
