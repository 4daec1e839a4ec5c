---------------------------- MODULE MCStudentApi ----------------------------
(* Model-checking instance of StudentApi: one enrolled student with one        *)
(* completed course; lists that overlap in either order, that repeat a course, *)
(* that name an unknown one or are too long; one address in two spellings.     *)
EXTENDS StudentApi

CONSTANTS r1, r2, r3, a, b, unknown, p, none

Ann == [name |-> "ann", upper |-> FALSE]
Bob(upper) == [name |-> "bob", upper |-> upper]

MCEnrolled == { [id |-> 1, email |-> Ann, program |-> none, active |-> TRUE] }
MCCompleted == { [user |-> 1, course |-> a, grade |-> "A", by |-> none] }

I(course, grade) == [course |-> course, grade |-> grade]
AB == << I(a, "A"), I(b, "B") >>
BA == << I(b, "C"), I(a, "A") >>
Lists == { << >>, AB }
BadLists == { << I(a, "A"), I(a, "B") >>, << I(unknown, "A") >>,
              << I(a, "A"), I(b, "A"), I(unknown, "A") >> }

Replace(lists) == { [kind |-> "replace", user |-> 1, items |-> l] : l \in lists }
SetProgramTo(x) == [kind |-> "program", user |-> 1, program |-> x]
RegisterAs(address, x) == [kind |-> "register", address |-> address, program |-> x]
LogInAs(address, right) == [kind |-> "login", address |-> address, right_password |-> right]

Odd == Replace(BadLists) \cup
         { [kind |-> "replace", user |-> 9, items |-> << >>], SetProgramTo(unknown),
           RegisterAs(Ann, none), RegisterAs(Bob(FALSE), unknown), LogInAs(Ann, FALSE) }

MCBodies ==
  [r \in Requests |->
     CASE r = r1 -> Replace(Lists) \cup Odd \cup { RegisterAs(Bob(TRUE), none), SetProgramTo(none) }
       [] r = r2 -> Replace({ AB }) \cup { RegisterAs(Bob(FALSE), none), SetProgramTo(p) }
       [] r = r3 -> Replace({ BA }) \cup { LogInAs(Bob(TRUE), TRUE), SetProgramTo(none) }]

ListBodies == [r \in Requests |-> Replace({ << I(a, "C") >>, << I(b, "B") >> })]
=============================================================================
