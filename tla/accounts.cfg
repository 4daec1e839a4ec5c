SPECIFICATION Spec
CONSTANTS
  r1 = r1
  r2 = r2
  r3 = r3
  a = a
  b = b
  unknown = unknown
  p = p
  none = none
  None = none
  Requests = {r1, r2, r3}
  Courses = {a, b}
  Programs = {p}
  MaxCourses = 2
  Enrolled <- MCEnrolled
  Completed <- MCCompleted
  Bodies <- MCBodies
  MaxFaults = 1
INVARIANTS
  TypeOK
  SupersededGone
  AllOrNothing
  AccountsTruthful
PROPERTY EveryRequestAnswered
CHECK_DEADLOCK FALSE
