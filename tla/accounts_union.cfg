SPECIFICATION Spec
CONSTANTS
  r1 = r1
  r2 = r2
  r3 = r3
  a = a
  b = b
  unknown = unknown
  p = p
  none = none
  None = none
  Requests = {r1, r2}
  Courses = {a, b}
  Programs = {p}
  MaxCourses = 2
  Enrolled <- MCEnrolled
  Completed <- MCCompleted
  Bodies <- ListBodies
  MaxFaults = 0
PROPERTY ReplacesAtomically
CHECK_DEADLOCK FALSE
