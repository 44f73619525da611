\* The startup snapshot overtaken by a change and its notice.
CONSTANTS
  Users = {u1}
  Passwords = {p1}
  Absent = Absent
  MaxRevs = 2
SPECIFICATION Spec
INVARIANT ChangesReachAuthentication
CHECK_DEADLOCK FALSE
