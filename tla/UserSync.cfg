\* Two accounts, two passwords, two changes.  No symmetry: the liveness
\* property would not be sound under it.
CONSTANTS
  Users = {u1, u2}
  Passwords = {p1, p2}
  Absent = Absent
  MaxRevs = 2
SPECIFICATION FairSpec
INVARIANTS
  TypeOK
  PartialButRight
  WrongOnlyIfOvertaken
  WrongMeansSnapshot
PROPERTIES
  OnlyDeletesForget
  EventuallyAgrees
\* The system may stop: the changes are bounded and everything is delivered.
CHECK_DEADLOCK FALSE
