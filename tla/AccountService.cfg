\* One account, two passwords and two changes around the snapshot, by an
\* operation or by others, and a request that may be late.
CONSTANTS
  Users = {u1}
  Passwords = {p1, p2}
  Absent = Absent
  MaxRevs = 2
  AskedItems <- Items
  AskedNames <- Names
  MaxQueue = 1
  Freed = Freed
  NoLogin = NoLogin
SPECIFICATION FairServiceSpec
INVARIANTS
  ServiceTypeOK
  LoginsAreExact
PROPERTIES
  LoginsSettle
\* The service may stop: nobody asks, and everything is delivered.
CHECK_DEADLOCK FALSE
