\* Two changes of five keys.
CONSTANTS
  NotHeld = NotHeld
  Freed = Freed
  Unread = Unread
  Garbage = Garbage
  BadAddress = BadAddress
  Others <- Section
  MaxRevs = 2
SPECIFICATION FairSpec
INVARIANTS
  TypeOK
  ReadsAreRecent
  MixedOnlyIfBothChange
PROPERTIES
  BackOnlyAtStartup
  EventuallyAgrees
