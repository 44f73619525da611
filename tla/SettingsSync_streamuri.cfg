\* A stream's address, when iconfig does not answer.
CONSTANTS
  NotHeld = NotHeld
  Freed = Freed
  Unread = Unread
  Garbage = Garbage
  BadAddress = BadAddress
  Others <- Section
  MaxRevs = 1
SPECIFICATION Spec
INVARIANT UriHasAddress
