\* Every netmask of six bits, every prefix length up to two past the width.
CONSTANTS
  Width = 6
  MaxPrefix = 8
  NoMask = NoMask
SPECIFICATION FairSpec
INVARIANTS
  TypeOK
  ReportsLeadingOnes
  StoresContiguous
  RoundTrip
PROPERTY ConversionsEnd
\* One set and one report, and the conversions are over.
CHECK_DEADLOCK FALSE
