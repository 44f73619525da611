\* Five requests, any loss, one change announced by a notice.
CONSTANTS
  Values = {v1}
  Missing = Missing
  NoResponse = NoResponse
  MaxNotices = 1
SPECIFICATION Spec
INVARIANTS
  TypeOK
  AuthenticatedReadsFilled
