\* A set that returned SOAP_OK was done.
CONSTANTS
  Values = {v1}
  Get = Get
  Done = Done
  Refused = Refused
  NoAnswer = NoAnswer
  NoCall = NoCall
  NoReturn = NoReturn
  MaxCalls = 1
SPECIFICATION Spec
INVARIANT OkMeansDone
CHECK_DEADLOCK FALSE
