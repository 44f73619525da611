\* Three calls, two values, any loss and any delay.
CONSTANTS
  Values = {v1, v2}
  Get = Get
  Done = Done
  Refused = Refused
  NoAnswer = NoAnswer
  NoCall = NoCall
  NoReturn = NoReturn
  MaxCalls = 3
SPECIFICATION FairSpec
INVARIANT TypeOK
PROPERTIES
  ImplementsRpc
  SetsKeepOrder
  EveryCallReturns
\* The system may stop: the calls are bounded.
CHECK_DEADLOCK FALSE
