CONSTANTS
  Callers <- MCCallers
  MaxRequests = 3
  PipeCap = 1
  ServerIds <- MCServerIds
  MaxServerReqs = 1
  NoMsg = NoMsg
  NoHolder = NoHolder
  NumericServerIds = TRUE
SPECIFICATION Spec
INVARIANT DeliveredIsOwnResponse
CHECK_DEADLOCK FALSE
