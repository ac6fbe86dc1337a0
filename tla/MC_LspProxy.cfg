CONSTANTS
  Callers <- MCCallers
  MaxRequests = 3
  PipeCap = 1
  ServerIds <- MCServerIds
  NumericServerIds = FALSE
  MaxServerReqs = 1
  NoMsg = NoMsg
  NoHolder = NoHolder
SPECIFICATION Spec
INVARIANT TypeOK
INVARIANT DeliveredIsOwnResponse
PROPERTY SlotsFreed
CHECK_DEADLOCK FALSE
