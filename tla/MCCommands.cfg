CONSTANTS
  c1 = c1  c2 = c2  k1 = k1  k2 = k2
  Callers = {c1}
  Clients = {k1}
  ClientOf <- OneCaller
  Commands = {"create"}
  Unreadable = {}
  Unsendable = {}
  Outcomes <- OkOrFault
  MaxRequests = 2
  MaxTx = 2
  MaxStarts = 2
  None = None
SPECIFICATION Spec
INVARIANTS
  TypeOK
  OneRunPerTransmission
  ReplyMatchesRequest
  NoSocketMisuse
PROPERTY
  ImplementsService
CHECK_DEADLOCK FALSE
