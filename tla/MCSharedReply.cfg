CONSTANTS
  c1 = c1  c2 = c2  k1 = k1  k2 = k2
  Callers = {c1, c2}
  Clients = {k1}
  ClientOf <- SharedClient
  Commands = {"create"}
  Unreadable = {}
  Unsendable = {}
  Outcomes <- OkOrFault
  MaxRequests = 1
  MaxTx = 1
  MaxStarts = 2
  None = None
SPECIFICATION Spec
INVARIANT ReplyMatchesRequest
CHECK_DEADLOCK FALSE
