CONSTANTS
  c1 = c1  c2 = c2  k1 = k1  k2 = k2
  Callers = {c1}
  Clients = {k1}
  ClientOf <- OneCaller
  Commands = {"create"}
  Unreadable = {}
  Unsendable = {}
  Outcomes <- OkOrTyped
  MaxRequests = 1
  MaxTx = 1
  MaxStarts = 2
  None = None
SPECIFICATION Spec
INVARIANT EndReachesCaller
CHECK_DEADLOCK FALSE
