CONSTANTS
  h2 = h2  h3 = h3  bad2 = bad2  new3 = new3
  ok2 = ok2  fault4 = fault4  typed3 = typed3  bad4 = bad4  long13 = long13
  p0 = p0  p1 = p1  p9 = p9  p10 = p10  p11 = p11  bad9 = bad9
  Null = Null
  Capacity = 20
  WordMod = 64
  Headers = {h2, h3, bad2, new3, ok2, fault4, typed3, bad4, long13}
  Payloads = {p0, p1, p9, p10, p11, bad9}
  SizeOf <- MCSizeOf
  TypeOf <- MCTypeOf
  Parsable <- MCParsable
  ServerIds = {1}
  ClientIds = {1, 2}
  Requests <- MCRequests
  Responses <- MCResponses
SPECIFICATION Spec
INVARIANTS
  TypeOK
  NoTornFrame
  FitsCapacity
  RefusedForItself
CHECK_DEADLOCK FALSE
