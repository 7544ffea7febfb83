SPECIFICATION AppSpec
CONSTANTS
  recv = recv
  app = app
  s1 = s1
  s2 = s2
  p1 = p1
  p2 = p2
  None = None
  Unknown = Unknown
  Threads = {recv, app}
  ReceiveThread = recv
  Streams = {s1, s2}
  Ops <- MCOps
  MaxSockets = 3
  Properties = {p1, p2}
  Values = {0, 1}
  Initial <- MCInitial
INVARIANTS
  AppTypeOK
  AnsweredMeansListening
  NoDeafHandler
  PublishReachesStream
  SubscribersCurrent
  ToldOnce
SYMMETRY Symmetry
CHECK_DEADLOCK FALSE
