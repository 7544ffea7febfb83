SPECIFICATION FairSpec
CONSTANTS
  c1 = c1
  c2 = c2
  None = None
  Commands = {c1, c2}
  MaxBuffers = 3
  MaxRequests = 2
INVARIANTS
  TypeOK
  BuffersLive
  AnswersOwnRequest
  FlagsAgree
  AtMostOneAfterStop
PROPERTY
  DestructorEnds
CHECK_DEADLOCK FALSE
