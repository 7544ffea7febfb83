SPECIFICATION FairSpec
CONSTANTS
  a = a
  b = b
  None = None
  Subs = {a, b}
  Unreadable = {2}
  Unmapped = {}
  Overlap = FALSE
  MaxEvents = 3
  QueueSize = 1
INVARIANTS
  TypeOK
  HandledInOrder
  AtMostOneLate
  NoThreadAbandoned
  HandledOnce
PROPERTIES
  DestructionEnds
  QueueDrains
CHECK_DEADLOCK FALSE
