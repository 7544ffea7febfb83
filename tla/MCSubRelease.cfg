SPECIFICATION Spec
CONSTANTS
  a = a
  b = b
  None = None
  Subs = {a}
  Unreadable = {}
  Unmapped = {}
  Overlap = FALSE
  MaxEvents = 2
  QueueSize = 2
INVARIANTS
  NoUseAfterRelease
CHECK_DEADLOCK FALSE
