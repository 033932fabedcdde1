\* A group message captured while a backfill runs.
CONSTANTS
  d1 = d1
  g1 = g1
  n1 = n1
  u1 = u1
  o1 = o1
  b1 = b1
  Free = Free
  ChatMessages = {g1}
  Group = {g1}
  NoId = {}
  Unmappable = {}
  OwnSent = {}
  Backfills = {b1}
  CaptureFaults = {}
  MaxMessages = 1
  MaxMishaps = 0
SPECIFICATION CaptureSpec
INVARIANT OneRowPerMessage
CHECK_DEADLOCK FALSE
