\* A direct message and an outage.
CONSTANTS
  d1 = d1
  g1 = g1
  n1 = n1
  u1 = u1
  o1 = o1
  b1 = b1
  Free = Free
  ChatMessages = {d1}
  Group = {}
  NoId = {}
  Unmappable = {}
  OwnSent = {}
  Backfills = {}
  CaptureFaults = {"outage"}
  MaxMessages = 1
  MaxMishaps = 1
SPECIFICATION CaptureSpec
INVARIANT NothingIsLost
CHECK_DEADLOCK FALSE
