\* Two mentions, one before and one after the session is paired; no fault.
CONSTANTS
  c1 = c1
  c2 = c2
  c3 = c3
  q1 = q1
  q2 = q2
  w1 = w1
  p1 = p1
  Kind <- KindOf
  Tasks = {q1, q2}
  Banter = {}
  Untrusted = {}
  Restricted = FALSE
  Configured = FALSE
  Unhinged = FALSE
  StartPaired = FALSE
  ReplyFaults = {}
  MaxTasks = 2
SPECIFICATION ReplyFairSpec
PROPERTY HeardOncePaired
CHECK_DEADLOCK FALSE
