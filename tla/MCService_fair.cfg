\* Liveness, hence the smaller bounds, and imports: two of the same message next to one
\* live task; any two of a command, a question and a clarification in the group and a
\* direct message to reply to; any two captured of a direct message and one that cannot
\* be mapped, one outage or crash, a backfill; three uploads of the same bytes; every
\* fault.
CONSTANTS
  m1 = m1
  m2 = m2
  s1 = s1
  x1 = x1
  i1 = i1
  i2 = i2
  Nothing = Nothing
  Messages = {m1, x1}
  Webhook = {m1}
  Indexable = {m1, x1}
  Undated = {}
  Imports = {i1, i2}
  ImportFile <- TwoFiles
  Faults = {"embedding", "reply", "crash"}
  t1 = t1
  t2 = t2
  k1 = k1
  k2 = k2
  Never = Never
  Threads = {t1}
  Keys = {k1}
  Window = 2
  MaxTime = 2
  c1 = c1
  c2 = c2
  c3 = c3
  q1 = q1
  q2 = q2
  w1 = w1
  p1 = p1
  Kind <- KindOf
  Tasks = {c1, q1, w1, p1}
  Banter = {q1}
  Untrusted = {}
  Restricted = TRUE
  Configured = FALSE
  Unhinged = FALSE
  StartPaired = FALSE
  ReplyFaults = {"answer", "send", "settings", "me", "lid", "crash"}
  MaxTasks = 2
  d1 = d1
  g1 = g1
  n1 = n1
  u1 = u1
  o1 = o1
  b1 = b1
  Free = Free
  ChatMessages = {d1, u1}
  Group = {}
  NoId = {}
  Unmappable = {u1}
  OwnSent = {}
  Backfills = {b1}
  CaptureFaults = {"outage", "commit", "ack", "crash"}
  MaxMessages = 2
  MaxMishaps = 1
  a1 = a1
  a2 = a2
  a3 = a3
  a4 = a4
  Uploads = {a1, a2, a3}
  File <- FileOf
  VoiceFaults = {"transcriber", "gemini", "embedding", "commit", "read", "crash"}
SPECIFICATION ServiceFairSpec
INVARIANTS
  IndexedIsStored
PROPERTIES
  EveryActorEnds
  GrantedIsReplied
  EventuallyKept
  EveryUploadEnds
CHECK_DEADLOCK FALSE
