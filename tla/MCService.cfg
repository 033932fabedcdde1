\* No liveness, hence the larger bounds.  Three webhook messages, one without a timestamp;
\* two threads that ask for a reply in two chats, a window of 2 ticks, 5 ticks of time; any
\* three of six messages to reply to, c3 by an untrusted author; any two of four messages
\* captured, one outage or crash, a backfill; three uploads of the same bytes; every fault.
CONSTANTS
  m1 = m1
  m2 = m2
  s1 = s1
  x1 = x1
  i1 = i1
  i2 = i2
  Nothing = Nothing
  Messages = {m1, m2, s1}
  Webhook = {m1, m2, s1}
  Indexable = {m1, m2}
  Undated = {s1}
  Imports = {}
  ImportFile <- NoFile
  Faults = {"embedding", "reply", "crash"}
  t1 = t1
  t2 = t2
  k1 = k1
  k2 = k2
  Never = Never
  Threads = {t1, t2}
  Keys = {k1, k2}
  Window = 2
  MaxTime = 5
  c1 = c1
  c2 = c2
  c3 = c3
  q1 = q1
  q2 = q2
  w1 = w1
  p1 = p1
  Kind <- KindOf
  Tasks = {c1, c2, c3, q1, w1, p1}
  Banter = {q1}
  Untrusted = {c3}
  Restricted = TRUE
  Configured = FALSE
  Unhinged = FALSE
  StartPaired = FALSE
  ReplyFaults = {"answer", "send", "settings", "me", "lid", "crash"}
  MaxTasks = 3
  d1 = d1
  g1 = g1
  n1 = n1
  u1 = u1
  o1 = o1
  b1 = b1
  Free = Free
  ChatMessages = {d1, g1, u1, o1}
  Group = {g1}
  NoId = {}
  Unmappable = {u1}
  OwnSent = {o1}
  Backfills = {b1}
  CaptureFaults = {"outage", "commit", "ack", "crash"}
  MaxMessages = 2
  MaxMishaps = 1
  a1 = a1
  a2 = a2
  a3 = a3
  a4 = a4
  Uploads = {a1, a2, a3}
  File <- FileOf
  VoiceFaults = {"transcriber", "gemini", "embedding", "commit", "read", "crash"}
SPECIFICATION DailySpec
INVARIANTS
  CursorSound
  FinishedTaskVouches
  RebuildsSerialized
  GrantsSpaced
  DenialsJustified
  NothingAnsweredTwice
  ConfirmedWasStored
  LimitedBehindAQuestion
  IgnoredAfterVainLookup
  TasksAtMostOnce
  TasksOnStored
  KeptOrDropped
  OneRecording
  TranscribedOnce
  AnswerIsTrue
  SearchableIsTranscribed
PROPERTIES
  SearchableStays
  ImplementsSearchIndex
  LockdownHolds
CHECK_DEADLOCK FALSE
