\* An export or backfill that overlaps a live rebuild: duplicate rows.
CONSTANTS
  m1 = m1
  m2 = m2
  s1 = s1
  x1 = x1
  i1 = i1
  i2 = i2
  Nothing = Nothing
  Messages = {m1, m2, x1}
  Webhook = {m1, m2}
  Indexable = {m1, m2, x1}
  Undated = {}
  Imports = {i1}
  ImportFile <- BackfillFile
  Faults = {}
SPECIFICATION Spec
INVARIANT NoDuplicateSessions
CHECK_DEADLOCK FALSE
