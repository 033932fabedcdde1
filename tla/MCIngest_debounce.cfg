\* A message captured inside the debounce window of an earlier one.
CONSTANTS
  m1 = m1
  m2 = m2
  s1 = s1
  x1 = x1
  i1 = i1
  i2 = i2
  Nothing = Nothing
  Messages = {m1, m2}
  Webhook = {m1, m2}
  Indexable = {m1, m2}
  Undated = {}
  Imports = {}
  ImportFile <- NoFile
  Faults = {}
SPECIFICATION LiveFairSpec
PROPERTY CapturedIsIndexed
CHECK_DEADLOCK FALSE
