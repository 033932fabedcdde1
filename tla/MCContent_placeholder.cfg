\* One import: a lone placeholder with a line below it.
CONSTANTS
  MaxLength = 5
  Silences = {1, 2}
  Lengths = {0, 2, 5}
  Logs = {}
  Gap = 1
  MaxMessages = 3
  MaxChars = 4
  BatchSize = 2
  MaxAttempts = 4
  Faults = {"429", "error"}
  Days = {5, 20}
  MaxMessagesOut = 2
  Histories <- AllHistories
  DateOrders = {"MDY", "DMY"}
  SampleLines = 4
  MaxImports = 1
  Durations = {0, 3, 6, 7}
  MaxTurns = 3
  Recordings = {}
  WindowLength = 3
  Slack = 1
  HeaderChars = 1
  VoiceChars = 12
  VoiceTurns = 2
SPECIFICATION ContentSpec
INVARIANT LinesAreReattached
CHECK_DEADLOCK FALSE
