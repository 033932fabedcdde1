\* Imports only: two files of one chat that share messages.
CONSTANTS
  MaxLength = 5
  Silences = {1, 2}
  Lengths = {0, 2, 5}
  Logs = {}
  Gap = 1
  MaxMessages = 3
  MaxChars = 4
  BatchSize = 2
  MaxAttempts = 4
  Faults = {"429", "error"}
  Days = {5, 20}
  MaxMessagesOut = 3
  Histories <- AllHistories
  DateOrders = {"MDY", "DMY"}
  SampleLines = 4
  MaxImports = 2
  Durations = {0, 3, 6, 7}
  MaxTurns = 3
  Recordings = {}
  WindowLength = 3
  Slack = 1
  HeaderChars = 1
  VoiceChars = 12
  VoiceTurns = 2
SPECIFICATION ContentSpec
INVARIANT OneRowPerExportedMessage
CHECK_DEADLOCK FALSE
