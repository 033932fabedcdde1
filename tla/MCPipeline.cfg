\* Every log of up to five messages (a full session of long texts needs two batches),
\* two imports from every history of up to three messages, recordings of up to three
\* windows with up to three turns; a search over three pieces, three hits each, with a
\* rebuild while it runs; and every phrase about a past of up to two messages around the
\* days, weeks, months and years that begin, with room for one session in an answer.
CONSTANTS
  MaxLength = 5
  Silences = {1, 2}
  Lengths = {0, 2, 5}
  Logs <- AllLogs
  Gap = 1
  MaxMessages = 3
  MaxChars = 4
  BatchSize = 2
  MaxAttempts = 4
  Faults = {"429", "error"}
  Days = {5, 20}
  MaxMessagesOut = 3
  Histories <- AllHistories
  DateOrders = {"MDY", "DMY"}
  SampleLines = 4
  MaxImports = 2
  Durations = {0, 3, 6, 7}
  MaxTurns = 3
  Recordings <- AllRecordings
  WindowLength = 3
  Slack = 1
  HeaderChars = 1
  VoiceChars = 12
  VoiceTurns = 2
  t1 = t1
  t2 = t2
  t3 = t3
  v1 = v1
  Texts = {t1, t3}
  Voices = {v1}
  Neutral = 2
  Weight <- WeightOf
  Trusted = {t3}
  TopK = 3
  RrfK = 60
  MaxRebuilds = 1
  Questions <- SomeQuestions
  Clocks <- SomeClocks
  Pasts <- SomePasts
  MaxListed = 1
SPECIFICATION PipelineSpec
INVARIANTS
  SessionsCoverLog
  SessionsAreMaximal
  EveryTextIsWritten
  RowsAreAligned
  EveryLineFindsItsMessage
  FilesAgreeOnRows
  SpeechInPlace
  FailsOnlyInSilence
  PiecesCarryTheTranscript
  QuotedOnce
  LostToRebuild
  FusionAgrees
  PeriodIsCovered
PROPERTIES
  RebuildEnds
  AnsweredInFull
CHECK_DEADLOCK FALSE
