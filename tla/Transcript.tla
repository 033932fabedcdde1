----------------------------- MODULE Transcript -----------------------------
(***************************************************************************)
(* From an uploaded recording to the pieces of text that are embedded:     *)
(* GeminiTranscriber (app/voice/transcriber.py) has a long recording       *)
(* transcribed window by window and merges the answers into one timeline,  *)
(* build_voice_chunks (app/voice/voice_sessionizer.py) cuts the turns into *)
(* chunks.  Voice has all of this as two steps of an upload.               *)
(*                                                                         *)
(* What is said is the model's input, so that the transcript can be        *)
(* compared with it.  A turn that runs across the end of a window comes    *)
(* back in two parts; the input has it as two turns.                       *)
(***************************************************************************)
EXTENDS Lists, SequencesExt, FiniteSetsExt

CONSTANTS
  Recordings,    \* the recordings that may be uploaded
  WindowLength,  \* transcribe_window_seconds
  Slack,         \* seconds a window-relative end may lie past the window
  HeaderChars,   \* the chunk header with its two line breaks
  VoiceChars,    \* session_max_chunk_chars
  VoiceTurns     \* voice_segments_per_chunk

\* from, to: seconds on the recording's clock; chars: length of the display line.
Turn == [from : Nat, to : Nat, chars : Nat \ {0}]

ASSUME TranscriptAssumption ==
  /\ {Slack, HeaderChars} \subseteq Nat
  /\ {WindowLength, VoiceChars, VoiceTurns} \subseteq Nat \ {0}
  /\ \A r \in Recordings :
       /\ r.length \in Nat              \* 0: the length cannot be read
       /\ r.speech \in Seq(Turn)
       /\ \A i \in 1..Len(r.speech) :
            LET said == r.speech[i] IN
            /\ said.from <= said.to
            /\ r.length > 0 => said.to <= r.length /\ said.from < r.length
            /\ r.length > WindowLength =>
                 said.to <= ((said.from \div WindowLength) + 1) * WindowLength

\* A window is longer than the slack: half an hour and five seconds by default.
ASSUME SlackAssumption == Slack < WindowLength

VARIABLES
  recording,
  stage,       \* "hearing", "cutting", "ready", "failed", "refused" or "none"
  heard,       \* windows transcribed so far
  transcript,  \* segments: the turn, and when it is claimed to have been said
  next,        \* the segment the cutting is at
  piece,       \* segments of the chunk being collected
  filled,      \* current_len
  pieces       \* the chunks

voiceVars == <<recording, stage, heard, transcript, next, piece, filled, pieces>>

\* "failed": an answer had no segments; "refused": a request failed, or its answer
\* could not be read.
TranscriptTypeOK ==
  /\ stage \in {"hearing", "cutting", "ready", "failed", "refused", "none"}
  /\ stage # "none" => recording.length \in Nat /\ recording.speech \in Seq(Turn)
  /\ heard \in Nat
  /\ transcript \in Seq([said : Nat, from : Nat, to : Nat])
  /\ next \in Nat
  /\ piece \in Seq(Nat)
  /\ filled \in Nat
  /\ pieces \in Seq(Seq(Nat))

NothingHeard ==
  /\ heard = 0
  /\ transcript = <<>>
  /\ next = 1
  /\ piece = <<>>
  /\ filled = HeaderChars
  /\ pieces = <<>>

TranscriptInit ==
  /\ recording \in Recordings
  /\ stage = "hearing"
  /\ NothingHeard

speech == recording.speech

-----------------------------------------------------------------------------
(* The windows.                                                            *)

\* Short recordings and those of unknown length take one request.
Windowed == recording.length > WindowLength

Begin(k) == (k - 1) * WindowLength
End(k)   == Min({k * WindowLength, recording.length})

\* The turns a request for the k-th window gets back.
Spoken(k) ==
  {i \in 1..Len(speech) : Windowed => speech[i].from \in Begin(k)..End(k) - 1}

Segment(i, offset) ==
  [said |-> i, from |-> speech[i].from - offset, to |-> speech[i].to - offset]

\* Its segments on a clock that counts from offset, sorted by their beginning.
Answer(k, offset) ==
  LET segments == {Segment(i, offset) : i \in Spoken(k)} IN
  Arrange(segments,
          {pair \in segments \X segments :
             \/ pair[1].from < pair[2].from
             \/ pair[1].from = pair[2].from /\ pair[1].said < pair[2].said})

Later(segments, offset) ==
  [i \in 1..Len(segments) |->
     [said |-> segments[i].said,
      from |-> segments[i].from + offset, to |-> segments[i].to + offset]]

-----------------------------------------------------------------------------
(* Faulty variants: mistakes the properties must catch.  No specification  *)
(* below uses them.                                                        *)

\* Windows with a last one that may be empty.
WindowsAndOne ==
  IF Windowed THEN recording.length \div WindowLength + 1 ELSE 1

\* WindowRelative that forgets that the first window is on both clocks, and takes
\* the window's end for its length.
WithinWindow(segments, k) ==
  Max({segments[i].to : i \in 1..Len(segments)}) <= End(k) + Slack /\ Begin(k) > 0

\* AddTurn that counts a line after it has found room for it.
AddTurnFirst ==
  LET line == speech[transcript[next].said].chars IN
  /\ stage = "cutting"
  /\ next <= Len(transcript)
  /\ IF piece # <<>> /\ (filled > VoiceChars \/ Len(piece) >= VoiceTurns)
       THEN /\ pieces' = Append(pieces, piece)
            /\ piece' = <<next>>
            /\ filled' = HeaderChars + line
       ELSE /\ piece' = Append(piece, next)
            /\ filled' = filled + line
            /\ UNCHANGED pieces
  /\ next' = next + 1
  /\ UNCHANGED <<recording, stage, heard, transcript>>

-----------------------------------------------------------------------------
(* GeminiTranscriber.transcribe.                                           *)

Windows ==
  IF Windowed THEN (recording.length + WindowLength - 1) \div WindowLength ELSE 1

\* _offset_window_relative: does the answer for window k count from its beginning?
WindowRelative(segments, k) ==
  /\ Max({segments[i].to : i \in 1..Len(segments)}) <= End(k) - Begin(k) + Slack
  /\ Begin(k) > 0

\* The answer for the next window.  The model is told to keep the recording's clock
\* and may count from the beginning of the window all the same; the segments are
\* sorted and moved when they are taken for the latter.
HearWindow ==
  LET k == heard + 1 IN
  /\ stage = "hearing"
  /\ heard < Windows
  /\ Spoken(k) # {}
  /\ \E offset \in {0, Begin(k)} :
       LET segments == Answer(k, offset) IN
       transcript' = transcript \o IF WindowRelative(segments, k)
                                     THEN Later(segments, Begin(k)) ELSE segments
  /\ heard' = k
  /\ UNCHANGED <<recording, stage, next, piece, filled, pieces>>

\* A window without speech has no segments, which _parse_segments takes for an
\* error: the whole recording fails.
HearNothing ==
  /\ stage = "hearing"
  /\ heard < Windows
  /\ Spoken(heard + 1) = {}
  /\ stage' = "failed"
  /\ UNCHANGED <<recording, heard, transcript, next, piece, filled, pieces>>

\* The request fails, or its answer is no JSON, lacks a key, has an empty text or a
\* timestamp that cannot be parsed.
Refuse ==
  /\ stage = "hearing"
  /\ heard < Windows
  /\ stage' = "refused"
  /\ UNCHANGED <<recording, heard, transcript, next, piece, filled, pieces>>

\* The order of the segments of all windows by start; the sort is stable.
Timeline ==
  LET segments == 1..Len(transcript) IN
  Arrange(segments,
          {pair \in segments \X segments :
             \/ transcript[pair[1]].from < transcript[pair[2]].from
             \/ transcript[pair[1]].from = transcript[pair[2]].from /\ pair[1] < pair[2]})

Merge ==
  /\ stage = "hearing"
  /\ heard = Windows
  /\ transcript' = [i \in 1..Len(transcript) |-> transcript[Timeline[i]]]
  /\ stage' = "cutting"
  /\ UNCHANGED <<recording, heard, next, piece, filled, pieces>>

-----------------------------------------------------------------------------
(* build_voice_chunks.                                                     *)

\* The text of a line longer than the budget is cut.
TurnChars(s) == Min({speech[transcript[s].said].chars, VoiceChars})

AddTurn ==
  /\ stage = "cutting"
  /\ next <= Len(transcript)
  /\ IF piece # <<>> /\ (filled + TurnChars(next) > VoiceChars \/ Len(piece) >= VoiceTurns)
       THEN /\ pieces' = Append(pieces, piece)
            /\ piece' = <<next>>
            /\ filled' = HeaderChars + TurnChars(next)
       ELSE /\ piece' = Append(piece, next)
            /\ filled' = filled + TurnChars(next)
            /\ UNCHANGED pieces
  /\ next' = next + 1
  /\ UNCHANGED <<recording, stage, heard, transcript>>

\* The last flush.
EndPieces ==
  /\ stage = "cutting"
  /\ next > Len(transcript)
  /\ pieces' = IF piece = <<>> THEN pieces ELSE Append(pieces, piece)
  /\ piece' = <<>>
  /\ filled' = HeaderChars
  /\ stage' = "ready"
  /\ UNCHANGED <<recording, heard, transcript, next>>

-----------------------------------------------------------------------------

TranscriptNext ==
  \/ HearWindow \/ HearNothing \/ Refuse \/ Merge
  \/ AddTurn \/ EndPieces

TranscriptSpec == TranscriptInit /\ [][TranscriptNext]_voiceVars

-----------------------------------------------------------------------------
(* Properties.                                                             *)

\* What config.py promises: the timestamps of segments stay on the recording's own
\* timeline, so every turn is in the transcript at the time it was spoken.
TurnsKeepTheirTime ==
  stage \in {"cutting", "ready"} =>
    \A s \in 1..Len(transcript) :
      LET said == speech[transcript[s].said] IN
      transcript[s].from = said.from /\ transcript[s].to = said.to

\* What holds of it, whatever clock the model used for each window: every turn is in
\* the transcript once, and only the second window can be misplaced, and only when
\* all its speech is over in the first Slack seconds of it (TurnsKeepTheirTime does
\* not hold: times on the recording's clock then pass for times on the window's).
SpeechInPlace ==
  stage \in {"cutting", "ready"} =>
    /\ {transcript[s].said : s \in 1..Len(transcript)} = 1..Len(speech)
    /\ Len(transcript) = Len(speech)
    /\ \A s \in 1..Len(transcript) :
         LET said == speech[transcript[s].said] IN
         \/ transcript[s].from = said.from /\ transcript[s].to = said.to
         \/ /\ said.from \in WindowLength..2 * WindowLength - 1
            /\ \A i \in 1..Len(speech) :
                 speech[i].from \in WindowLength..2 * WindowLength - 1 =>
                   speech[i].to <= WindowLength + Slack

\* When every request is answered, transcription fails only for a stretch of
\* silence: a whole window, or the rest of the recording after the last full one.
FailsOnlyInSilence ==
  stage = "failed" =>
    \/ speech = <<>>
    \/ \E k \in 1..recording.length :
         /\ Begin(k) < recording.length
         /\ \A i \in 1..Len(speech) : speech[i].from \notin Begin(k)..Begin(k + 1) - 1

\* The chunks hold every segment once and in the order of the timeline.  None is
\* larger than the cap; with its header, line breaks aside, it fits the budget, or it
\* is one segment; and it ends only where the next segment would break one of the two.
PiecesCarryTheTranscript ==
  LET chars(p) == HeaderChars + Total([i \in 1..Len(p) |-> TurnChars(p[i])]) IN
  stage = "ready" =>
    /\ FlattenSeq(pieces) = [s \in 1..Len(transcript) |-> s]
    /\ \A p \in 1..Len(pieces) :
         /\ Len(pieces[p]) \in 1..VoiceTurns
         /\ Len(pieces[p]) = 1 \/ chars(pieces[p]) <= VoiceChars
         /\ p < Len(pieces) =>
              \/ Len(pieces[p]) = VoiceTurns
              \/ chars(Append(pieces[p], Head(pieces[p + 1]))) > VoiceChars
=============================================================================
