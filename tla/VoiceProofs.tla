----------------------------- MODULE VoiceProofs -----------------------------
(***************************************************************************)
(* What holds of voice uploads for any number of uploads and files.        *)
(* Everything rests on OpenIsWorking and RowIsAlone: the row an upload has *)
(* inserted and not committed stands for its bytes, because the unique     *)
(* index lets nobody else insert or commit them meanwhile.  So the uploads *)
(* implement Library, where recordings are stored in single steps.         *)
(***************************************************************************)
EXTENDS Voice, TLAPS

\* An open transaction is an upload at work.
OpenIsWorking == \A u \in Uploads : u \in open <=> upload[u] \in Working

\* While it is open there is neither a second one nor a committed row.
RowIsAlone ==
  \A u \in open : ~ Taken(u) /\ \A v \in open : File[v] = File[u] => v = u

\* A committed row belongs to an upload that is past its work, and what is still
\* to be answered has been committed with its chunks.
RowIsPast ==
  /\ \A u \in recordings : upload[u] \in {"failing", "responding", "correcting"} \union UploadEnded
  /\ \A u \in Uploads : upload[u] \in {"responding", "correcting"} => u \in chunks /\ status[u] = "done"

VInv ==
  /\ VoiceTypeOK
  /\ OpenIsWorking
  /\ RowIsAlone
  /\ RowIsPast
  /\ OneRecording
  /\ AnswerIsTrue
  /\ SearchableIsTranscribed

-----------------------------------------------------------------------------

\* Nothing is uploaded at first.
LEMMA InitVInv == VoiceInit => VInv
BY DEF VoiceInit, VInv, VoiceTypeOK, OpenIsWorking, RowIsAlone, RowIsPast, OneRecording,
       AnswerIsTrue, SearchableIsTranscribed, Working, Uploading, UploadEnded

\* Transcribing and embedding, or failing to start, change neither the rows nor the chunks, and an
\* error closes the transaction.
LEMMA WorkStep ==
  ASSUME VInv, NEW u \in Uploads, GetTranscriber(u) \/ Transcribe(u) \/ Embed(u)
  PROVE  VInv'
<1> USE DEF UploadTo, FailUpload, Working, Uploading, UploadEnded
<1>1. /\ upload[u] \in Working /\ u \in open /\ u \notin recordings
      /\ upload' = [upload EXCEPT ![u] = upload'[u]]
      /\ \/ upload'[u] \in Working /\ UNCHANGED <<open, transcript>>
         \/ upload'[u] = "raised" /\ open' = open \ {u} /\ UNCHANGED transcript
         \/ /\ upload'[u] = "failing" /\ open' = open \ {u}
            /\ \E kept \in {"raw", "none"} : transcript' = [transcript EXCEPT ![u] = kept]
      /\ UNCHANGED <<recordings, status, chunks>>
  BY DEF VInv, VoiceTypeOK, OpenIsWorking, RowIsPast, GetTranscriber, Transcribe, Embed
<1>2. VoiceTypeOK'
  BY <1>1 DEF VInv, VoiceTypeOK
<1>3. OpenIsWorking' /\ RowIsPast'
  BY <1>1 DEF VInv, VoiceTypeOK, OpenIsWorking, RowIsPast
<1>4. RowIsAlone'
  BY <1>1 DEF VInv, RowIsAlone, Taken, Same
<1>5. OneRecording'
  BY <1>1 DEF VInv, OneRecording
<1>6. AnswerIsTrue'
  BY <1>1 DEF VInv, VoiceTypeOK, AnswerIsTrue, Taken, Same
<1>7. SearchableIsTranscribed'
  BY <1>1 DEF VInv, VoiceTypeOK, SearchableIsTranscribed
<1> QED BY <1>2, <1>3, <1>4, <1>5, <1>6, <1>7 DEF VInv

\* A step that adds at most its own row, when no row and no open transaction has
\* the same bytes, keeps recordings unique.
LEMMA AddRow ==
  ASSUME VInv, NEW u \in Uploads, ~ Taken(u),
         (open \intersect Same(u)) \ {u} = {},
         recordings' \in {recordings, recordings \union {u}}, open' = open \ {u}
  PROVE  OneRecording' /\ RowIsAlone'
BY DEF VInv, VoiceTypeOK, OneRecording, RowIsAlone, Taken, Same

\* A commit adds the only row of a recording.
LEMMA CommitStep ==
  ASSUME VInv, NEW u \in Uploads, CommitRecording(u)
  PROVE  VInv'
<1> USE DEF UploadTo, Working, Uploading, UploadEnded
<1>1. u \in open /\ u \notin recordings /\ ~ Taken(u)
  BY DEF VInv, VoiceTypeOK, OpenIsWorking, RowIsAlone, RowIsPast, CommitRecording
<1>2. (open \intersect Same(u)) \ {u} = {}
  BY <1>1 DEF VInv, RowIsAlone, Same
<1>3. recordings' \in {recordings, recordings \union {u}} /\ open' = open \ {u}
  BY DEF CommitRecording
<1>4. OneRecording' /\ RowIsAlone'
  BY <1>1, <1>2, <1>3, AddRow
<1>5. VoiceTypeOK'
  BY DEF VInv, VoiceTypeOK, CommitRecording
<1>6. OpenIsWorking' /\ RowIsPast'
  BY DEF VInv, VoiceTypeOK, OpenIsWorking, RowIsPast, CommitRecording
<1>7. AnswerIsTrue'
  BY <1>3 DEF VInv, VoiceTypeOK, AnswerIsTrue, Taken, Same, CommitRecording
<1>8. SearchableIsTranscribed'
  BY <1>1 DEF VInv, VoiceTypeOK, SearchableIsTranscribed, CommitRecording
<1> QED BY <1>4, <1>5, <1>6, <1>7, <1>8 DEF VInv

\* So does the row of a recording that failed.
LEMMA SaveFailedStep ==
  ASSUME VInv, NEW u \in Uploads, SaveFailed(u)
  PROVE  VInv'
<1> USE DEF UploadTo, Working, Uploading, UploadEnded
<1>1. u \notin open /\ open' = open /\ upload[u] = "failing"
  BY DEF VInv, VoiceTypeOK, OpenIsWorking, SaveFailed
<1>2. OneRecording' /\ RowIsAlone'
  <2>1. CASE recordings' = recordings
    BY <1>1, <2>1 DEF VInv, OneRecording, RowIsAlone, Taken, Same
  <2>2. CASE recordings' # recordings
    BY <1>1, <2>2, AddRow DEF SaveFailed, CanDecide
  <2> QED BY <2>1, <2>2
<1>3. VoiceTypeOK'
  BY DEF VInv, VoiceTypeOK, SaveFailed
<1>4. OpenIsWorking' /\ RowIsPast'
  BY DEF VInv, VoiceTypeOK, OpenIsWorking, RowIsPast, SaveFailed
<1>5. AnswerIsTrue'
  BY DEF VInv, VoiceTypeOK, AnswerIsTrue, Taken, Same, SaveFailed
<1>6. SearchableIsTranscribed'
  <2>1. UNCHANGED <<chunks, transcript>>
    BY DEF SaveFailed
  <2>2. \A v \in recordings' : status'[v] = "done" => v \in recordings /\ status[v] = "done"
    BY DEF VInv, VoiceTypeOK, SaveFailed
  <2>3. recordings \subseteq recordings'
    BY DEF SaveFailed
  <2> QED BY <2>1, <2>2, <2>3 DEF VInv, SearchableIsTranscribed
<1> QED BY <1>2, <1>3, <1>4, <1>5, <1>6 DEF VInv

\* The other steps leave rows, chunks and transcripts alone.
LEMMA OtherStep ==
  ASSUME VInv, NEW u \in Uploads, FindRecording(u) \/ Insert(u) \/ Respond(u) \/ Correct(u)
  PROVE  VInv'
<1> USE DEF UploadTo, Working, Uploading, UploadEnded
<1>1. UNCHANGED <<recordings, chunks, transcript>>
  BY DEF FindRecording, Insert, Respond, Correct
<1>2. VoiceTypeOK'
  BY DEF VInv, VoiceTypeOK, FindRecording, Insert, Respond, Correct
<1>3. OpenIsWorking' /\ RowIsPast'
  BY DEF VInv, VoiceTypeOK, OpenIsWorking, RowIsPast, FindRecording, Insert, Respond, Correct
<1>4. RowIsAlone'
  BY DEF VInv, VoiceTypeOK, RowIsAlone, CanDecide, Taken, Same, FindRecording, Insert, Respond, Correct
<1>5. OneRecording'
  BY <1>1 DEF VInv, OneRecording
<1>6. AnswerIsTrue'
  <2>1. CASE FindRecording(u) \/ Insert(u)
    BY <1>1, <2>1 DEF VInv, VoiceTypeOK, AnswerIsTrue, Taken, Same, FindRecording, Insert
  <2>2. CASE Respond(u) \/ Correct(u)
    <3>1. u \in recordings
      BY <2>2 DEF VInv, VoiceTypeOK, RowIsPast, SearchableIsTranscribed, Respond, Correct
    <3>2. \A v \in Uploads \ {u} : upload'[v] = upload[v] /\ status'[v] = status[v]
      BY <2>2 DEF VInv, VoiceTypeOK, Respond, Correct
    <3>3. /\ upload'[u] = "ok" => status'[u] = "done"
          /\ upload'[u] = "refused" => status'[u] = "failed"
          /\ upload'[u] # "duplicate"
      BY <2>2 DEF VInv, VoiceTypeOK, RowIsPast, Respond, Correct
    <3> QED BY <1>1, <3>1, <3>2, <3>3 DEF VInv, AnswerIsTrue, Taken, Same
  <2> QED BY <2>1, <2>2
<1>7. SearchableIsTranscribed'
  BY <1>1 DEF VInv, VoiceTypeOK, RowIsPast, SearchableIsTranscribed, FindRecording, Insert, Respond, Correct
<1> QED BY <1>2, <1>3, <1>4, <1>5, <1>6, <1>7 DEF VInv

\* A crash ends the uploads that were open and keeps the rows.
LEMMA CrashStep == VInv /\ VoiceCrash => VInv'
BY DEF VInv, VoiceTypeOK, OpenIsWorking, RowIsAlone, RowIsPast, OneRecording, AnswerIsTrue,
       SearchableIsTranscribed, VoiceCrash, Taken, Same, Working, Uploading, UploadEnded

\* Every step keeps the invariant.
LEMMA NextVInv == VInv /\ [VoiceNext]_uploadVars => VInv'
<1> SUFFICES ASSUME VInv, [VoiceNext]_uploadVars PROVE VInv'
  OBVIOUS
<1>1. CASE UNCHANGED uploadVars
  BY <1>1 DEF uploadVars, VInv, VoiceTypeOK, OpenIsWorking, RowIsAlone, RowIsPast, OneRecording,
              AnswerIsTrue, SearchableIsTranscribed, Taken, Same
<1>2. CASE VoiceCrash
  BY <1>2, CrashStep
<1>3. ASSUME NEW u \in Uploads, FindRecording(u) \/ UploadStep(u)
      PROVE  VInv'
  BY <1>3, WorkStep, CommitStep, SaveFailedStep, OtherStep DEF UploadStep
<1> QED BY <1>1, <1>2, <1>3 DEF VoiceNext

-----------------------------------------------------------------------------

\* Every reachable state of the uploads satisfies the inductive invariant, its
\* types among it (app/routes_voice.py:103-217).
THEOREM Inductive == VoiceSpec => []VInv
BY InitVInv, NextVInv, PTL DEF VoiceSpec

\* The types declared for the uploads' state.
THEOREM TypeCorrect == VoiceSpec => []VoiceTypeOK
<1>1. VInv => VoiceTypeOK
  BY DEF VInv
<1> QED BY <1>1, Inductive, PTL

\* However many uploads of the same bytes overlap, fail, roll back and insert
\* again: one recording (the unique sha256 of routes_voice.py:126-145).
THEOREM RecordingsAreUnique == VoiceSpec => []OneRecording
<1>1. VInv => OneRecording
  BY DEF VInv
<1> QED BY <1>1, Inductive, PTL

\* The flush before the transcription (routes_voice.py:145) keeps everybody else
\* from transcribing the same bytes.
THEOREM BytesAreTranscribedOnce == VoiceSpec => []TranscribedOnce
<1>1. VInv => TranscribedOnce
  BY DEF VInv, OpenIsWorking, RowIsAlone, TranscribedOnce, Same
<1> QED BY <1>1, Inductive, PTL

\* However uploads of the same bytes overlap, are rolled back and inserted again,
\* an answer that names a recording is true of the committed rows
\* (routes_voice.py:134-135, 183 and the handlers of 185-217).
THEOREM AnswersAreTrue == VoiceSpec => []AnswerIsTrue
<1>1. VInv => AnswerIsTrue
  BY DEF VInv
<1> QED BY <1>1, Inductive, PTL

\* Searchable chunks belong to a recording with a transcript, and a done recording
\* has chunks (routes_voice.py:172-178 and 210-217).
THEOREM SearchableHasTranscript == VoiceSpec => []SearchableIsTranscribed
<1>1. VInv => SearchableIsTranscribed
  BY DEF VInv
<1> QED BY <1>1, Inductive, PTL

-----------------------------------------------------------------------------
(* Uploads come to a library.                                              *)

\* A stored recording is done or failed, and done while its upload is answered.
Settled ==
  /\ \A u \in recordings : status[u] \in {"done", "failed"}
  /\ \A u \in Uploads : upload[u] \in {"responding", "correcting"} => status[u] = "done"

\* Nothing is stored at first.
LEMMA InitSettled == VoiceInit => Settled
BY DEF VoiceInit, Settled

\* The status is written with the row, and again only by the upload's own correction.
LEMMA SettledStep == VInv /\ Settled /\ [VoiceNext]_uploadVars => Settled'
<1> SUFFICES ASSUME VInv, Settled, [VoiceNext]_uploadVars PROVE Settled'
  OBVIOUS
<1> USE DEF VInv, VoiceTypeOK, UploadTo, Settled
<1>1. CASE UNCHANGED uploadVars
  BY <1>1 DEF uploadVars
<1>2. CASE VoiceCrash
  BY <1>2 DEF VoiceCrash, Uploading, Working
<1>3. ASSUME NEW u \in Uploads, FindRecording(u) \/ Insert(u) \/ Respond(u)
      PROVE  Settled'
  BY <1>3 DEF FindRecording, Insert, Respond
<1>4. ASSUME NEW u \in Uploads, GetTranscriber(u) \/ Transcribe(u) \/ Embed(u)
      PROVE  Settled'
  BY <1>4 DEF GetTranscriber, Transcribe, Embed, FailUpload
<1>5. ASSUME NEW u \in Uploads, CommitRecording(u)
      PROVE  Settled'
  BY <1>5 DEF CommitRecording
<1>6. ASSUME NEW u \in Uploads, Correct(u)
      PROVE  Settled'
  BY <1>6 DEF Correct
<1>7. ASSUME NEW u \in Uploads, SaveFailed(u)
      PROVE  Settled'
  <2>1. CASE UNCHANGED <<recordings, status>>
    <3>1. \A v \in Uploads : upload'[v] = upload[v] \/ upload'[v] \in {"refused", "raised"}
      BY <1>7 DEF SaveFailed
    <3>2. QED
      BY <2>1, <3>1
  <2>2. CASE recordings' = recordings \union {u} /\ status' = [status EXCEPT ![u] = "failed"]
    <3>1. /\ upload'[u] \in {"refused", "raised"}
          /\ \A v \in Uploads \ {u} : upload'[v] = upload[v] /\ status'[v] = status[v]
      BY <1>7, <2>2 DEF SaveFailed
    <3>2. status'[u] = "failed"
      BY <2>2
    <3>3. QED
      BY <2>2, <3>1, <3>2
  <2>3. QED
    BY <1>7, <2>1, <2>2 DEF SaveFailed
<1>8. QED
  BY <1>1, <1>2, <1>3, <1>4, <1>5, <1>6, <1>7 DEF VoiceNext, UploadStep

\* At first the library is empty.
LEMMA OwnerInit == VoiceInit => Owner!Init
BY DEF VoiceInit, Owner!Init, FilesOf

\* Rows and their status decide what the library holds; other steps leave it as it is.
LEMMA OwnerSame ==
  ASSUME UNCHANGED <<recordings, status, chunks>>
  PROVE  UNCHANGED Owner!vars
BY DEF Owner!vars, FilesOf

\* A row whose status changes from done to failed moves its bytes, and nothing else.
LEMMA OwnerCorrect ==
  ASSUME VInv, Settled, NEW u \in recordings, status[u] = "done",
         status' = [status EXCEPT ![u] = "failed"], UNCHANGED <<recordings, chunks>>
  PROVE  Owner!Downgrade(File[u])
<1>1. /\ u \in Uploads /\ recordings \subseteq Uploads
      /\ \A v \in recordings : File[v] = File[u] => v = u
  BY DEF VInv, VoiceTypeOK, OneRecording
<1>2. status'[u] = "failed" /\ \A v \in recordings \ {u} : status'[v] = status[v]
  BY <1>1 DEF VInv, VoiceTypeOK
<1>3. \A b : b \in FilesOf({v \in recordings : status'[v] = "done"})
              <=> b \in FilesOf({v \in recordings : status[v] = "done"}) \ {File[u]}
  BY <1>1, <1>2 DEF FilesOf
<1>4. \A b : b \in FilesOf({v \in recordings : status'[v] = "failed"})
              <=> b \in FilesOf({v \in recordings : status[v] = "failed"}) \union {File[u]}
  BY <1>1, <1>2 DEF FilesOf
<1>5. File[u] \in FilesOf({v \in recordings : status[v] = "done"})
  BY DEF FilesOf
<1>6. UNCHANGED FilesOf(chunks)
  BY DEF FilesOf
<1>7. QED
  BY <1>3, <1>4, <1>5, <1>6 DEF Owner!Downgrade, FilesOf

\* A new row of bytes without one adds them to the done or to the failed.
LEMMA OwnerStore ==
  ASSUME VInv, Settled, NEW u \in Uploads, ~ Taken(u),
         recordings' = recordings \union {u},
         \/ status' = [status EXCEPT ![u] = "done"] /\ chunks' = chunks \union {u}
         \/ status' = [status EXCEPT ![u] = "failed"] /\ UNCHANGED chunks
  PROVE  Owner!Publish(File[u]) \/ Owner!Shelve(File[u])
<1>1. recordings \subseteq Uploads /\ chunks \subseteq recordings /\ \A v \in recordings : File[v] # File[u]
  BY DEF VInv, VoiceTypeOK, SearchableIsTranscribed, Taken, Same
<1>2. u \notin recordings /\ \A v \in recordings : status'[v] = status[v]
  BY <1>1 DEF VInv, VoiceTypeOK
<1>3. /\ File[u] \notin FilesOf({v \in recordings : status[v] = "done"})
      /\ File[u] \notin FilesOf({v \in recordings : status[v] = "failed"})
      /\ File[u] \notin FilesOf(chunks)
  BY <1>1 DEF FilesOf
<1>4. CASE status' = [status EXCEPT ![u] = "done"] /\ chunks' = chunks \union {u}
  <2>1. status'[u] = "done"
    BY <1>4 DEF VInv, VoiceTypeOK
  <2>2. {v \in recordings' : status'[v] = "done"} = {v \in recordings : status[v] = "done"} \union {u}
    BY <1>2, <2>1
  <2>3. {v \in recordings' : status'[v] = "failed"} = {v \in recordings : status[v] = "failed"}
    BY <1>2, <2>1
  <2>4. Owner!Publish(File[u])
    BY <1>3, <1>4, <2>2, <2>3 DEF Owner!Publish, FilesOf
  <2>5. QED
    BY <2>4
<1>5. CASE status' = [status EXCEPT ![u] = "failed"] /\ UNCHANGED chunks
  <2>1. status'[u] = "failed"
    BY <1>5 DEF VInv, VoiceTypeOK
  <2>2. {v \in recordings' : status'[v] = "failed"} = {v \in recordings : status[v] = "failed"} \union {u}
    BY <1>2, <2>1
  <2>3. {v \in recordings' : status'[v] = "done"} = {v \in recordings : status[v] = "done"}
    BY <1>2, <2>1
  <2>4. Owner!Shelve(File[u])
    BY <1>3, <1>5, <2>2, <2>3 DEF Owner!Shelve, FilesOf
  <2>5. QED
    BY <2>4
<1>6. QED
  BY <1>4, <1>5

\* Every step of an upload stores, downgrades or is invisible.
LEMMA OwnerStep ==
  ASSUME VInv, Settled, [VoiceNext]_uploadVars
  PROVE  [Owner!Next]_(Owner!vars)
<1> DEFINE Goal == [Owner!Next]_(Owner!vars)
<1>1. \A u \in Uploads : File[u] \in FilesOf(Uploads)
  BY DEF FilesOf
<1>2. ASSUME UNCHANGED <<recordings, status, chunks>> PROVE Goal
  BY <1>2, OwnerSame
<1>3. ASSUME NEW u \in Uploads, ~ Taken(u),
             recordings' = recordings \union {u},
             \/ status' = [status EXCEPT ![u] = "done"] /\ chunks' = chunks \union {u}
             \/ status' = [status EXCEPT ![u] = "failed"] /\ UNCHANGED chunks
      PROVE  Goal
  <2>1. Owner!Publish(File[u]) \/ Owner!Shelve(File[u])
    BY <1>3, OwnerStore
  <2>2. QED
    BY <1>1, <2>1 DEF Owner!Next
<1>4. ASSUME NEW u \in Uploads, CommitRecording(u) PROVE Goal
  <2>1. ~ Taken(u)
    BY <1>4 DEF CommitRecording, VInv, OpenIsWorking, RowIsAlone, Working
  <2>2. CASE UNCHANGED <<recordings, status, chunks>>
    BY <1>2, <2>2
  <2>3. CASE /\ recordings' = recordings \union {u}
             /\ chunks' = chunks \union {u}
             /\ status' = [status EXCEPT ![u] = "done"]
    BY <1>3, <2>1, <2>3
  <2>4. QED
    BY <1>4, <2>2, <2>3 DEF CommitRecording
<1>5. ASSUME NEW u \in Uploads, Correct(u) PROVE Goal
  <2>1. u \in recordings /\ status[u] = "done" /\ UNCHANGED <<recordings, chunks>>
    BY <1>5 DEF Correct, VInv, RowIsPast, SearchableIsTranscribed, Settled
  <2>2. CASE status' = [status EXCEPT ![u] = "done"]
    <3>1. UNCHANGED status
      BY <2>1, <2>2 DEF VInv, VoiceTypeOK
    <3>2. QED
      BY <1>2, <2>1, <3>1
  <2>3. CASE status' = [status EXCEPT ![u] = "failed"]
    <3>1. Owner!Downgrade(File[u])
      BY <2>1, <2>3, OwnerCorrect
    <3>2. QED
      BY <1>1, <3>1 DEF Owner!Next
  <2>4. QED
    BY <1>5, <2>2, <2>3 DEF Correct
<1>6. ASSUME NEW u \in Uploads, SaveFailed(u) PROVE Goal
  <2>1. CASE UNCHANGED <<recordings, status>>
    BY <1>2, <1>6, <2>1 DEF SaveFailed
  <2>2. CASE ~ Taken(u) /\ recordings' = recordings \union {u} /\ status' = [status EXCEPT ![u] = "failed"]
    BY <1>3, <1>6, <2>2 DEF SaveFailed
  <2>3. QED
    BY <1>6, <2>1, <2>2 DEF SaveFailed
<1>7. ASSUME NEW u \in Uploads,
             FindRecording(u) \/ Insert(u) \/ GetTranscriber(u) \/ Transcribe(u) \/ Embed(u)
               \/ Respond(u)
      PROVE  Goal
  <2>1. UNCHANGED <<recordings, status, chunks>>
    BY <1>7 DEF FindRecording, Insert, GetTranscriber, Transcribe, Embed, Respond
  <2>2. QED
    BY <1>2, <2>1
<1>8. CASE VoiceCrash \/ UNCHANGED uploadVars
  <2>1. UNCHANGED <<recordings, status, chunks>>
    BY <1>8 DEF VoiceCrash, uploadVars
  <2>2. QED
    BY <1>2, <2>1
<1>9. QED
  BY <1>4, <1>5, <1>6, <1>7, <1>8 DEF VoiceNext, UploadStep

\* Refinement: however uploads of the same bytes overlap and whatever fails, bytes that
\* were stored stay stored, once, and those that were searchable stay searchable.
THEOREM VoiceImplementsLibrary == VoiceSpec => ImplementsLibrary
<1>1. VoiceSpec => []Settled
  BY Inductive, InitSettled, SettledStep, PTL DEF VoiceSpec
<1>2. QED
  BY <1>1, Inductive, OwnerInit, OwnerStep, PTL DEF VoiceSpec, ImplementsLibrary, Owner!Spec
=============================================================================
