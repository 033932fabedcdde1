-------------------------------- MODULE Voice --------------------------------
(***************************************************************************)
(* Voice uploads (POST /voice/upload, app/routes_voice.py).  An upload     *)
(* inserts the recordings row before the long transcription and commits it *)
(* after the embedding, so the unique sha256 makes a concurrent upload of  *)
(* the same bytes wait for that transaction.  After a failure the insert   *)
(* is rolled back and tried again with status "failed".                    *)
(*                                                                         *)
(* An upload is a thread of its own; the row it may write is named after   *)
(* it.  Bytes refused before the database is asked (too large, empty, of   *)
(* an unsupported type) are left out: they touch no state.                 *)
(***************************************************************************)
EXTENDS FiniteSets

CONSTANTS
  Uploads,      \* upload requests
  File,         \* the bytes each of them carries
  VoiceFaults   \* subset of the faults named below

ASSUME VoiceAssumption ==
  VoiceFaults \subseteq {"transcriber", "gemini", "embedding", "commit", "read", "crash"}

VARIABLES
  upload,       \* where each upload is
  recordings,   \* committed recordings
  open,         \* uploads whose open transaction has inserted their row
  status,       \* status of a row
  transcript,   \* raw_transcript_json of a row, or what will go there
  chunks        \* recordings whose chunks are committed

uploadVars == <<upload, recordings, open, status, transcript, chunks>>

Working     == {"inserted", "transcribing", "transcribed", "embedded"}
Uploading   == Working \union {"new", "failing", "responding", "correcting"}
UploadEnded == {"ok", "duplicate", "refused", "raised", "lost"}

VoiceTypeOK ==
  /\ upload \in [Uploads -> {"idle"} \union Uploading \union UploadEnded]
  /\ recordings \subseteq Uploads
  /\ open \subseteq Uploads
  /\ status \in [Uploads -> {"pending", "done", "failed"}]
  /\ transcript \in [Uploads -> {"none", "raw", "full"}]
  /\ chunks \subseteq Uploads

VoiceInit ==
  /\ upload = [u \in Uploads |-> "idle"]
  /\ recordings = {}
  /\ open = {}
  /\ status = [u \in Uploads |-> "pending"]
  /\ transcript = [u \in Uploads |-> "none"]
  /\ chunks = {}

UploadTo(u, phase) == upload' = [upload EXCEPT ![u] = phase]

Same(u) == {v \in Uploads : File[v] = File[u]}

\* The unique index on sha256: an INSERT waits for an open transaction with the
\* same value, and is refused when a committed row has it.
CanDecide(u) == (open \intersect Same(u)) \ {u} = {}
Taken(u)     == recordings \intersect Same(u) # {}

-----------------------------------------------------------------------------
(* Faulty variants: mistakes the properties must catch.  No specification  *)
(* below uses them.                                                        *)

\* Insert that commits nothing and holds nothing: the row is only added later.
InsertLater(u) ==
  /\ upload[u] = "new"
  /\ ~ Taken(u)
  /\ UploadTo(u, "inserted")
  /\ UNCHANGED <<recordings, open, status, transcript, chunks>>

\* SaveFailed on a table without the unique index.
SaveAnyFailed(u) ==
  /\ upload[u] = "failing"
  /\ recordings' = recordings \union {u}
  /\ status' = [status EXCEPT ![u] = "failed"]
  /\ UploadTo(u, "refused")
  /\ UNCHANGED <<open, transcript, chunks>>

\* SaveFailed that answers the error without saving the row.
AnswerFailed(u) ==
  /\ upload[u] = "failing"
  /\ UploadTo(u, "refused")
  /\ UNCHANGED <<recordings, open, status, transcript, chunks>>

\* CommitRecording without the row's transcript.
CommitChunks(u) ==
  /\ upload[u] = "embedded"
  /\ recordings' = recordings \union {u}
  /\ chunks' = chunks \union {u}
  /\ status' = [status EXCEPT ![u] = "done"]
  /\ open' = open \ {u}
  /\ UploadTo(u, "responding")
  /\ UNCHANGED transcript

\* Transcribe that does not roll back after an error.
TranscribeOpen(u) ==
  /\ upload[u] = "transcribing"
  /\ \/ UploadTo(u, "transcribed")
     \/ "gemini" \in VoiceFaults /\ UploadTo(u, "failing")
  /\ UNCHANGED <<recordings, open, status, transcript, chunks>>

-----------------------------------------------------------------------------
(* voice_upload.                                                           *)

\* Identical bytes return the existing row, whatever its status and its chat.
\* Counting its chunks may fail: 500.
FindRecording(u) ==
  /\ upload[u] = "idle"
  /\ \/ ~ Taken(u) /\ UploadTo(u, "new")
     \/ Taken(u) /\ UploadTo(u, "duplicate")
     \/ Taken(u) /\ "read" \in VoiceFaults /\ UploadTo(u, "raised")
  /\ UNCHANGED <<recordings, open, status, transcript, chunks>>

\* The flush, before anything catches exceptions: a refusal is a plain 500.
Insert(u) ==
  /\ upload[u] = "new"
  /\ CanDecide(u)
  /\ IF Taken(u)
       THEN UploadTo(u, "raised") /\ UNCHANGED open
       ELSE UploadTo(u, "inserted") /\ open' = open \union {u}
  /\ UNCHANGED <<recordings, status, transcript, chunks>>

\* get_transcriber is outside the try as well: when the client cannot be made, the
\* answer is a plain 500, the insert is rolled back and no failed row is saved.
GetTranscriber(u) ==
  /\ upload[u] = "inserted"
  /\ \/ UploadTo(u, "transcribing") /\ UNCHANGED open
     \/ /\ "transcriber" \in VoiceFaults
        /\ UploadTo(u, "raised")
        /\ open' = open \ {u}
  /\ UNCHANGED <<recordings, status, transcript, chunks>>

\* An exception handler rolls back first, and keeps what the exception carries.
FailUpload(u, kept) ==
  /\ UploadTo(u, "failing")
  /\ open' = open \ {u}
  /\ transcript' = [transcript EXCEPT ![u] = kept]

\* A malformed response is raised with its raw text; a timestamp that cannot be
\* parsed, a failed request and any other exception carry none.
Transcribe(u) ==
  /\ upload[u] = "transcribing"
  /\ \/ /\ UploadTo(u, "transcribed")
        /\ UNCHANGED <<open, transcript>>
     \/ /\ "gemini" \in VoiceFaults
        /\ \E kept \in {"raw", "none"} : FailUpload(u, kept)
  /\ UNCHANGED <<recordings, status, chunks>>

\* An embedding error drops the transcript: it was not on the row yet.
Embed(u) ==
  /\ upload[u] = "transcribed"
  /\ \/ /\ UploadTo(u, "embedded")
        /\ UNCHANGED <<open, transcript>>
     \/ /\ "embedding" \in VoiceFaults
        /\ FailUpload(u, "none")
  /\ UNCHANGED <<recordings, status, chunks>>

\* Row, transcript and chunks are committed together.  A COMMIT that reports an
\* error may have succeeded; the row in memory keeps its transcript.
CommitRecording(u) ==
  /\ upload[u] = "embedded"
  /\ open' = open \ {u}
  /\ transcript' = [transcript EXCEPT ![u] = "full"]
  /\ \/ /\ recordings' = recordings \union {u}
        /\ chunks' = chunks \union {u}
        /\ status' = [status EXCEPT ![u] = "done"]
        /\ UploadTo(u, "responding") \/ ("commit" \in VoiceFaults /\ UploadTo(u, "failing"))
     \/ /\ "commit" \in VoiceFaults
        /\ UploadTo(u, "failing")
        /\ UNCHANGED <<recordings, chunks, status>>

\* The answer counts the chunks inside the same try: when that fails, the row
\* that is already committed as done is set to failed.
Respond(u) ==
  /\ upload[u] = "responding"
  /\ UploadTo(u, "ok") \/ ("read" \in VoiceFaults /\ UploadTo(u, "correcting"))
  /\ UNCHANGED <<recordings, open, status, transcript, chunks>>

Correct(u) ==
  /\ upload[u] = "correcting"
  /\ \/ /\ status' = [status EXCEPT ![u] = "failed"]
        /\ UploadTo(u, "refused")
     \/ /\ "commit" \in VoiceFaults
        /\ \E value \in {"done", "failed"} : status' = [status EXCEPT ![u] = value]
        /\ UploadTo(u, "raised")
  /\ UNCHANGED <<recordings, open, transcript, chunks>>

\* The second INSERT, after the rollback let waiting uploads in: it may have to
\* wait for one of them and be refused, which nothing catches.
SaveFailed(u) ==
  /\ upload[u] = "failing"
  /\ CanDecide(u)
  /\ \/ /\ ~ Taken(u)
        /\ recordings' = recordings \union {u}
        /\ status' = [status EXCEPT ![u] = "failed"]
        /\ UploadTo(u, "refused")
     \/ /\ Taken(u)
        /\ UploadTo(u, "raised")
        /\ UNCHANGED <<recordings, status>>
     \/ /\ "commit" \in VoiceFaults
        /\ \/ UNCHANGED <<recordings, status>>
           \/ /\ ~ Taken(u)
              /\ recordings' = recordings \union {u}
              /\ status' = [status EXCEPT ![u] = "failed"]
        /\ UploadTo(u, "raised")
  /\ UNCHANGED <<open, transcript, chunks>>

\* The backend process dies: open transactions are rolled back.
VoiceCrash ==
  /\ "crash" \in VoiceFaults
  /\ \E u \in Uploads : upload[u] \in Uploading
  /\ upload' = [u \in Uploads |-> IF upload[u] \in Uploading THEN "lost" ELSE upload[u]]
  /\ open' = {}
  /\ UNCHANGED <<recordings, status, transcript, chunks>>

-----------------------------------------------------------------------------

UploadStep(u) ==
  \/ Insert(u) \/ GetTranscriber(u) \/ Transcribe(u) \/ Embed(u)
  \/ CommitRecording(u) \/ Respond(u) \/ Correct(u) \/ SaveFailed(u)

VoiceNext ==
  \/ \E u \in Uploads : FindRecording(u) \/ UploadStep(u)
  \/ VoiceCrash

VoiceSpec == VoiceInit /\ [][VoiceNext]_uploadVars

\* Threads keep running, and calls to Gemini return or fail (the transcriber sets
\* no timeout of its own).  Whoever waits for a row goes on when it is decided.
VoiceFairness == \A u \in Uploads : WF_uploadVars(UploadStep(u))

VoiceFairSpec == VoiceSpec /\ VoiceFairness

-----------------------------------------------------------------------------
(* Properties.                                                             *)

\* Identical bytes are one recording, however uploads of them overlap and
\* however often the failed row is inserted again.
OneRecording == \A u, v \in recordings : File[u] = File[v] => u = v

\* While an upload is being transcribed or embedded, nobody else transcribes the
\* same bytes and no recording of them exists.  (One that waited transcribes them
\* again when the first one fails.)
TranscribedOnce ==
  \A u \in Uploads : upload[u] \in Working =>
    /\ ~ Taken(u)
    /\ \A v \in Same(u) : upload[v] \in Working => v = u

\* An answer that names a recording is true of the committed rows: the upload's own
\* is done after a 200 and failed after a "saved as failed", and a duplicate has one.
\* A plain 500 promises nothing: the bytes may be gone.
AnswerIsTrue ==
  \A u \in Uploads :
    /\ upload[u] = "ok" => u \in recordings /\ status[u] = "done"
    /\ upload[u] = "refused" => u \in recordings /\ status[u] = "failed"
    /\ upload[u] = "duplicate" => Taken(u)

\* What search finds has a stored transcript to build it again from, and a done
\* recording can be found, also after the correction that sets it to failed.
SearchableIsTranscribed ==
  /\ \A u \in chunks : u \in recordings /\ transcript[u] = "full"
  /\ \A u \in recordings : status[u] = "done" => u \in chunks

FilesOf(S) == {File[u] : u \in S}

Owner == INSTANCE Library WITH
  Bytes      <- FilesOf(Uploads),
  done       <- FilesOf({u \in recordings : status[u] = "done"}),
  failed     <- FilesOf({u \in recordings : status[u] = "failed"}),
  searchable <- FilesOf(chunks)

\* Uploads that overlap, fail at any step and are corrected, refused or cut off by
\* a crash come to a library of recordings that only grows.
ImplementsLibrary == Owner!Spec

\* No upload waits forever for another one's row.
EveryUploadEnds == \A u \in Uploads : upload[u] = "new" ~> upload[u] \in UploadEnded
=============================================================================
