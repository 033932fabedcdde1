------------------------------- MODULE Rebuild -------------------------------
(***************************************************************************)
(* One rebuild of a chat's sessions and chunks, in detail                  *)
(* (rebuild_sessions_and_chunks): the log is cut into sessions, each       *)
(* session's text into chunks, the chunks are embedded in batches that are *)
(* retried on a rate limit, and every chunk is written with its vector.    *)
(* Ingest has all of this as one step of an actor.                         *)
(*                                                                         *)
(* A message is named by its position in the log, which holds the dated    *)
(* human messages of the chat sorted by time.  A session is a pair of the  *)
(* positions it runs from and to, a chunk the sequence of its positions.   *)
(***************************************************************************)
EXTENDS Lists, SequencesExt

CONSTANTS
  Logs,         \* the logs to be sessionized
  Gap,          \* session_gap_minutes
  MaxMessages,  \* session_max_messages
  MaxChars,     \* session_max_chunk_chars
  BatchSize,    \* embedding_batch_size
  MaxAttempts,  \* _GEMINI_RETRY_ATTEMPTS
  Faults        \* subset of {"429", "error"}: what an embedding request may get

\* at: minute of the message; chars: length of its display line, 0 for a message
\* without text (system, media, empty body).
Message == [at : Nat, chars : Nat]

Sorted(log) == \A i, j \in 1..Len(log) : i <= j => log[i].at <= log[j].at

ASSUME RebuildAssumption ==
  /\ Logs \subseteq {log \in Seq(Message) : Sorted(log)}
  /\ {Gap, MaxChars} \subseteq Nat
  /\ {MaxMessages, BatchSize, MaxAttempts} \subseteq Nat \ {0}
  /\ Faults \subseteq {"429", "error"}

VARIABLES
  log,
  phase,        \* "sessionize", "next", "split", "embed", "done" or "raised"
  pos,          \* the message the current loop is at
  start,        \* the first message of the session being collected
  sessions,     \* the sessions closed so far
  nth,          \* the session being written
  lines,        \* messages of the chunk being collected
  used,         \* current_len: the characters of its lines
  chunks,       \* chunks of the session being written
  vectors,      \* what each vector received so far is the embedding of
  attempt,      \* requests sent for the current batch
  rows          \* chunk rows written: the session, its messages, its vector

cutting   == <<log, start, sessions>>
splitting == <<lines, used, chunks>>
embedding == <<vectors, attempt>>
vars      == <<cutting, splitting, embedding, phase, pos, nth, rows>>

TypeOK ==
  /\ log \in Seq(Message) /\ Sorted(log)
  /\ phase \in {"sessionize", "next", "split", "embed", "done", "raised"}
  /\ pos \in Nat
  /\ start \in Nat
  /\ sessions \in Seq(Nat \X Nat)
  /\ nth \in Nat
  /\ lines \in Seq(Nat)
  /\ used \in Nat
  /\ chunks \in Seq(Seq(Nat))
  /\ vectors \in Seq(Seq(Nat))
  /\ attempt \in 0..MaxAttempts
  /\ rows \in Seq([session : 1..nth, ids : Seq(Nat), vector : Seq(Nat)])

Init ==
  /\ log \in Logs
  /\ phase = "sessionize"
  /\ pos = 1
  /\ start = 1
  /\ sessions = <<>>
  /\ nth = 0
  /\ lines = <<>>
  /\ used = 0
  /\ chunks = <<>>
  /\ vectors = <<>>
  /\ attempt = 0
  /\ rows = <<>>

Lesser(a, b) == IF a < b THEN a ELSE b

\* Nobody wrote for longer than session_gap_minutes before a message.
Silence(p) == log[p].at - log[p - 1].at > Gap

\* Only messages with text have a line, and a line longer than the budget is cut.
\* The header and the line breaks are not counted.
Clipped(p) == Lesser(log[p].chars, MaxChars)

\* The texts of the next request.
Batch == SubSeq(chunks, Len(vectors) + 1, Lesser(Len(vectors) + BatchSize, Len(chunks)))

-----------------------------------------------------------------------------
(* Faulty variants: mistakes the properties must catch.  No specification  *)
(* below uses them.                                                        *)

\* Faulty Cuts: silence is measured from the start of the session.
CutsFromStart(p) ==
  /\ p > start
  /\ \/ log[p].at - log[start].at > Gap
     \/ p - start >= MaxMessages

\* Faulty CloseLast: the loop's last session is forgotten.
CloseNothing ==
  /\ phase = "sessionize"
  /\ pos > Len(log)
  /\ start' = pos
  /\ phase' = "next"
  /\ UNCHANGED <<log, sessions, splitting, embedding, pos, nth, rows>>

\* Faulty NextSession: the vectors of the session before are kept.
NextWithVectors ==
  /\ phase = "next"
  /\ IF nth < Len(sessions)
       THEN /\ nth' = nth + 1
            /\ pos' = sessions[nth + 1][1]
            /\ phase' = "split"
       ELSE /\ phase' = "done"
            /\ UNCHANGED <<nth, pos>>
  /\ chunks' = <<>>
  /\ attempt' = 0
  /\ UNCHANGED <<cutting, lines, used, vectors, rows>>

\* Faulty EndSplit: the last chunk of a session is not flushed.
EndSplitUnflushed ==
  /\ phase = "split"
  /\ pos > sessions[nth][2]
  /\ lines' = <<>>
  /\ used' = 0
  /\ phase' = IF chunks = <<>> THEN "next" ELSE "embed"
  /\ UNCHANGED <<cutting, chunks, embedding, pos, nth, rows>>

\* Faulty Request: the wait for the rate limit's window never gives up.
RequestForever ==
  /\ phase = "embed"
  /\ Len(vectors) < Len(chunks)
  /\ \/ /\ vectors' = vectors \o Batch
        /\ attempt' = 0
        /\ UNCHANGED phase
     \/ /\ "429" \in Faults
        /\ attempt' = 1 - attempt
        /\ UNCHANGED <<phase, vectors>>
  /\ UNCHANGED <<cutting, splitting, pos, nth, rows>>

-----------------------------------------------------------------------------
(* sessionize.                                                             *)

\* The silence before a message, or the cap, closes the session before it.
Cuts(p) == p > start /\ (Silence(p) \/ p - start >= MaxMessages)

Feed ==
  /\ phase = "sessionize"
  /\ pos <= Len(log)
  /\ IF Cuts(pos)
       THEN sessions' = Append(sessions, <<start, pos - 1>>) /\ start' = pos
       ELSE UNCHANGED <<sessions, start>>
  /\ pos' = pos + 1
  /\ UNCHANGED <<log, splitting, embedding, phase, nth, rows>>

\* The session that is still open at the end of the log.
CloseLast ==
  /\ phase = "sessionize"
  /\ pos > Len(log)
  /\ sessions' = IF start < pos THEN Append(sessions, <<start, pos - 1>>) ELSE sessions
  /\ start' = pos
  /\ phase' = "next"
  /\ UNCHANGED <<log, splitting, embedding, pos, nth, rows>>

-----------------------------------------------------------------------------
(* The loop over the sessions, and _split_chunks.                          *)

NextSession ==
  /\ phase = "next"
  /\ IF nth < Len(sessions)
       THEN /\ nth' = nth + 1
            /\ pos' = sessions[nth + 1][1]
            /\ phase' = "split"
       ELSE /\ phase' = "done"
            /\ UNCHANGED <<nth, pos>>
  /\ chunks' = <<>>
  /\ vectors' = <<>>
  /\ attempt' = 0
  /\ UNCHANGED <<cutting, lines, used, rows>>

AddLine ==
  /\ phase = "split"
  /\ pos <= sessions[nth][2]
  /\ pos' = pos + 1
  /\ IF log[pos].chars = 0
       THEN UNCHANGED splitting
       ELSE IF lines # <<>> /\ used + Clipped(pos) > MaxChars
              THEN /\ chunks' = Append(chunks, lines)
                   /\ lines' = <<pos>>
                   /\ used' = Clipped(pos)
              ELSE /\ lines' = Append(lines, pos)
                   /\ used' = used + Clipped(pos)
                   /\ UNCHANGED chunks
  /\ UNCHANGED <<cutting, embedding, phase, nth, rows>>

\* The last flush; a session without text has no chunks and nothing to embed.
EndSplit ==
  /\ phase = "split"
  /\ pos > sessions[nth][2]
  /\ chunks' = IF lines = <<>> THEN chunks ELSE Append(chunks, lines)
  /\ lines' = <<>>
  /\ used' = 0
  /\ phase' = IF chunks' = <<>> THEN "next" ELSE "embed"
  /\ UNCHANGED <<cutting, embedding, pos, nth, rows>>

-----------------------------------------------------------------------------
(* embed_chunks and the provider's retries; replace_chunks_for_session.    *)

\* One request: a vector per text, a rate limit that is retried after a pause, or
\* an error; the last rate limit and every other error raise.  A response of the
\* wrong length is an error as well.
Request ==
  /\ phase = "embed"
  /\ Len(vectors) < Len(chunks)
  /\ \/ /\ vectors' = vectors \o Batch
        /\ attempt' = 0
        /\ UNCHANGED phase
     \/ /\ "429" \in Faults
        /\ attempt' = attempt + 1
        /\ phase' = IF attempt' = MaxAttempts THEN "raised" ELSE "embed"
        /\ UNCHANGED vectors
     \/ /\ "error" \in Faults
        /\ phase' = "raised"
        /\ UNCHANGED <<vectors, attempt>>
  /\ UNCHANGED <<cutting, splitting, pos, nth, rows>>

\* zip: as many rows as there are both chunks and vectors.
WriteChunks ==
  /\ phase = "embed"
  /\ Len(vectors) >= Len(chunks)
  /\ rows' = rows \o [i \in 1..Lesser(Len(chunks), Len(vectors)) |->
                        [session |-> nth, ids |-> chunks[i], vector |-> vectors[i]]]
  /\ phase' = "next"
  /\ UNCHANGED <<cutting, splitting, embedding, pos, nth>>

-----------------------------------------------------------------------------

Next ==
  \/ Feed \/ CloseLast
  \/ NextSession \/ AddLine \/ EndSplit
  \/ Request \/ WriteChunks

Spec == Init /\ [][Next]_vars

\* A rebuild runs in one thread; every request returns or fails.
FairSpec == Spec /\ WF_vars(Next)

-----------------------------------------------------------------------------
(* Properties.                                                             *)

\* The sessions run through the log without gap or overlap, and no session is
\* empty: every dated message of the chat is in exactly one session row.
SessionsCoverLog ==
  LET covered == IF sessions = <<>> THEN 0 ELSE Last(sessions)[2] IN
  /\ \A s \in 1..Len(sessions) :
       /\ sessions[s][1] <= sessions[s][2]
       /\ sessions[s][1] = IF s = 1 THEN 1 ELSE sessions[s - 1][2] + 1
  /\ start = covered + 1
  /\ phase # "sessionize" => covered = Len(log)

\* Sessions are as large as they may be: two neighbours are apart by more than the
\* gap or the first one is full, and within a session neither happens.
SessionsAreMaximal ==
  \A s \in 1..Len(sessions) :
    LET from == sessions[s][1]
        to   == sessions[s][2]
    IN
    /\ to - from < MaxMessages
    /\ \A p \in from + 1..to : ~ Silence(p)
    /\ s < Len(sessions) => Silence(to + 1) \/ to - from + 1 = MaxMessages

\* Its messages with text.
TextsBetween(from, to) ==
  Keep([i \in 1..(to + 1 - from) |-> from + i - 1],
       {p \in 1..Len(log) : log[p].chars > 0})

RowsOf(s) == Keep(rows, [session : {s}, ids : Seq(Nat), vector : Seq(Nat)])

\* When the rebuild is done, the chunk rows of a session hold each of its messages
\* with text once and in order, whatever batches and retries came between: none is
\* lost with the last chunk or a batch, or filed under another session.
EveryTextIsWritten ==
  phase = "done" =>
    \A s \in 1..Len(sessions) :
      FlattenSeq([i \in 1..Len(RowsOf(s)) |-> RowsOf(s)[i].ids])
        = TextsBetween(sessions[s][1], sessions[s][2])

\* A chunk's vector is the embedding of its own text.
RowsAreAligned == \A i \in 1..Len(rows) : rows[i].vector = rows[i].ids

\* A rebuild that has begun ends, even when every request meets a rate limit; until
\* then it holds the chat's lock.
RebuildEnds == phase = "sessionize" ~> phase \in {"done", "raised"}
=============================================================================
