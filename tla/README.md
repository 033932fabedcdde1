# Verification of the WhatsApp assistant

The backend in `src/backend/app` captures WhatsApp messages from WAHA, keeps a
search index of them per chat, answers questions about the chat, and ingests
voice recordings. This directory holds TLA+ models of that program, the TLC
configurations that check them on small instances, and TLAPS proofs of what
holds for every value of the constants.

    tlc -workers 2 -config MCPipeline.cfg MCPipeline      one run
    tlapm IngestProofs.tla                                one proof

`PROJECT.json` lists the components, the runs, the lines each definition
translates, the faulty variant each property is shown to catch, the hazards of
the code, and the theorems.

## 1. The system

One FastAPI process with PostgreSQL (READ COMMITTED) behind it, WAHA in front
of it, and Gemini (or an OpenAI-compatible service) beside it. `async` handlers
share one event loop. Plain `def` handlers and background tasks run in worker
threads. State is in the tables `messages`, `messages_unparsed`, `sessions`,
`chunks`, `chat_ingest_state`, `chat_settings`, `recordings` and
`voice_chunks`, and, in memory, in two cooldowns, a dict of per-chat locks and
a cached bot identity.

    WAHA --webhook--> capture --background tasks--> reply worker --send--> WAHA
                         |                             |
                         |                             +--> retrieval, answer, Gemini
                         +--background task--> live ingest --+
    admin --export upload, store backfill--------------------+--> rebuild --> embedder
    user  --voice upload--> transcriber --> voice sessionizer --> embedder
    user  --/ask--> answer --> retrieval

| Component (code) | State | Operations | What is hard | What makes it correct |
|---|---|---|---|---|
| Webhook capture (`webhook.py`) | `messages`, `messages_unparsed`, queued tasks | duplicate check, insert, fallback row, answer, queue reply and ingest tasks | WAHA delivers again; a crash between the commit and the answer; a COMMIT that fails after it succeeded; the INSERT waits for a backfill while it holds the event loop | tasks run at most once and on stored messages; an acknowledged message is kept, or its fallback write failed |
| Live ingest (`ingest/live_ingest.py`) | `sessions`, `chunks`, `chat_ingest_state`, debounce, locks | debounce, lock, read the newest row, compare the cursor, rebuild, commit | the lock is free before the rollback; the cursor is read before the rebuild; the process dies in between | no duplicates; the cursor never claims what is not indexed; readers lose nothing |
| Rebuild (`ingest/rebuild.py`, `sessionizer.py`, `embedder.py`) | a transaction | select, sessionize, delete, split into chunks, embed in batches, write | gap, cap and budget at their boundaries; batches sent again after a rate limit | every message in one session, every text in one chunk with its own vector |
| Imports (`routes_ingest.py`, `waha_store_backfill.py`) | one transaction each | read ids, insert, rebuild, commit or roll back | no lock and no cursor: they run next to live tasks and to each other | what is indexed is stored; nobody waits forever |
| Reply worker (`reply/reply_worker.py`, `sender.py`, `intent_classifier.py`) | identity cache, cooldown, `chat_settings` through its module | commands, identity, detection, cooldown, mode, answer or banter, send | tasks share everything; WAHA, the pipeline and the database fail one by one | one reply at most; a question that won the slot is replied to |
| Chat settings (`reply/chat_settings.py`) | `chat_settings` | read the override, upsert | two upserts of a missing row | a confirmed mode was stored; the lockdown holds |
| Cooldown (`reply/rate_limit.py`) | `_last` | `allowed` | the clock is read outside the lock | grants are a window apart, denials are justified |
| Voice upload (`routes_voice.py`) | `recordings`, `voice_chunks` | duplicate check, insert, transcribe, embed, commit, three error paths | the row's transaction is open through the whole transcription; it is inserted again after a failure | one recording per file; true answers; what is searchable has its transcript |
| Transcriber (`voice/transcriber.py`) | none | windows, merge, timestamps | times on the window's clock or the recording's; a silent window; a short last one | every turn once, at its own time; no failure without silence |
| Voice sessionizer (`voice/voice_sessionizer.py`) | none | chunks of segments | a budget that counts the header, a cap on segments | every segment in one chunk, chunks as full as the two limits allow |
| Retrieval (`retrieval/search.py`) | none, four statements | vector and keyword search, fusion, trust boost | a rebuild commits between two statements | nothing twice; what is lost was replaced; the ranks of both searches agree |
| Answer (`retrieval/answer.py`, `routes_ask.py`) | none | question routing, time ranges, listing, quoting, wording with a retry | chunks that are gone; months, weeks and years that begin; a truncated text | a period is covered; quotes what was ranked; a whole text or the quotations |
| Export parser (`ingest/whatsapp_export_parser.py`) | none | date order, continuation lines, ids | the order is guessed per file; files overlap; placeholders | every line in its own message; one row per message |
| WAHA mapper, trigger detection | none | payload to row, payload to trigger | malformed payloads | wrong input is refused, not guessed |
| Admin and debug routes, schema, set-up, scripts | tables | reads, single writes, purge | the purge next to a rebuild | the purge leaves the index sound |

The properties were chosen from the hazards in `PROJECT.json`. Each hazard
names the line where it bites and the properties that cover it, or says why
none does.

## 2. Plan

Order of work, the behaviour that everything else depends on first.

1. `SearchIndex`, the abstract index of a chat, and `Ingest`, which implements
   it: live tasks, imports, the crash and the purge. `IngestProofs`. (done)
2. `Cooldown` and `CooldownProofs`; `Ingest` and `Reply` use the result as one
   bit per chat, `armed`. (done)
3. `Reply`, `Capture`, `Voice` with `VoiceProofs`. (done)
4. `Rebuild`, the inside of the step that `Ingest` takes at once; `Retrieval`,
   the reader's side. (done)
5. What turns files, recordings and questions into data and back: `Transcript`
   (windows, merge, voice chunks), `Export` (parsing and re-imports), `Answer`
   (routing, periods, wording), with `Content`, which has the three sequential
   programs on the way into the index side by side. (done)
6. `ReplyProofs` and `CaptureProofs`, and `SearchableIsStored` in `IngestProofs`.
   (done)
7. `ListLemmas`, induction over lists without the library's induction theorems;
   on top of it `ContentProofs` for `Rebuild`, `Transcript`, `Export` and
   `Content`, and `AnswerProofs` for `Retrieval` and `Answer` with the calendar.
   (done)
8. Abstract specifications where modules meet or a user relies on one: `Inbox`
   between `Capture` and `Ingest`, `Library` above `Voice`. (done)
9. `Service` and `Pipeline`, which put the parts side by side for the runs. (done)
10. Liveness is left to TLC. `Rebuild` as a refinement of the steps of `Ingest`,
   and `Reply` above an abstract conversation, stay informal. (open)

How modules relate: `Ingest` instantiates `SearchIndex` as `Reader` with
`captured <- messages`, `copies <- Copies`. `Capture` and `Ingest` both
instantiate `Inbox`, with the rows a redelivery would find and the queued tasks,
and with `messages` and the tasks at `scheduled`: the step `Ingest!Capture`
stands for `Capture!Store` because both are `Inbox!Receive`, and nothing else of
`Capture` queues a task. `Voice` instantiates `Library` as `Owner`, with the
bytes of its rows in place of the rows. `Rebuild` refines the actions
`SelectMessages` .. `FinishDelete` and the commit of `Ingest` informally: one
generation of session rows in `Ingest` is what `Rebuild` writes. `Retrieval`
reads generations as `CommitRebuild` makes them. `Answer` extends `Retrieval`: the
search is one of its two ways to an answer, and its specification implements that
of `Retrieval` (theorem `AnswerSearches`). `Transcript` is the inside of the
steps `Transcribe` and `Embed` of `Voice`, `Export` of the parsing in front of
`BeginImport` of `Ingest`. `Content` extends `Rebuild`, `Export` and
`Transcript` and runs one of them per behaviour; they share no variable, and
what happens between requests is the subject of `Ingest` and `Voice`. `Service`
extends `Ingest`, `Cooldown`, `Reply`, `Capture` and `Voice`, and `Pipeline`
extends `Content` and `Answer`, in the same way: what a part needs of another is
in its own variables (`armed`, `waha`, the outcomes of the transcriber), no
variable is shared, and a behaviour goes on with the part it begins with. One run
so covers several parts without the product of their states. `Lists` has
the operators several of them use on sequences, and `ListLemmas` what is proved
about these once. Every `MC*` module extends the module it instantiates and adds
model values and small definitions only (`MCService` and `MCPipeline` those of the
parts they extend). Every `*Proofs` module extends the module
it proves about, `ContentProofs` all that `Content` runs and `AnswerProofs`
`Retrieval` with `Answer`.

## 3. What each module models

Time, data and text are abstracted to what the properties tell apart. A message
is a model value; its content, its header line and its topic are not modelled.

### Ingest (`live_ingest.py`, `rebuild.py`, the imports, the purge script)

One chat. The actors are named after the message whose webhook started the task
(LIVE tasks) or after the request (imports). `messages` and `created` are the
committed rows and their `created_at`, which PostgreSQL takes from the start of
the transaction; `index` and `built` are the generations of session rows;
`cursor` is `chat_ingest_state.last_message_id`; `armed` the debounce window;
`lock` the entry of `_INGEST_LOCKS`. Per actor, `pc`, the newest row read
(`seen`), the snapshot and the deletions of its DELETE (`snap`, `dead`) and what
an import has found missing and inserted (`todo`, `dirty`, `began`).

| Action | Code |
|---|---|
| `Capture`, `ReplyRaises` | the commit in `waha_webhook`, the reply task in front of the ingest task |
| `Debounce`, `WindowExpires` | `_ingest_cooldown.allowed` |
| `ReadNewest`, `CheckCursor` | `_lock_for`, `_newest_message_id`, the cursor comparison |
| `SelectMessages`, `StartDelete`, `FinishDelete` | the SELECT and the DELETE of `rebuild_sessions_and_chunks`; the DELETE sees what was committed when it started and waits for rows another transaction deleted; it takes its rows all at once |
| `Commit`, `Fail`, `RollBack` | the cursor row and the commit inside the lock; an exception leaves the `with` block first and is rolled back after |
| `BeginImport`, `FlushImport`, `CommitImport`, `AbortImport` | `ingest_export` and `store_backfill` with `backfill_chat_from_store`; a flush takes its ids all at once |
| `Crash`, `Purge` | the process dies; `scripts/purge_test_data.sh` |

`LiveSpec` is the daily operation. `Spec` adds the imports. The inserts of the
new rows happen with the commit: no other transaction sees them earlier, and
two generations never collide on a key. `built` may be empty, then no session
rows exist and no generation is added.

### Cooldown (`reply/rate_limit.py`)

`now` is the monotonic clock, `last` is `_last`. `ReadClock` is outside the
lock, `Decide` inside it, `Return` ends the call, `Restart` a new process.
`granted` records the readings that were granted. `Ingest` and `Reply` have one
bit `armed` in its place, cleared by `WindowExpires`.

### Reply (`reply_worker.py`, `sender.py`, `chat_settings.py`, `trigger_detector.py`)

One chat, one task per message. `cache` is `_bot_identity_cache`, `setting` the
row of `chat_settings`, `armed` the reply cooldown. A task walks through
`HandleCommand` and `CommitCommand` (`_handle_command` and `upsert_unhinged`,
with the INSERT the primary key may refuse and the UPDATE the ORM leaves out
when nothing changed), or through `UseCachedIdentity`, `AskWaha`, `Learn`
(`resolve_bot_identity`, `fetch_session_me`), `Detect`, `SpendCooldown`,
`ReadMode`, `Compose` (`_handle_detection`, `_answer`, `_banter`), and ends with
`Send` (`_send_best_effort`). What WAHA says of the session (`me`) may be nothing,
an id alone or an id with its lid; a mention in a group needs the lid. `Pair` is
somebody scanning the QR code.

### Capture (`webhook.py`, `waha_store_backfill.py`)

`loop` is the event loop: it runs one handler, without an await around its
database calls, at a time. `Deliver`, `Check`, `Store`, `Save` are a delivery,
the duplicate check, the insert with its commit, and `_store_unparsed`;
`RunTasks` the background tasks. WAHA repeats a webhook that is "pending", which
it is until a 200 arrives. `FetchStore`, `ReadIds`, `InsertMissing`,
`EndBackfill` are `backfill_chat_from_store`. An id is a message with or without
the `@lid` suffix: the webhook stores the suffix of a group message, WAHA's
store has none. WAHA's own behaviour is external and modelled from what the
handler and the backfill expect of it.

### Voice (`routes_voice.py`, the outcomes of `transcriber.py`)

One row per upload, named after it. `open` are the uploads whose transaction has
inserted its row: the unique index on the hash makes others wait (`CanDecide`)
or refuses them (`Taken`). `FindRecording`, `Insert`, `GetTranscriber`,
`Transcribe`, `Embed`, `CommitRecording`, `Respond` follow the handler.
`GetTranscriber` is outside its `try`: when the client cannot be made the request
ends in a plain 500, the row is rolled back, and no failed row is saved.
`SaveFailed` is the second insert after the rollback; `Correct` sets a committed
recording to failed when building the answer raised. A COMMIT that reports an
error may have succeeded.

### Rebuild (`sessionizer.py`, `rebuild.py`, `embedder.py`)

The loops of one rebuild, one iteration a step: `Feed` and `CloseLast` are
`sessionize`; `NextSession` the loop over the sessions; `AddLine` and `EndSplit`
are `_split_chunks`; `Request` one attempt of `_embed_batch_with_retry`, which
repeats on 429; `WriteChunks` is `replace_chunks_for_session`. A message is its minute and
the length of its display line, 0 without text.

### Retrieval (`search.py`, `answer.py`)

One answer of four statements: `SearchVectors`, `SearchKeywords`, `FuseHits`
(`_rrf` and the cut), `Boost` (`_apply_trust_boost`), `Quote` (the re-read in
`_answer_semantic`). `Ahead` is the order of each of Python's sorts, ties
included, and `Arrange` of `Lists` the sorted list. `CommitRebuild` gives every text a new chunk id between any
two of them. Distances and text ranks are any order, reciprocal ranks are
integers over a common denominator, so that equal sums of fractions are equal.

### Answer (`answer.py`, `routes_ask.py`)

One question. `Route` sends it to the search or to a period; `PeriodOf` is
`_parse_time_range` with `datetime` below it, in hours of the proleptic calendar;
a question is the date and the phrases the regular expressions find in it, those
(`Unread`) among them that the router knows and `_parse_time_range` does not.
`ListSessions` and `ListRecordings` are `_answer_time_range`, with the limit on
sessions, oldest first. `Write` is one attempt of `_gemini_synthesize`: Gemini's
reply is whole, cut off, empty or an error, `IsText` says which of these is sent,
and the others are tried once more and then replaced by the quotations;
`QuoteOnly` is the extractive provider. `Raise` is what `/ask` ends in when the
embedding, the database or the making of the client fails.

### Export (`whatsapp_export_parser.py`, `routes_ingest.py`)

Imports of one chat, one after another. The phone's history and its date order
are the input; a file holds a stretch of the history behind a notice. `Upload`,
`DetectOrder`, `ParseLine`, `EndParse` are `parse_export`, one line a step;
`InsertRecord` is the loop of `_insert_messages`, known by `SyntheticId`; `Flush`
and `EndImport` end the request with a commit or a rollback. Authors and words
are `says`, a body is the numbers of the lines it kept, so that a lost or
strayed line shows. The model starts from a chat without rows from WAHA.

### Transcript (`transcriber.py`, `voice_sessionizer.py`)

One recording, from its turns (the input) to its chunks. `HearWindow` is one
request: the answer is on the recording's clock or on the window's, and
`WindowRelative` guesses which, as `_offset_window_relative` does. `HearNothing`
is a window without speech, `Refuse` a failed or unreadable answer, `Merge` the
final sort. `AddTurn` and `EndPieces` are `build_voice_chunks`.

### SearchIndex, Inbox, Library

The abstract specifications. `SearchIndex` is what a reader is promised:
messages are captured, an index of at most one copy per message changes in one
step, and what was searchable stays. `Inbox` is what background tasks are
promised: `Receive` stores a message and queues its tasks in one step, `Insert`
(backfills, imports, a COMMIT that reports an error) stores without tasks, tasks
`Leave` when they start or die, `Remove` is the purge. `Library` is what the owner
of recordings is promised: bytes are stored once, as done with their chunks
(`Publish`) or as failed (`Shelve`), and a done recording can be set to failed
(`Downgrade`, the correction in `routes_voice.py`) but keeps its chunks.

## 4. Runs

Passing runs. Each covers several parts, side by side (section 2). CHECK_DEADLOCK
is FALSE: all tasks may have ended, and the finite input is used up.

| Run | Question | Bounds and why they are enough | States |
|---|---|---|---|
| `service` | what may never happen in the parts that run many threads? | ingest: 3 messages, one without a timestamp so that the purge and a foreign key failure happen; three tasks give one rebuilding, one waiting and one captured in between; failures, crashes and purges unbounded. Cooldown: 2 threads, 2 chats, window 2, 5 ticks: readings before, inside, at and after the window, decided in either order. Replies: any 3 of two allowed commands, an untrusted one, a mention with banter, a clarification and a direct message; the session pairs during the run, with or without a lid. Capture: any 2 of a direct, a group and an unmappable message, the bot's own one in the store, 1 backfill, 1 outage or crash; lost answers and unclear commits unbounded. Voice: 3 uploads of the same bytes: one at work, one waiting, one arriving after a failure. All faults | 887 805 |
| `service_fair` | what must happen in the end, with imports as well? | liveness takes smaller instances. Ingest: 1 live task, 2 imports that share a message: each waits for the other's ids and rows. Cooldown: one key and thread. Replies: any 2 of a command, a mention, a clarification and a direct message. Capture: a direct and an unmappable message, 1 backfill that holds an id, 1 outage or crash. Voice: 3 uploads as above. All faults | 51 966 |
| `pipeline` | is anything lost, doubled or misfiled on the way into the index, and is a question answered from what it asks for? | rebuilds: every log of up to 5 messages, silence 1 or 2 minutes against a gap of 1, lengths 0, 2 and 5 against a budget of 4, cap 3, batches of 2, 4 attempts: two sessions, two batches and an oversized line occur together. Imports: two of any stretches of every history of 3 messages, days 5 and 20, with and without a second line or a placeholder, a sample of 4 lines: files overlap, and the sample may or may not show a day after the twelfth. Recordings of unknown length, one window, two full ones, two and a rest, up to 3 turns, 2 turns or 12 characters per chunk. Searches: 2 texts and a voice piece, 3 hits per search, 1 rebuild, which may come between any two statements. Questions: 14 phrases, two at once, dates with four and two digits for the year, 5 moments (a Monday the first of January, the first of March of a leap year, early January, a Sunday night, the last hour of a leap year), and all pasts of 1 or 2 messages or a recording right before or after a midnight at which a day, week, month or year begins; room for 1 session, so that the limit cuts | 667 082 |

What the properties say:

- `service`, ingest: `CursorSound` and `FinishedTaskVouches` (a skip or a rebuild
  tells the truth), `RebuildsSerialized`, `SearchableStays` (no step takes a
  message from readers) and `ImplementsSearchIndex`. Cooldown: `GrantsSpaced`,
  `DenialsJustified`. Replies: `NothingAnsweredTwice` (an apology aside),
  `ConfirmedWasStored`, `LimitedBehindAQuestion`, `IgnoredAfterVainLookup` (a
  mention is ignored only after a lookup that brought no lid), `LockdownHolds`.
  Capture: `TasksAtMostOnce`, `TasksOnStored`, `KeptOrDropped` (what is left of
  `NothingIsLost`). Voice: `OneRecording`, `TranscribedOnce` (never by two at
  once), `AnswerIsTrue`, `SearchableIsTranscribed`.
- `service_fair`: `IndexedIsStored`; `EveryActorEnds` (every started task or
  import), `GrantedIsReplied`, `EventuallyKept`, `EveryUploadEnds`.
- `pipeline`, rebuilds: `SessionsCoverLog`, `SessionsAreMaximal`,
  `EveryTextIsWritten` (each text in one row of its session), `RowsAreAligned`,
  `RebuildEnds`. Imports: `EveryLineFindsItsMessage`, `FilesAgreeOnRows`
  (overlapping files make one row per message on a phone that writes months
  first, or days after the twelfth only). Recordings: `SpeechInPlace` (every turn
  once, at its own time, but for a second window whose speech ends in its first
  seconds), `FailsOnlyInSilence`, `PiecesCarryTheTranscript`. Searches:
  `QuotedOnce`, `LostToRebuild`, `FusionAgrees`. Questions: `PeriodIsCovered` (an
  answer about a period the code reads leaves out no message or recording of it),
  `AnsweredInFull`.

The type invariants of the modules hold in the same instances, and none of the
runs needs to list them: `TypeOK` of `Ingest`, `Voice`, `Reply`, `Capture` and
`Cooldown` and `AnswerTypeOK` are proved, and those of the programs `Content` runs
are part of their inductive invariants. The three refinements of `Inbox` and
`Library` were checked with TLC on the instances of their parts and are proved.

Nine runs show where the program and its documentation part. Each has the
smallest instance that shows it:

- `ingest_debounce` violates `CapturedIsIndexed`. The debounce acts on the
  leading edge. A message captured inside the window schedules nothing, and
  stays out of the index until a later message outside the window arrives.
- `ingest_duplicates` violates `NoDuplicateSessions`. An import rebuilds without
  the per-chat lock; next to a live rebuild neither DELETE sees the other's
  rows, and both generations stay until the next rebuild.
- `capture_neardup` violates `OneRowPerMessage`. The webhook stores a group
  message under its id with the suffix, although a backfill inserts it without.
- `capture_dropped` violates `NothingIsLost`. The fallback row goes to the
  database that has just failed; when it fails too, the message is acknowledged
  and in no table, although the README promises that none is dropped.
- `reply_pairing` violates `HeardOncePaired`. A mention handled before the session
  is paired leaves an empty identity in the cache, and mentions stay unheard until
  the process restarts; the warning and the compose file say until the pairing.
- `content_reimport` violates `OneRowPerExportedMessage`. The date order is
  guessed anew for every file, and months first wins as soon as one sampled date
  can be read that way. Two exports of a phone that writes days first are read
  differently when one sample shows only days after the twelfth; the messages
  they share are stored twice, once with a wrong date or none.
- `content_placeholder` violates `LinesAreReattached`. The lines below a
  placeholder for omitted media are dropped.
- `content_window` violates `TurnsKeepTheirTime`. When all speech of a later window
  is in its first seconds, an answer on the recording's clock is taken for one on
  the window's and moved by a window.
- `retrieval_date` violates `DatesAreCovered`. 11/12/24 is named as a date that is
  understood, and is read as a day of 1924.

Five more disagreements were met while modelling and have no run of their own.
The properties leave these points open:

- `reply_worker.py:41` and `sender.py:63-64` speak of an apology when the send
  fails; the code sends one when the answer fails and nothing when the send does.
  `NothingAnsweredTwice` neither requires nor forbids it.
- `routes_voice.py:13` says the audio is never dropped. It is when the transcriber
  cannot be made (line 147, outside the `try`) or when the second insert fails as
  well. `AnswerIsTrue` only holds an answer to what it says.
- `config.py:66` says chunks stay under `max_chunk_chars`. The budget counts the
  lines, not the header and the line breaks around them (`sessionizer.py:120`).
  `EveryTextIsWritten` says nothing about lengths.
- `search.py:178` and `192-193` say that ties of the boost keep their fused order;
  line 194 sorts them by chunk id. Ties of products of floating-point numbers are
  not in the model, and it allows any order of equal scores.
- "Past week" and "past month" are routed to a period (`answer.py:248-262`) and then
  answered from the last three days, "past year" and "since Monday" from the last
  two (`answer.py:354-359`). No document says what they should give;
  `PeriodIsCovered` names them as not covered.

Every property of a passing run has a faulty variant of a modelled definition
(under "Faulty variants" or next to the definition) that violates it.

## 5. Fairness

- `WF(AnswerNext)` in `Answer`: a question is answered in one thread, and the
  searches, statements and requests return.
- Weak fairness for each step of a thread (`LiveStep`, `ImportStep`, `Step`,
  `BackfillStep`, `Handle`, `RunTasks`): the operating system runs every thread
  that can run, and blocking waits end when what they wait for is released.
  Requests to WAHA and to an OpenAI-compatible service have timeouts. The Gemini
  client is used without one, for embedding, answers and transcription; the
  liveness properties assume that it returns or fails.
- `WF(Next)` in `Rebuild`, and of its steps in `Content` and `Pipeline`: one thread runs a loop. `WF(WindowExpires)`: time
  passes. `WF(Recover)`: an outage of PostgreSQL ends.
- `SF(Deliver(m))` in `Capture`: between two webhooks the loop may serve another
  message every time, which only strong fairness rules out; WAHA goes on
  repeating what was not acknowledged.
- Nothing is assumed of captures, imports, failures, crashes, purges or pairing.

`ServiceFairSpec` and `PipelineSpec` conjoin the conditions of their parts. In the
parts that rest nothing is due: none of their fair steps is enabled.

Safety properties do not depend on any of this.

## 6. Proofs

TLAPS proves the following for every value of the constants that satisfies the
named assumption of the module.

| Module | Theorems | Argument |
|---|---|---|
| `IngestProofs` | `TypeCorrect`, `LiveRebuildsSerialized`, `SearchableIsStored`, `IngestImplementsInbox` (of `Spec`, imports included); `NoDuplicates`, `CursorIsSound`, `FinishedTasksVouch`, `SearchableMessagesStay`, `LiveImplementsSearchIndex` (of `LiveSpec`) | `IInv`: the lock is held exactly by the task in the block (`LockHeld`), so the generation it deletes is all there is (`OneGeneration`, `DeletesAll`), what it writes covers what was there and every row up to the one it read (`SeenIsNewest`, `BuiltCovers`), and the cursor it commits is sound. `created_at` in commit order, which imports break, is `TimesKnown`. With imports only `LockHeld` and `WritesStored` are left: an actor writes about rows it sees, its own inserts among them, and commits both together |
| `CooldownProofs` | `CooldownSpacing`, `CooldownExact` | `LastIsLatest`: the entry of a key is its latest grant; a late decision with an early reading is denied, so the entry never goes back |
| `VoiceProofs` | `TypeCorrect`, `RecordingsAreUnique`, `BytesAreTranscribedOnce`, `AnswersAreTrue`, `SearchableHasTranscript`, `VoiceImplementsLibrary` | `VInv`: an open transaction is an upload at work (`OpenIsWorking`), alone with its bytes (`RowIsAlone`); a committed row's upload is past its work (`RowIsPast`). For `Library`, `Settled`: a row's status is final but for the upload's own correction |
| `ContentProofs`, rebuilds | `SessionsCover`, `SessionsMaximal`, `VectorsBelong`, `TextsWritten` (of `Spec`) | `CutInv`: the open session is tight, the closed ones form a chain that ends where it starts; the lemma `CloseSession` adds one. `VectorInv`: the vectors received are a prefix of the chunks, so a batch continues it and the rows written pair each chunk with its own. `TextInv`: the texts of the rows, the finished chunks and the open one, one after the other, are the texts read so far, and a chunk is closed only in front of a line it has no room for |
| `ContentProofs`, imports | `LinesFindTheirMessages`, `OneRowForEach` (of `ExportSpec`) | `ImportInv`: the records of the lines read are whole messages, one for each first line (`Parsed`), the pending one holds exactly the lines of its message read so far (`Begun`), rows have different ids (`Rowed`), and each record that was passed has one (`Covered`). On a phone whose dates can be told (`Reliable`) every file is read in the order it was written in |
| `ContentProofs`, recordings | `SpeechIsInPlace`, `FailsInSilence`, `PiecesCarryAll` (of `TranscriptSpec`) | `HeardInv`: each turn of the windows heard is one segment and no other turn is, every segment in its place: at its own time, or shifted where the second window's speech ends in its first seconds; a failure is at a window without speech. `PieceInv`: the pieces and the open one, joined, are the segments read so far |
| `ContentProofs`, all | `ContentIsRight` (of `ContentSpec`) | `ContentInv`: the invariants of the three side by side; a program at rest satisfies its own |
| `AnswerProofs`, search | `TextQuotedOnce`, `OnlyRebuildsLose`, `FusionRespectsBoth` (of `Retrieval`'s `Spec`), `AnswerSearches` | `RetrievalInv`: what was found is no newer than the search that found it (`FoundInTime`), the fused hits are in the order of their scores (`Ordered`), and what is ranked but not quoted is of an older generation (`LostIsOld`). A score is a sum of one share per list that falls with the rank. `AnswerSearches` maps every step of an answer to a step of the search or a stutter and carries the theorems over |
| `AnswerProofs`, periods | `PeriodsAreCovered`, `AnswerTypes` (of `AnswerSpec`) | the period a phrase or date the code reads is parsed to contains the one it names (`PeriodCovers`); phrases without hours and two-digit years are excluded by name (`IsRead`), from lemmas on the length of months and years, leap days, the first day of a week and of the month before; `CoverInv`: what is listed is the beginning of what overlaps the period, in order, as long as the limit allows |
| `ReplyProofs` | `TypeCorrect`, `OneReply`, `ConfirmationsAreTrue`, `OnlyQuestionsLimit`, `IgnoredBecauseVain`, `Lockdown` | `RInv`: nothing is sent before "done" (`UnsentUntilDone`); a command stays on its own path, and the row it read is among the values the setting has had since (`CommandsApart`); a running cooldown has a granted question behind it (`ArmedByAQuestion`); an alias set without the lid goes back to a vain lookup (`LidUnlessVain`). The lemma `Elsewhere` says once that a step of one task leaves the others alone |
| `CaptureProofs` | `TypeCorrect`, `TasksOnce`, `TasksFollowTheRow`, `AnsweredIsKept`, `CaptureImplementsInbox` | `CInv`: a message whose tasks are queued has not run them (`QueuedOnce`), and its row is there; `KeptGrows`: no step takes anything out of the tables, so a redelivery finds the row and queues nothing |

`ListLemmas` is what these proofs know of lists. The library's induction theorems
take an operator as a parameter, which the provers here cannot instantiate, so
induction is over sets: a set of numbers that is not empty has a smallest member,
a consequence of the library's theorem on well-founded relations. From this follow
facts about `FlattenSeq`, the sums and selections of `Lists`, the sorted list
(`Arrange`: it exists, it is unique, and it keeps the order), joined and split
lists. Every recursive function of the models is defined so that these lemmas
unfold it once.

The properties alone are not inductive. `CursorSound` does not say what a
rebuild in progress is about to write; `GrantsSpaced` does not say which grant
`_last` remembers; `SessionsCoverLog` does not say where the open session
starts; `NothingAnsweredTwice` does not say that a task which has not sent is not
past sending; `EveryLineFindsItsMessage` does not say what the pending record
holds; `PeriodIsCovered` does not say that the sessions listed are the earliest.
The named parts above do. Each invariant was checked with TLC on an instance
before it was proved.

Assumptions on the constants are named in the module that declares them, and
TLC evaluates them in the runs. Those a reader may ask about: logs and pasts are in
order of time, as the queries return them; a moment has a day that its month has;
the sample of an export is longer than one line (the code samples 50);
`Slack` is shorter than a window (5 seconds against 20 minutes); limits, budgets, caps and batch sizes are
natural numbers, and at least 1 where the code divides by them or would not end.

Every invariant and action property of a run is stated by a theorem. Only
model-checked is liveness: `EveryActorEnds`, `GrantedIsReplied`,
`EventuallyKept`, `EveryUploadEnds`, `RebuildEnds`, `AnsweredInFull`. It needs
ENABLED and arguments under fairness, which are out of this prover's reach. The
properties that the runs show violated have no theorem.

## 7. Not modelled

- The regular expressions: the four line patterns of an export, dates and phrases
  in a question, mentions and commands in a message; the fields of a WAHA
  payload. They are text handling, and the models take what they find as input.
- In `Answer`: 31 December 9999 raises in the code and is outside `Written`. The citations, which quote the first three
  messages of a listed session whether or not they lie in the period, are data.
- In `Export`: archives, encodings, time zones, clock times and years. Rows that
  came from WAHA have other ids than an import gives the same messages; every
  overlap is stored twice whatever happens, and no property is about it.
- In `Transcript`: seconds are whole, and an answer contains the turns that begin
  in its window. A turn without a readable time is one of the reasons of `Refuse`.
- Webhook events other than messages, admin reads and single writes, debug
  routes: no protocol. Configuration and schema appear as constants and guards.
- Prompts, wording, topics, header lines and normalization of vectors.
- Refusals of uploads before the database is asked, the token checks, the
  decoding of an uploaded file: no state.
- In `Capture`, a failed fallback write is recorded in `dropped`, not repaired:
  the code logs it and answers 200. The branch for payloads without an id is in
  the module, not in an instance.
- In `Reply`, the instance has no message that addresses nobody: it ends at
  `Detect`, like a mention without the identity. Several chats share only the
  cached identity. That an identity read before the pairing stays empty until the
  process restarts is in the model (`Learn`); `IgnoredAfterVainLookup` says when it
  can happen, `HeardOncePaired` that it should not.
- In `Ingest`, a message without a timestamp comes from the simulated payloads
  the purge script removes. A live rebuild disabled by configuration is left out.
  A flush takes all its ids at once and a DELETE all its rows; in PostgreSQL they
  take them one by one. That two of them each hold what the other waits for, which
  PostgreSQL would end by failing one, is therefore not explored.
- In `Retrieval`, trust weights are integers in units of `Neutral`. The latest
  messages that give banter its tone are data.
