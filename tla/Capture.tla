------------------------------- MODULE Capture -------------------------------
(***************************************************************************)
(* Capture of messages: WAHA delivers webhooks at least once, the handler  *)
(* in app/webhook.py stores each of them once and queues its background    *)
(* tasks, and an admin's store backfill inserts what the webhook missed.   *)
(*                                                                         *)
(* The handler is one coroutine without an await around its database       *)
(* calls: while it runs, and while its INSERT waits, the event loop serves *)
(* no other webhook.  Backfills run in threads of their own.               *)
(***************************************************************************)
EXTENDS Naturals, FiniteSets

CONSTANTS
  ChatMessages,
  Group,        \* group messages: their webhook id carries an "@lid" suffix
  NoId,         \* payloads without an id
  Unmappable,   \* payloads build_message raises on
  OwnSent,      \* the bot's own messages, which only WAHA's store knows
  Backfills,    \* store-backfill requests
  Free,         \* the event loop runs no webhook handler
  CaptureFaults,  \* subset of {"outage", "commit", "ack", "crash"}
  MaxMessages,  \* bound of the model: messages sent to the chat in a run
  MaxMishaps    \* bound of the model: outages and crashes in a run

ASSUME CaptureAssumption ==
  /\ Group \subseteq ChatMessages
  /\ NoId \union Unmappable \union OwnSent \subseteq ChatMessages
  /\ Free \notin ChatMessages \X {"check", "store", "save"}
  /\ CaptureFaults \subseteq {"outage", "commit", "ack", "crash"}
  /\ {MaxMessages, MaxMishaps} \subseteq Nat

VARIABLES
  rows,         \* waha_message_ids of the messages table
  unparsed,     \* messages kept in messages_unparsed
  waha,         \* WAHA's view of a webhook: "pending" until a 200 reaches it
  loop,         \* the event loop: Free, or the message handled and where
  tasks,        \* messages whose background tasks are queued
  ran,          \* how often a message's background tasks ran (history)
  dbUp,         \* PostgreSQL answers
  bpc,          \* where each backfill is
  fetched,      \* what it read from WAHA's store
  existing,     \* the ids it read from the table
  openIds,      \* the ids its open transaction has inserted
  mishaps,      \* outages and crashes so far
  dropped       \* messages whose fallback write failed (history)

backfill    == <<bpc, fetched, existing, openIds>>
history     == <<ran, dropped>>
captureVars ==
  <<rows, unparsed, waha, loop, tasks, dbUp, backfill, mishaps, history>>

\* An id is a message and its suffix; WAHA's store never has the suffix.
Ids         == ChatMessages \X {"", "@lid"}
WebhookId(m) == <<m, IF m \in Group THEN "@lid" ELSE "">>
StoreId(m)   == <<m, "">>
StripLid(id) == <<id[1], "">>

Delivered == ChatMessages \ OwnSent

CaptureTypeOK ==
  /\ rows \subseteq Ids
  /\ unparsed \subseteq ChatMessages
  /\ waha \in [Delivered -> {"unsent", "pending", "acked"}]
  /\ loop \in (ChatMessages \X {"check", "store", "save"}) \union {Free}
  /\ tasks \subseteq ChatMessages
  /\ ran \in [ChatMessages -> Nat]
  /\ dbUp \in BOOLEAN
  /\ bpc \in [Backfills -> {"idle", "reading", "inserting", "inserted",
                            "done", "failed"}]
  /\ fetched \in [Backfills -> SUBSET ChatMessages]
  /\ existing \in [Backfills -> SUBSET Ids]
  /\ openIds \in [Backfills -> SUBSET Ids]
  /\ mishaps \in Nat
  /\ dropped \subseteq ChatMessages

CaptureInit ==
  /\ rows = {}
  /\ unparsed = {}
  /\ waha = [m \in Delivered |-> "unsent"]
  /\ loop = Free
  /\ tasks = {}
  /\ ran = [m \in ChatMessages |-> 0]
  /\ dbUp = TRUE
  /\ bpc = [b \in Backfills |-> "idle"]
  /\ fetched = [b \in Backfills |-> {}]
  /\ existing = [b \in Backfills |-> {}]
  /\ openIds = [b \in Backfills |-> {}]
  /\ mishaps = 0
  /\ dropped = {}

-----------------------------------------------------------------------------
(* WAHA and the webhook handler.                                           *)

\* A message is sent to the chat: WAHA has an event to deliver.
Happen(m) ==
  /\ waha[m] = "unsent"
  /\ Cardinality({n \in Delivered : waha[n] # "unsent"}) < MaxMessages
  /\ waha' = [waha EXCEPT ![m] = "pending"]
  /\ UNCHANGED <<rows, unparsed, loop, tasks, history, dbUp, backfill, mishaps>>

\* WAHA posts the event, again after a 500, a lost answer or no answer at all.
Deliver(m) ==
  /\ waha[m] = "pending"
  /\ loop = Free
  /\ loop' = <<m, IF m \in NoId THEN "save" ELSE "check">>
  /\ UNCHANGED <<rows, unparsed, waha, tasks, history, dbUp, backfill, mishaps>>

\* 200: it reaches WAHA, unless the connection is gone by then.
Answer(m) ==
  /\ loop' = Free
  /\ \/ waha' = [waha EXCEPT ![m] = "acked"]
     \/ "ack" \in CaptureFaults /\ UNCHANGED waha

\* Faulty Check: a payload that cannot be mapped is dropped with a 200.
CheckAndDrop(m) ==
  /\ loop = <<m, "check">>
  /\ dbUp
  /\ IF WebhookId(m) \in rows \/ m \in Unmappable
       THEN Answer(m)
       ELSE loop' = <<m, "store">> /\ UNCHANGED waha
  /\ UNCHANGED <<rows, unparsed, tasks, history, dbUp, backfill, mishaps>>

\* Faulty Check: the tasks are queued before the row is stored.
CheckAndQueue(m) ==
  /\ loop = <<m, "check">>
  /\ dbUp
  /\ IF WebhookId(m) \in rows
       THEN Answer(m) /\ UNCHANGED tasks
       ELSE /\ loop' = <<m, IF m \in Unmappable THEN "save" ELSE "store">>
            /\ tasks' = tasks \union {m}
            /\ UNCHANGED waha
  /\ UNCHANGED <<rows, unparsed, history, dbUp, backfill, mishaps>>

\* Faulty Check: a redelivered message gets its tasks again.
CheckAndRequeue(m) ==
  /\ loop = <<m, "check">>
  /\ dbUp
  /\ IF WebhookId(m) \in rows
       THEN Answer(m) /\ tasks' = tasks \union {m}
       ELSE /\ loop' = <<m, IF m \in Unmappable THEN "save" ELSE "store">>
            /\ UNCHANGED <<waha, tasks>>
  /\ UNCHANGED <<rows, unparsed, history, dbUp, backfill, mishaps>>

\* The duplicate check.  Nothing catches its errors: 500.
Check(m) ==
  /\ loop = <<m, "check">>
  /\ \/ ~ dbUp /\ loop' = Free /\ UNCHANGED waha
     \/ dbUp /\ WebhookId(m) \in rows /\ Answer(m)
     \/ /\ dbUp
        /\ WebhookId(m) \notin rows
        /\ loop' = <<m, IF m \in Unmappable THEN "save" ELSE "store">>
        /\ UNCHANGED waha
  /\ UNCHANGED <<rows, unparsed, tasks, history, dbUp, backfill, mishaps>>

\* INSERT and COMMIT; the INSERT waits for an open transaction with the same id.
\* An IntegrityError is a duplicate; another error diverts to messages_unparsed,
\* and the row may have been committed all the same.
Store(m) ==
  LET id    == WebhookId(m)
      waits == \E b \in Backfills : id \in openIds[b]
  IN
  /\ loop = <<m, "store">>
  /\ \/ /\ dbUp /\ ~ waits
        /\ id \notin rows
        /\ rows' = rows \union {id}
        /\ tasks' = tasks \union {m}
        /\ Answer(m)
     \/ /\ dbUp
        /\ id \in rows
        /\ Answer(m)
        /\ UNCHANGED <<rows, tasks>>
     \/ /\ ~ dbUp
        /\ loop' = <<m, "save">>
        /\ UNCHANGED <<rows, waha, tasks>>
     \/ /\ "commit" \in CaptureFaults /\ ~ waits
        /\ id \notin rows
        /\ rows' \in {rows, rows \union {id}}
        /\ loop' = <<m, "save">>
        /\ UNCHANGED <<waha, tasks>>
  /\ UNCHANGED <<unparsed, history, dbUp, backfill, mishaps>>

\* _store_unparsed swallows its own errors; the answer is 200 in any case.
Save(m) ==
  /\ loop = <<m, "save">>
  /\ IF dbUp
       THEN unparsed' = unparsed \union {m} /\ UNCHANGED dropped
       ELSE dropped' = dropped \union {m} /\ UNCHANGED unparsed
  /\ Answer(m)
  /\ UNCHANGED <<rows, tasks, ran, dbUp, backfill, mishaps>>

\* The reply and ingest tasks run after the answer.
RunTasks(m) ==
  /\ m \in tasks
  /\ tasks' = tasks \ {m}
  /\ ran' = [ran EXCEPT ![m] = @ + 1]
  /\ UNCHANGED <<rows, unparsed, waha, loop, dbUp, backfill, mishaps, dropped>>

-----------------------------------------------------------------------------
(* backfill_chat_from_store.                                               *)

\* Read WAHA's store: what happened so far, the bot's own messages as well.
FetchStore(b) ==
  /\ bpc[b] = "idle"
  /\ fetched' = [fetched EXCEPT
                   ![b] = OwnSent \union {m \in Delivered : waha[m] # "unsent"}]
  /\ bpc' = [bpc EXCEPT ![b] = "reading"]
  /\ UNCHANGED <<rows, unparsed, waha, loop, tasks, history, dbUp, existing, openIds, mishaps>>

\* _existing_ids.
ReadIds(b) ==
  /\ bpc[b] = "reading"
  /\ existing' = [existing EXCEPT ![b] = rows]
  /\ bpc' = [bpc EXCEPT ![b] = "inserting"]
  /\ UNCHANGED <<rows, unparsed, waha, loop, tasks, history, dbUp, fetched, openIds, mishaps>>

\* What the table has neither under the store id nor under an id with a suffix;
\* a store entry without an id is skipped.
Missing(b) ==
  {StoreId(m) : m \in {n \in fetched[b] \ NoId :
     StoreId(n) \notin existing[b] \union {StripLid(id) : id \in existing[b]}}}

\* The inserts and their flush: one message that cannot be mapped (500) or one id
\* that is stored by now (409) fails them all.
InsertMissing(b) ==
  /\ bpc[b] = "inserting"
  /\ \A c \in Backfills \ {b} : openIds[c] \intersect Missing(b) = {}
  /\ IF /\ dbUp
        /\ Missing(b) \intersect rows = {}
        /\ \A m \in Unmappable : StoreId(m) \notin Missing(b)
       THEN /\ openIds' = [openIds EXCEPT ![b] = Missing(b)]
            /\ bpc' = [bpc EXCEPT ![b] = "inserted"]
       ELSE /\ bpc' = [bpc EXCEPT ![b] = "failed"]
            /\ UNCHANGED openIds
  /\ UNCHANGED <<rows, unparsed, waha, loop, tasks, history, dbUp, fetched, existing, mishaps>>

\* Faulty EndBackfill: a failed request leaves its transaction open.
EndBackfillOpen(b) ==
  /\ bpc[b] = "inserted"
  /\ \/ /\ dbUp
        /\ rows' = rows \union openIds[b]
        /\ openIds' = [openIds EXCEPT ![b] = {}]
        /\ bpc' = [bpc EXCEPT ![b] = "done"]
     \/ /\ bpc' = [bpc EXCEPT ![b] = "failed"]
        /\ UNCHANGED <<rows, openIds>>
  /\ UNCHANGED <<unparsed, waha, loop, tasks, history, dbUp, fetched, existing, mishaps>>

\* The rebuild is over: commit, or roll back when it or the commit failed.
EndBackfill(b) ==
  /\ bpc[b] = "inserted"
  /\ \/ /\ dbUp
        /\ rows' = rows \union openIds[b]
        /\ bpc' = [bpc EXCEPT ![b] = "done"]
     \/ /\ bpc' = [bpc EXCEPT ![b] = "failed"]
        /\ UNCHANGED rows
  /\ openIds' = [openIds EXCEPT ![b] = {}]
  /\ UNCHANGED <<unparsed, waha, loop, tasks, history, dbUp, fetched, existing, mishaps>>

-----------------------------------------------------------------------------
(* The environment.                                                        *)

\* PostgreSQL goes away, and comes back.
Outage ==
  /\ "outage" \in CaptureFaults
  /\ dbUp
  /\ mishaps < MaxMishaps
  /\ dbUp' = FALSE
  /\ mishaps' = mishaps + 1
  /\ UNCHANGED <<rows, unparsed, waha, loop, tasks, backfill, history>>

Recover ==
  /\ ~ dbUp
  /\ dbUp' = TRUE
  /\ UNCHANGED <<rows, unparsed, waha, loop, tasks, backfill, history, mishaps>>

\* The backend process dies: the handler, queued tasks and open transactions go.
CaptureCrash ==
  /\ "crash" \in CaptureFaults
  /\ mishaps < MaxMishaps
  /\ mishaps' = mishaps + 1
  /\ loop' = Free
  /\ tasks' = {}
  /\ bpc' = [b \in Backfills |-> IF bpc[b] = "idle" THEN "idle" ELSE
                                 IF bpc[b] = "done" THEN "done" ELSE "failed"]
  /\ openIds' = [b \in Backfills |-> {}]
  /\ UNCHANGED <<rows, unparsed, waha, history, dbUp, fetched, existing>>

-----------------------------------------------------------------------------

Handle(m) == Check(m) \/ Store(m) \/ Save(m)

BackfillStep(b) == ReadIds(b) \/ InsertMissing(b) \/ EndBackfill(b)

CaptureNext ==
  \/ \E m \in Delivered : Happen(m) \/ Deliver(m) \/ Handle(m) \/ RunTasks(m)
  \/ \E b \in Backfills : FetchStore(b) \/ BackfillStep(b)
  \/ Outage
  \/ Recover
  \/ CaptureCrash

CaptureSpec == CaptureInit /\ [][CaptureNext]_captureVars

\* WAHA retries a pending webhook, the event loop and the threads keep running,
\* and an outage ends.
\* Between two webhooks the loop may serve one of them again and again, hence
\* strong fairness for the delivery of each.
CaptureFairness ==
  /\ \A m \in Delivered :
       SF_captureVars(Deliver(m)) /\ WF_captureVars(Handle(m)) /\ WF_captureVars(RunTasks(m))
  /\ \A b \in Backfills : WF_captureVars(BackfillStep(b))
  /\ WF_captureVars(Recover)

CaptureFairSpec == CaptureSpec /\ CaptureFairness

-----------------------------------------------------------------------------
(* Properties.                                                             *)

RowsOf(m) == {id \in rows : id[1] = m}

\* However often a webhook is delivered, whatever crashes between the commit
\* and the answer: its background tasks, the reply among them, run at most once.
TasksAtMostOnce == \A m \in ChatMessages : ran[m] <= 1

\* The tasks only ever work on a message that is stored.
TasksOnStored ==
  \A m \in ChatMessages : m \in tasks \/ ran[m] > 0 => WebhookId(m) \in rows

Kept(m) == RowsOf(m) # {} \/ m \in unparsed

\* What the README and webhook.py promise: a payload that cannot be stored is kept
\* in messages_unparsed instead of being lost, so WAHA may forget what it was
\* answered 200 for.
NothingIsLost == \A m \in Delivered : waha[m] = "acked" => Kept(m)

\* What holds of it: however deliveries, unclear commits, backfills and crashes
\* interleave, an acknowledged message is in a table unless its own fallback write
\* failed (NothingIsLost does not hold).
KeptOrDropped ==
  \A m \in Delivered : waha[m] = "acked" => Kept(m) \/ m \in dropped

\* Every message WAHA has to deliver is kept (or dropped) in the end, while
\* backfills hold ids the handler waits for and acknowledgements get lost.
EventuallyKept ==
  \A m \in Delivered : waha[m] = "pending" ~> Kept(m) \/ m \in dropped

\* The rows a redelivered webhook would find.
Recognized == {m \in ChatMessages : WebhookId(m) \in rows}

Mailbox == INSTANCE Inbox WITH Messages <- ChatMessages, stored <- Recognized, queued <- tasks

\* Deliveries, lost answers, outages, crashes and backfills come to this: tasks are
\* queued only in the step that stores their message.
DeliversToInbox == Mailbox!Spec

\* What the module docstring of the backfill says: a message captured live is never
\* stored a second time under a different id.
OneRowPerMessage == \A m \in ChatMessages : Cardinality(RowsOf(m)) <= 1
=============================================================================
