------------------------------- MODULE Ingest -------------------------------
(***************************************************************************)
(* The search index of one chat: the `messages` table, the sessions/chunks *)
(* that are rebuilt from it, and the per-chat cursor.  Two kinds of actors *)
(* rebuild the index:                                                      *)
(*                                                                         *)
(*   - a LIVE task per captured webhook message                            *)
(*     (app/ingest/live_ingest.py), debounced, serialized by a per-chat    *)
(*     lock and skipped when the cursor says nothing is newer;             *)
(*   - an IMPORT request (POST /ingest/export or POST                      *)
(*     /admin/store-backfill), which inserts messages and rebuilds the     *)
(*     index in one transaction, without the lock and the cursor.          *)
(*                                                                         *)
(* Every actor runs in a thread of its own on PostgreSQL's default READ    *)
(* COMMITTED isolation: a statement sees what is committed when it starts, *)
(* a DELETE waits for rows another open transaction has deleted and skips  *)
(* those that are gone by then.                                            *)
(*                                                                         *)
(* The session rows one rebuild writes are inserted, committed and deleted *)
(* together, so `index' holds one element, the actor that wrote them, per  *)
(* generation of rows, and `built' the messages that generation covers.    *)
(***************************************************************************)
EXTENDS Naturals, FiniteSets

CONSTANTS
  Messages,     \* rows the chat may ever hold, by waha_message_id
  Webhook,      \* those that WAHA delivers to the webhook
  Indexable,    \* those the sessionizer keeps: from_me = false, timestamp set
  Undated,      \* those without a timestamp
  Imports,      \* import requests
  ImportFile,   \* the messages each import request carries
  Faults,       \* what may fail: subset of {"embedding", "reply", "crash"}
  Nothing       \* no message, no lock holder

Actors == Messages \union Imports

ASSUME ConstantsAssumption ==
  /\ Webhook \subseteq Messages
  /\ Indexable \subseteq Messages
  /\ Undated \subseteq Messages \ Indexable
  /\ ImportFile \in [Imports -> SUBSET Messages \ {{}}]
  /\ Messages \intersect Imports = {}
  /\ Nothing \notin Messages \union Imports
  /\ Faults \subseteq {"embedding", "reply", "crash"}

VARIABLES
  messages,     \* committed rows of the messages table
  created,      \* created_at of a row: now() is the START of its transaction
  clock,        \* the time of the last transaction start
  index,        \* committed generations of session rows
  built,        \* the messages each actor's rebuild covers
  cursor,       \* chat_ingest_state.last_message_id
  armed,        \* the debounce window of the chat is running
  lock,         \* holder of the chat's entry in _INGEST_LOCKS
  pc,           \* where each actor is
  seen,         \* newest message a live task read under the lock
  snap,         \* generations visible to an actor's DELETE statement
  dead,         \* generations an actor's open transaction has deleted
  todo,         \* messages an import found missing from the table
  dirty,        \* messages an import has inserted but not committed
  began         \* start time of an import's transaction

tables == <<messages, created, clock, index, cursor>>
txs    == <<built, snap, dead, todo, dirty, began>>
vars   == <<tables, txs, armed, lock, pc, seen>>

\* A live task waits for its reply task, then for the lock; inside the lock it
\* walks through "locked" .. "writing".  An import walks through "inserting"
\* .. "writing".  The other phases are terminal, except "failed": an exception
\* has left the lock's block and the transaction is not rolled back yet.
LockedPhases   == {"locked", "stale", "selected", "deleting", "writing"}
LivePhases     == {"scheduled", "granted", "failed"} \union LockedPhases
ImportPhases   == {"inserting", "stale", "selected", "deleting", "writing"}
TerminalPhases == {"done", "debounced", "unchanged", "rolledback", "lost"}
Phases         == {"idle"} \union LivePhases \union ImportPhases
                           \union TerminalPhases

TypeOK ==
  /\ messages \subseteq Messages
  /\ created \in [Messages -> Nat]
  /\ clock \in Nat
  /\ index \subseteq Actors
  /\ built \in [Actors -> SUBSET Messages]
  /\ cursor \in Messages \union {Nothing}
  /\ armed \in BOOLEAN
  /\ lock \in Messages \union {Nothing}
  /\ pc \in [Actors -> Phases]
  /\ seen \in [Messages -> Messages \union {Nothing}]
  /\ snap \in [Actors -> SUBSET Actors]
  /\ dead \in [Actors -> SUBSET Actors]
  /\ todo \in [Imports -> SUBSET Messages]
  /\ dirty \in [Imports -> SUBSET Messages]
  /\ began \in [Imports -> Nat]

Init ==
  /\ messages = {}
  /\ created = [m \in Messages |-> 0]
  /\ clock = 0
  /\ index = {}
  /\ built = [a \in Actors |-> {}]
  /\ cursor = Nothing
  /\ armed = FALSE
  /\ lock = Nothing
  /\ pc = [a \in Actors |-> "idle"]
  /\ seen = [m \in Messages |-> Nothing]
  /\ snap = [a \in Actors |-> {}]
  /\ dead = [a \in Actors |-> {}]
  /\ todo = [i \in Imports |-> {}]
  /\ dirty = [i \in Imports |-> {}]
  /\ began = [i \in Imports |-> 0]

-----------------------------------------------------------------------------
(* Helpers.                                                                *)

\* Messages a committed session row covers: what /ask can retrieve.
Indexed == UNION {built[g] : g \in index}

\* The committed messages that should be retrievable.
ShouldBeIndexed == messages \intersect Indexable

\* The rows an ORDER BY created_at DESC may put first.
NewestMessages == {m \in messages : \A n \in messages : created[n] <= created[m]}

\* The rows a statement of actor a sees: the committed ones and its own.
VisibleTo(a) == messages \union (IF a \in Imports THEN dirty[a] ELSE {})

GoTo(a, phase) == pc' = [pc EXCEPT ![a] = phase]

\* The transaction of actor a ends: its row locks are released.
EndTransaction(a) ==
  /\ dead' = [dead EXCEPT ![a] = {}]
  /\ snap' = [snap EXCEPT ![a] = {}]

-----------------------------------------------------------------------------
(* Faulty variants: mistakes each property must catch, one per definition  *)
(* they stand in for.  No specification below uses them.                   *)

\* ReadNewest without waiting for the lock.
ReadNewestUnlocked(m) ==
  /\ pc[m] = "granted"
  /\ messages # {}
  /\ \E n \in NewestMessages : seen' = [seen EXCEPT ![m] = n]
  /\ lock' = m
  /\ GoTo(m, "locked")
  /\ UNCHANGED <<tables, txs, armed>>

\* CheckCursor that takes any earlier rebuild for a current one.
CheckAnyCursor(m) ==
  /\ pc[m] = "locked"
  /\ IF cursor # Nothing
       THEN GoTo(m, "unchanged") /\ lock' = Nothing
       ELSE GoTo(m, "stale") /\ UNCHANGED lock
  /\ UNCHANGED <<tables, txs, armed, seen>>

\* Commit that reads the newest row again after the rebuild.
CommitLatest(m) ==
  /\ pc[m] = "writing"
  /\ lock = m
  /\ cursor' \in NewestMessages
  /\ index' = (index \ dead[m]) \union (IF built[m] = {} THEN {} ELSE {m})
  /\ lock' = Nothing
  /\ EndTransaction(m)
  /\ GoTo(m, "done")
  /\ UNCHANGED <<messages, created, clock, built, todo, dirty, began, armed, seen>>

\* SelectMessages that only takes what is newer than the last rebuild.
SelectNewer(a) ==
  /\ pc[a] = "stale"
  /\ built' = [built EXCEPT ![a] =
                 {m \in VisibleTo(a) \intersect Indexable :
                    cursor # Nothing => created[m] > created[cursor]}]
  /\ GoTo(a, "selected")
  /\ UNCHANGED <<tables, snap, dead, todo, dirty, began, armed, lock, seen>>

\* FinishDelete that commits the deletion at once.
FinishAndCommitDelete(a) ==
  /\ pc[a] = "deleting"
  /\ \A b \in Actors \ {a} : dead[b] \intersect snap[a] = {}
  /\ index' = index \ snap[a]
  /\ GoTo(a, "writing")
  /\ UNCHANGED <<messages, created, clock, cursor, txs, armed, lock, seen>>

\* AbortImport after a rebuild that has committed its rows by itself.
AbortAfterRebuild(i) ==
  /\ "embedding" \in Faults
  /\ pc[i] = "writing"
  /\ index' = (index \ dead[i]) \union {i}
  /\ dirty' = [dirty EXCEPT ![i] = {}]
  /\ EndTransaction(i)
  /\ GoTo(i, "rolledback")
  /\ UNCHANGED <<messages, created, clock, cursor, built, todo, began, armed, lock, seen>>

\* AbortImport that leaves its transaction open.
AbortWithoutRollback(i) ==
  /\ "embedding" \in Faults
  /\ pc[i] = "writing"
  /\ GoTo(i, "rolledback")
  /\ UNCHANGED <<tables, txs, armed, lock, seen>>

-----------------------------------------------------------------------------
(* The webhook and the start of the background tasks.                      *)

\* A `message' webhook whose id is not stored: the row is committed and the
\* reply and ingest tasks are queued.  The handler holds the event loop from
\* the duplicate check to the commit, so captures are atomic and get created_at
\* in commit order.  The insert waits while an open import holds the same id.
\* A redelivery of a stored id changes nothing.
Capture(m) ==
  /\ m \in Webhook \ messages
  /\ pc[m] = "idle"
  /\ \A i \in Imports : m \notin dirty[i]
  /\ messages' = messages \union {m}
  /\ created' = [created EXCEPT ![m] = clock + 1]
  /\ clock' = clock + 1
  /\ GoTo(m, "scheduled")
  /\ UNCHANGED <<index, cursor, txs, armed, lock, seen>>

\* The reply task of the same request runs first; when it raises, Starlette
\* does not run the ingest task.
ReplyRaises(m) ==
  /\ "reply" \in Faults
  /\ pc[m] = "scheduled"
  /\ GoTo(m, "lost")
  /\ UNCHANGED <<tables, txs, armed, lock, seen>>

\* _ingest_cooldown.allowed: the first task of a window spends it, later ones
\* return at once.
Debounce(m) ==
  /\ pc[m] = "scheduled"
  /\ armed' = TRUE
  /\ GoTo(m, IF armed THEN "debounced" ELSE "granted")
  /\ UNCHANGED <<tables, txs, lock, seen>>

\* ingest_debounce_seconds have passed since the window was armed.
WindowExpires ==
  /\ armed
  /\ armed' = FALSE
  /\ UNCHANGED <<tables, txs, lock, pc, seen>>

-----------------------------------------------------------------------------
(* A live task inside the per-chat lock.                                   *)

\* Take the lock and read the newest row; with no row at all, return.
ReadNewest(m) ==
  /\ pc[m] = "granted"
  /\ lock = Nothing
  /\ \/ /\ messages = {}
        /\ GoTo(m, "unchanged")
        /\ UNCHANGED <<lock, seen>>
     \/ /\ \E n \in NewestMessages : seen' = [seen EXCEPT ![m] = n]
        /\ lock' = m
        /\ GoTo(m, "locked")
  /\ UNCHANGED <<tables, txs, armed>>

\* Read the cursor: nothing newer than the last rebuild means no rebuild.
CheckCursor(m) ==
  /\ pc[m] = "locked"
  /\ IF cursor = seen[m]
       THEN GoTo(m, "unchanged") /\ lock' = Nothing
       ELSE GoTo(m, "stale") /\ UNCHANGED lock
  /\ UNCHANGED <<tables, txs, armed, seen>>

\* The cursor moves to the newest row read BEFORE the rebuild, in the
\* transaction of the rebuild; the commit happens inside the lock.
\* The foreign key refuses a row that is gone by then.
Commit(m) ==
  /\ pc[m] = "writing"
  /\ lock = m
  /\ seen[m] \in messages
  /\ index' = (index \ dead[m]) \union (IF built[m] = {} THEN {} ELSE {m})
  /\ cursor' = seen[m]
  /\ lock' = Nothing
  /\ EndTransaction(m)
  /\ GoTo(m, "done")
  /\ UNCHANGED <<messages, created, clock, built, todo, dirty, began, armed, seen>>

\* Embedding raises (or the foreign key refuses the cursor): the exception
\* leaves the `with' block, so the lock is free before the rollback.
Fail(m) ==
  /\ pc[m] = "writing"
  /\ "embedding" \in Faults \/ seen[m] \notin messages
  /\ lock' = Nothing
  /\ GoTo(m, "failed")
  /\ UNCHANGED <<tables, txs, armed, seen>>

RollBack(m) ==
  /\ pc[m] = "failed"
  /\ EndTransaction(m)
  /\ GoTo(m, "rolledback")
  /\ UNCHANGED <<tables, built, todo, dirty, began, armed, lock, seen>>

-----------------------------------------------------------------------------
(* rebuild_sessions_and_chunks, shared by live tasks and imports.          *)

\* SELECT the chat's human messages and sessionize them.
SelectMessages(a) ==
  /\ pc[a] = "stale"
  /\ built' = [built EXCEPT ![a] = VisibleTo(a) \intersect Indexable]
  /\ GoTo(a, "selected")
  /\ UNCHANGED <<tables, snap, dead, todo, dirty, began, armed, lock, seen>>

\* DELETE FROM sessions starts: it sees the rows committed by now.
StartDelete(a) ==
  /\ pc[a] = "selected"
  /\ snap' = [snap EXCEPT ![a] = index]
  /\ GoTo(a, "deleting")
  /\ UNCHANGED <<tables, built, dead, todo, dirty, began, armed, lock, seen>>

\* It ends when no other open transaction has deleted one of those rows, and
\* it deletes the rows among them that still exist.  PostgreSQL locks them row
\* by row; here all at once, so no DELETE holds a row while it waits.
FinishDelete(a) ==
  /\ pc[a] = "deleting"
  /\ \A b \in Actors \ {a} : dead[b] \intersect snap[a] = {}
  /\ dead' = [dead EXCEPT ![a] = snap[a] \intersect index]
  /\ GoTo(a, "writing")
  /\ UNCHANGED <<tables, built, snap, todo, dirty, began, armed, lock, seen>>

-----------------------------------------------------------------------------
(* Imports: one transaction, no lock, no cursor.                           *)

\* Read the stored ids and keep the messages that are not stored yet; now()
\* is fixed here for every row of the transaction.
BeginImport(i) ==
  /\ pc[i] = "idle"
  /\ todo' = [todo EXCEPT ![i] = ImportFile[i] \ messages]
  /\ began' = [began EXCEPT ![i] = clock + 1]
  /\ clock' = clock + 1
  /\ GoTo(i, "inserting")
  /\ UNCHANGED <<messages, created, index, cursor, built, snap, dead, dirty,
                 armed, lock, seen>>

\* flush(): the rows are inserted.  The unique waha_message_id makes it wait
\* for an open transaction that inserted one of them, and fail (409, rollback)
\* when one was committed after the ids were read.  The rows go in one after
\* another; here all at once, so no flush holds an id while it waits: two
\* files that list the same messages in opposite orders are left out.
FlushImport(i) ==
  /\ pc[i] = "inserting"
  /\ \A j \in Imports \ {i} : dirty[j] \intersect todo[i] = {}
  /\ IF todo[i] \intersect messages = {}
       THEN /\ dirty' = [dirty EXCEPT ![i] = todo[i]]
            /\ created' = [m \in Messages |->
                             IF m \in todo[i] THEN began[i] ELSE created[m]]
            /\ GoTo(i, "stale")
       ELSE /\ GoTo(i, "rolledback")
            /\ UNCHANGED <<dirty, created>>
  /\ UNCHANGED <<messages, clock, index, cursor, built, snap, dead, todo, began,
                 armed, lock, seen>>

CommitImport(i) ==
  /\ pc[i] = "writing"
  /\ messages' = messages \union dirty[i]
  /\ index' = (index \ dead[i]) \union (IF built[i] = {} THEN {} ELSE {i})
  /\ dirty' = [dirty EXCEPT ![i] = {}]
  /\ EndTransaction(i)
  /\ GoTo(i, "done")
  /\ UNCHANGED <<created, clock, cursor, built, todo, began, armed, lock, seen>>

\* EmbeddingError: 502, rollback.
AbortImport(i) ==
  /\ "embedding" \in Faults
  /\ pc[i] = "writing"
  /\ dirty' = [dirty EXCEPT ![i] = {}]
  /\ EndTransaction(i)
  /\ GoTo(i, "rolledback")
  /\ UNCHANGED <<tables, built, todo, began, armed, lock, seen>>

-----------------------------------------------------------------------------
(* The environment.                                                        *)

\* The process dies: queued and running tasks, locks and the debounce are
\* gone, and PostgreSQL rolls the open transactions back.
Crash ==
  /\ "crash" \in Faults
  /\ \E a \in Actors : pc[a] \notin TerminalPhases \union {"idle"}
  /\ pc' = [a \in Actors |->
              IF pc[a] \in TerminalPhases \union {"idle"} THEN pc[a] ELSE "lost"]
  /\ lock' = Nothing
  /\ armed' = FALSE
  /\ snap' = [a \in Actors |-> {}]
  /\ dead' = [a \in Actors |-> {}]
  /\ dirty' = [i \in Imports |-> {}]
  /\ UNCHANGED <<tables, built, todo, began, seen>>

\* scripts/purge_test_data.sh --confirm; the cursor's foreign key is
\* ON DELETE SET NULL.
Purge ==
  /\ messages \intersect Undated # {}
  /\ messages' = messages \ Undated
  /\ cursor' = IF cursor \in Undated THEN Nothing ELSE cursor
  /\ UNCHANGED <<created, clock, index, txs, armed, lock, pc, seen>>

-----------------------------------------------------------------------------

LiveStep(m) ==
  \/ ReadNewest(m) \/ CheckCursor(m)
  \/ SelectMessages(m) \/ StartDelete(m) \/ FinishDelete(m)
  \/ Commit(m) \/ Fail(m) \/ RollBack(m)

ImportStep(i) ==
  \/ FlushImport(i)
  \/ SelectMessages(i) \/ StartDelete(i) \/ FinishDelete(i)
  \/ CommitImport(i) \/ AbortImport(i)

LiveNext ==
  \/ \E m \in Messages :
       Capture(m) \/ ReplyRaises(m) \/ Debounce(m) \/ LiveStep(m)
  \/ WindowExpires
  \/ Crash
  \/ Purge

Next ==
  \/ LiveNext
  \/ \E i \in Imports : BeginImport(i) \/ ImportStep(i)

\* The chat as it runs day to day: only webhooks touch its index.
LiveSpec == Init /\ [][LiveNext]_vars

\* The same chat while exports and backfills run as well.
Spec == Init /\ [][Next]_vars

\* A thread that can take its next step takes it, and time passes.
Fairness ==
  /\ \A m \in Messages : WF_vars(Debounce(m)) /\ WF_vars(LiveStep(m))
  /\ \A i \in Imports : WF_vars(ImportStep(i))
  /\ WF_vars(WindowExpires)

LiveFairSpec == LiveSpec /\ Fairness
FairSpec     == Spec /\ Fairness

-----------------------------------------------------------------------------
(* Properties of the daily operation (LiveSpec).                           *)

\* No message is in two committed session rows: a rebuild replaces what the
\* last one wrote, even when a failed task still has its transaction open.
NoDuplicateSessions ==
  \A g, h \in index : g # h => built[g] \intersect built[h] = {}

\* The cursor is sound as a reason to skip a rebuild: every stored message up
\* to the one it names that should be searchable is searchable.
CursorSound ==
  cursor # Nothing =>
    \A m \in ShouldBeIndexed : created[m] <= created[cursor] => m \in Indexed

\* A task that ends with a rebuild, or with "nothing new", leaves everything
\* captured up to its own message searchable, whatever other tasks, failures,
\* crashes and purges come before, in between or later.
FinishedTaskVouches ==
  \A t \in Messages : pc[t] \in {"done", "unchanged"} =>
    \A m \in ShouldBeIndexed : created[m] <= created[t] => m \in Indexed

\* A searchable message stays searchable: readers of a rebuild in progress see
\* the old rows, and a failed or interrupted rebuild takes nothing away.
SearchableStays == [][Indexed \subseteq Indexed']_vars

\* At most one live task is between reading the newest row and its commit; a
\* second one inside the lock would build on an index about to be replaced.
RebuildsSerialized ==
  \A t, u \in Messages :
    pc[t] \in LockedPhases /\ pc[u] \in LockedPhases => t = u

\* What the module's opening line claims: the index is kept in sync with the
\* webhook, so a captured message becomes searchable.
CapturedIsIndexed ==
  \A m \in Messages \intersect Indexable : m \in messages ~> m \in Indexed

\* The reader's view: how many committed rows cover a message.
Copies == [m \in Messages |-> Cardinality({g \in index : m \in built[g]})]

Reader == INSTANCE SearchIndex WITH captured <- messages, copies <- Copies

\* The daily operation implements the search index a reader is promised: every
\* step is a capture, the appearance of one rebuild, a purge, or invisible.
ImplementsSearchIndex == Reader!Spec

-----------------------------------------------------------------------------
(* Properties that survive imports (Spec).                                 *)

Waiting == {m \in Messages : pc[m] = "scheduled"}

Box == INSTANCE Inbox WITH stored <- messages, queued <- Waiting

\* Messages come to the ingest tasks as Capture queues them: with their row, once.
ImplementsInbox == Box!Spec

\* Session rows only ever cover stored messages: an import that rolls back
\* takes its messages and the rows built from them away together.
IndexedIsStored == Indexed \subseteq messages

\* Every started task and import ends: the waits on the chat lock, on inserted
\* ids and on deleted rows are never circular and never left behind.
EveryActorEnds ==
  \A a \in Actors : pc[a] \notin {"idle"} ~> pc[a] \in TerminalPhases

-----------------------------------------------------------------------------
(* The inductive invariant of LiveSpec.                                    *)

\* Imports take no part in LiveSpec.
ImportsIdle == \A i \in Imports : pc[i] = "idle"

\* The lock is held by the one task that is inside its block.
LockHeld == \A t \in Messages : pc[t] \in LockedPhases <=> lock = t

\* created_at never runs ahead of the clock; a row that was captured is not
\* captured again.
TimesKnown ==
  /\ \A m \in Messages : created[m] <= clock
  /\ \A m \in messages : pc[m] # "idle"

\* There is at most one generation of session rows, written by a task that
\* ended, and it covers stored, indexable messages.
OneGeneration ==
  /\ \A g \in index : pc[g] = "done"
  /\ \A g, h \in index : g = h
  /\ Indexed \subseteq ShouldBeIndexed

\* The newest row a task has read is at least as new as every row captured
\* before the task.
SeenIsNewest ==
  \A t \in Messages : pc[t] \in LockedPhases =>
    /\ seen[t] \in Messages
    /\ pc[seen[t]] # "idle"
    /\ \A m \in messages : created[m] <= created[t] => created[m] <= created[seen[t]]

\* What a task is about to write covers what is searchable already and every
\* row up to the newest one it read.
BuiltCovers ==
  \A t \in Messages : pc[t] \in {"selected", "deleting", "writing"} =>
    /\ built[t] \subseteq ShouldBeIndexed
    /\ Indexed \subseteq built[t]
    /\ \A m \in ShouldBeIndexed : created[m] <= created[seen[t]] => m \in built[t]

\* What it deletes is everything that is there.
DeletesAll ==
  \A t \in Messages :
    /\ pc[t] = "deleting" => snap[t] = index
    /\ pc[t] = "writing" => dead[t] = index

CursorStored == cursor # Nothing => cursor \in messages

IInv ==
  /\ TypeOK
  /\ ImportsIdle
  /\ LockHeld
  /\ TimesKnown
  /\ OneGeneration
  /\ SeenIsNewest
  /\ BuiltCovers
  /\ DeletesAll
  /\ CursorStored
  /\ CursorSound
  /\ FinishedTaskVouches

=============================================================================
