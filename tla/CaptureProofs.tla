---------------------------- MODULE CaptureProofs ----------------------------
(***************************************************************************)
(* Capture, for any messages, any backfills and any number of redeliveries, *)
(* outages and crashes: the table only grows, and that is what makes       *)
(* at-least-once delivery safe.  A row is there before its tasks are, and a *)
(* redelivery that finds it queues nothing.  So Capture implements Inbox.  *)
(***************************************************************************)
EXTENDS Capture, TLAPS

\* A message whose tasks are queued has not run them; none ran them twice.
QueuedOnce ==
  \A m \in ChatMessages : ran[m] <= 1 /\ (m \in tasks => ran[m] = 0)

\* The inductive invariant.
CInv ==
  /\ CaptureTypeOK
  /\ QueuedOnce
  /\ TasksOnStored
  /\ KeptOrDropped

-----------------------------------------------------------------------------

\* Nothing has happened, so every part holds of the initial states.
LEMMA InitCInv == CaptureInit => CInv
<1> SUFFICES ASSUME CaptureInit PROVE CInv
  OBVIOUS
<1>1. CaptureTypeOK
  BY DEF CaptureInit, CaptureTypeOK
<1>2. QueuedOnce /\ TasksOnStored
  BY DEF CaptureInit, QueuedOnce, TasksOnStored
<1>3. KeptOrDropped
  BY DEF CaptureInit, KeptOrDropped
<1> QED
  BY <1>1, <1>2, <1>3 DEF CInv

\* What was kept or counted as dropped stays so: no step removes a row, an
\* unparsed message or a mark.
LEMMA KeptGrows ==
  ASSUME [CaptureNext]_captureVars
  PROVE  rows \subseteq rows' /\ unparsed \subseteq unparsed' /\ dropped \subseteq dropped'
<1>1. ASSUME NEW m \in Delivered, Happen(m)
      PROVE  rows \subseteq rows' /\ unparsed \subseteq unparsed' /\ dropped \subseteq dropped'
  BY <1>1 DEF Happen, history
<1>2. ASSUME NEW m \in Delivered, Deliver(m)
      PROVE  rows \subseteq rows' /\ unparsed \subseteq unparsed' /\ dropped \subseteq dropped'
  BY <1>2 DEF Deliver, history
<1>3. ASSUME NEW m \in Delivered, Check(m)
      PROVE  rows \subseteq rows' /\ unparsed \subseteq unparsed' /\ dropped \subseteq dropped'
  BY <1>3 DEF Check, history
<1>4. ASSUME NEW m \in Delivered, Store(m)
      PROVE  rows \subseteq rows' /\ unparsed \subseteq unparsed' /\ dropped \subseteq dropped'
  BY <1>4 DEF Store, history
<1>5. ASSUME NEW m \in Delivered, Save(m)
      PROVE  rows \subseteq rows' /\ unparsed \subseteq unparsed' /\ dropped \subseteq dropped'
  BY <1>5 DEF Save
<1>6. ASSUME NEW m \in Delivered, RunTasks(m)
      PROVE  rows \subseteq rows' /\ unparsed \subseteq unparsed' /\ dropped \subseteq dropped'
  BY <1>6 DEF RunTasks, history
<1>7. ASSUME NEW b \in Backfills, FetchStore(b)
      PROVE  rows \subseteq rows' /\ unparsed \subseteq unparsed' /\ dropped \subseteq dropped'
  BY <1>7 DEF FetchStore, history
<1>8. ASSUME NEW b \in Backfills, ReadIds(b)
      PROVE  rows \subseteq rows' /\ unparsed \subseteq unparsed' /\ dropped \subseteq dropped'
  BY <1>8 DEF ReadIds, history
<1>9. ASSUME NEW b \in Backfills, InsertMissing(b)
      PROVE  rows \subseteq rows' /\ unparsed \subseteq unparsed' /\ dropped \subseteq dropped'
  BY <1>9 DEF InsertMissing, history
<1>10. ASSUME NEW b \in Backfills, EndBackfill(b)
       PROVE  rows \subseteq rows' /\ unparsed \subseteq unparsed' /\ dropped \subseteq dropped'
  BY <1>10 DEF EndBackfill, history
<1>11. CASE Outage
  BY <1>11 DEF Outage, history
<1>12. CASE Recover
  BY <1>12 DEF Recover, history
<1>13. CASE CaptureCrash
  BY <1>13 DEF CaptureCrash, history
<1>14. CASE UNCHANGED captureVars
  BY <1>14 DEF captureVars, history
<1> QED
  BY <1>1, <1>2, <1>3, <1>4, <1>5, <1>6, <1>7, <1>8, <1>9, <1>10, <1>11, <1>12, <1>13,
     <1>14 DEF CaptureNext, Handle, BackfillStep

\* Each step keeps the types; a backfill only inserts store ids.
LEMMA TypeStep ==
  ASSUME CaptureTypeOK, [CaptureNext]_captureVars
  PROVE  CaptureTypeOK'
<1>rows. rows \subseteq Ids
  BY DEF CaptureTypeOK
<1>unparsed. unparsed \subseteq ChatMessages
  BY DEF CaptureTypeOK
<1>waha. waha \in [Delivered -> {"unsent", "pending", "acked"}]
  BY DEF CaptureTypeOK
<1>loop. loop \in (ChatMessages \X {"check", "store", "save"}) \union {Free}
  BY DEF CaptureTypeOK
<1>tasks. tasks \subseteq ChatMessages
  BY DEF CaptureTypeOK
<1>ran. ran \in [ChatMessages -> Nat]
  BY DEF CaptureTypeOK
<1>dbUp. dbUp \in BOOLEAN
  BY DEF CaptureTypeOK
<1>bpc. bpc \in [Backfills -> {"idle", "reading", "inserting", "inserted", "done", "failed"}]
  BY DEF CaptureTypeOK
<1>fetched. fetched \in [Backfills -> SUBSET ChatMessages]
  BY DEF CaptureTypeOK
<1>existing. existing \in [Backfills -> SUBSET Ids]
  BY DEF CaptureTypeOK
<1>openIds. openIds \in [Backfills -> SUBSET Ids]
  BY DEF CaptureTypeOK
<1>mishaps. mishaps \in Nat
  BY DEF CaptureTypeOK
<1>dropped. dropped \subseteq ChatMessages
  BY DEF CaptureTypeOK
<1>1. ASSUME NEW m \in Delivered, Happen(m) PROVE CaptureTypeOK'
  <2>1. waha' \in [Delivered -> {"unsent", "pending", "acked"}]
    BY <1>1, <1>waha DEF Happen
  <2>2. UNCHANGED <<rows, unparsed, loop, tasks, ran, dbUp, bpc, fetched,
                    existing, openIds, mishaps, dropped>>
    BY <1>1 DEF Happen, backfill, history
  <2> QED
    BY <2>1, <2>2, <1>rows, <1>unparsed, <1>loop, <1>tasks, <1>ran, <1>dbUp, <1>bpc,
       <1>fetched, <1>existing, <1>openIds, <1>mishaps, <1>dropped DEF CaptureTypeOK
<1>2. ASSUME NEW m \in Delivered, Deliver(m) PROVE CaptureTypeOK'
  <2>1. m \in ChatMessages
    BY DEF Delivered
  <2>2. loop' \in (ChatMessages \X {"check", "store", "save"}) \union {Free}
    BY <1>2, <1>loop, <2>1 DEF Deliver
  <2>3. UNCHANGED <<rows, unparsed, waha, tasks, ran, dbUp, bpc, fetched,
                    existing, openIds, mishaps, dropped>>
    BY <1>2 DEF Deliver, backfill, history
  <2> QED
    BY <2>2, <2>3, <1>rows, <1>unparsed, <1>waha, <1>tasks, <1>ran, <1>dbUp, <1>bpc,
       <1>fetched, <1>existing, <1>openIds, <1>mishaps, <1>dropped DEF CaptureTypeOK
<1>3. ASSUME NEW m \in Delivered, Check(m) PROVE CaptureTypeOK'
  <2>1. m \in ChatMessages
    BY DEF Delivered
  <2>2. loop' \in (ChatMessages \X {"check", "store", "save"}) \union {Free}
    BY <1>3, <1>loop, <2>1 DEF Check, Answer
  <2>3. waha' \in [Delivered -> {"unsent", "pending", "acked"}]
    BY <1>3, <1>waha, <2>1 DEF Check, Answer
  <2>4. UNCHANGED <<rows, unparsed, tasks, ran, dbUp, bpc, fetched, existing,
                    openIds, mishaps, dropped>>
    BY <1>3 DEF Check, backfill, history
  <2> QED
    BY <2>2, <2>3, <2>4, <1>rows, <1>unparsed, <1>tasks, <1>ran, <1>dbUp, <1>bpc,
       <1>fetched, <1>existing, <1>openIds, <1>mishaps, <1>dropped DEF CaptureTypeOK
<1>4. ASSUME NEW m \in Delivered, Store(m) PROVE CaptureTypeOK'
  <2>1. WebhookId(m) \in Ids /\ m \in ChatMessages
    BY DEF WebhookId, Ids, Delivered
  <2>2. rows' \subseteq Ids
    BY <1>4, <1>rows, <2>1 DEF Store, Answer
  <2>3. tasks' \subseteq ChatMessages
    BY <1>4, <1>tasks, <2>1 DEF Store, Answer
  <2>4. loop' \in (ChatMessages \X {"check", "store", "save"}) \union {Free}
    BY <1>4, <1>loop, <2>1 DEF Store, Answer
  <2>5. waha' \in [Delivered -> {"unsent", "pending", "acked"}]
    BY <1>4, <1>waha, <2>1 DEF Store, Answer
  <2>6. UNCHANGED <<unparsed, ran, dbUp, bpc, fetched, existing, openIds, mishaps, dropped>>
    BY <1>4 DEF Store, backfill, history
  <2> QED
    BY <2>2, <2>3, <2>4, <2>5, <2>6, <1>unparsed, <1>ran, <1>dbUp, <1>bpc, <1>fetched,
       <1>existing, <1>openIds, <1>mishaps, <1>dropped DEF CaptureTypeOK
<1>5. ASSUME NEW m \in Delivered, Save(m) PROVE CaptureTypeOK'
  <2>1. m \in ChatMessages
    BY DEF Delivered
  <2>2. unparsed' \subseteq ChatMessages
    BY <1>5, <1>unparsed, <2>1 DEF Save, Answer
  <2>3. dropped' \subseteq ChatMessages
    BY <1>5, <1>dropped, <2>1 DEF Save, Answer
  <2>4. loop' \in (ChatMessages \X {"check", "store", "save"}) \union {Free}
    BY <1>5, <1>loop, <2>1 DEF Save, Answer
  <2>5. waha' \in [Delivered -> {"unsent", "pending", "acked"}]
    BY <1>5, <1>waha, <2>1 DEF Save, Answer
  <2>6. UNCHANGED <<rows, tasks, ran, dbUp, bpc, fetched, existing, openIds, mishaps>>
    BY <1>5 DEF Save, backfill, history
  <2> QED
    BY <2>2, <2>3, <2>4, <2>5, <2>6, <1>rows, <1>tasks, <1>ran, <1>dbUp, <1>bpc,
       <1>fetched, <1>existing, <1>openIds, <1>mishaps DEF CaptureTypeOK
<1>6. ASSUME NEW m \in Delivered, RunTasks(m) PROVE CaptureTypeOK'
  <2>1. m \in ChatMessages /\ ran[m] + 1 \in Nat
    BY <1>ran DEF Delivered
  <2>2. tasks' \subseteq ChatMessages
    BY <1>6, <1>tasks, <2>1 DEF RunTasks
  <2>3. ran' \in [ChatMessages -> Nat]
    BY <1>6, <1>ran, <2>1 DEF RunTasks
  <2>4. UNCHANGED <<rows, unparsed, waha, loop, dbUp, bpc, fetched, existing,
                    openIds, mishaps, dropped>>
    BY <1>6 DEF RunTasks, backfill, history
  <2> QED
    BY <2>2, <2>3, <2>4, <1>rows, <1>unparsed, <1>waha, <1>loop, <1>dbUp, <1>bpc,
       <1>fetched, <1>existing, <1>openIds, <1>mishaps, <1>dropped DEF CaptureTypeOK
<1>7. ASSUME NEW b \in Backfills, FetchStore(b) PROVE CaptureTypeOK'
  <2>1. fetched' \in [Backfills -> SUBSET ChatMessages]
    BY <1>7, <1>fetched, CaptureAssumption DEF FetchStore, Delivered
  <2>2. bpc' \in [Backfills -> {"idle", "reading", "inserting", "inserted", "done", "failed"}]
    BY <1>7, <1>bpc DEF FetchStore, Delivered
  <2>3. UNCHANGED <<rows, unparsed, waha, loop, tasks, ran, dbUp, existing,
                    openIds, mishaps, dropped>>
    BY <1>7 DEF FetchStore, backfill, history
  <2> QED
    BY <2>1, <2>2, <2>3, <1>rows, <1>unparsed, <1>waha, <1>loop, <1>tasks, <1>ran,
       <1>dbUp, <1>existing, <1>openIds, <1>mishaps, <1>dropped DEF CaptureTypeOK
<1>8. ASSUME NEW b \in Backfills, ReadIds(b) PROVE CaptureTypeOK'
  <2>1. existing' \in [Backfills -> SUBSET Ids]
    BY <1>8, <1>existing, <1>rows DEF ReadIds
  <2>2. bpc' \in [Backfills -> {"idle", "reading", "inserting", "inserted", "done", "failed"}]
    BY <1>8, <1>bpc, <1>rows DEF ReadIds
  <2>3. UNCHANGED <<rows, unparsed, waha, loop, tasks, ran, dbUp, fetched,
                    openIds, mishaps, dropped>>
    BY <1>8 DEF ReadIds, backfill, history
  <2> QED
    BY <2>1, <2>2, <2>3, <1>rows, <1>unparsed, <1>waha, <1>loop, <1>tasks, <1>ran,
       <1>dbUp, <1>fetched, <1>openIds, <1>mishaps, <1>dropped DEF CaptureTypeOK
<1>9. ASSUME NEW b \in Backfills, InsertMissing(b) PROVE CaptureTypeOK'
  <2>1. Missing(b) \subseteq Ids
    <3>1. fetched[b] \subseteq ChatMessages
      BY <1>fetched
    <3>2. \A n \in ChatMessages : StoreId(n) \in Ids
      BY DEF StoreId, Ids
    <3> QED
      BY <3>1, <3>2 DEF Missing
  <2>2. openIds' \in [Backfills -> SUBSET Ids]
    BY <1>9, <1>openIds, <2>1 DEF InsertMissing
  <2>3. bpc' \in [Backfills -> {"idle", "reading", "inserting", "inserted", "done", "failed"}]
    BY <1>9, <1>bpc, <2>1 DEF InsertMissing
  <2>4. UNCHANGED <<rows, unparsed, waha, loop, tasks, ran, dbUp, fetched,
                    existing, mishaps, dropped>>
    BY <1>9 DEF InsertMissing, backfill, history
  <2> QED
    BY <2>2, <2>3, <2>4, <1>rows, <1>unparsed, <1>waha, <1>loop, <1>tasks, <1>ran,
       <1>dbUp, <1>fetched, <1>existing, <1>mishaps, <1>dropped DEF CaptureTypeOK
<1>10. ASSUME NEW b \in Backfills, EndBackfill(b) PROVE CaptureTypeOK'
  <2>1. rows' \subseteq Ids
    BY <1>10, <1>rows, <1>openIds DEF EndBackfill
  <2>2. bpc' \in [Backfills -> {"idle", "reading", "inserting", "inserted", "done", "failed"}]
    BY <1>10, <1>bpc DEF EndBackfill
  <2>3. openIds' \in [Backfills -> SUBSET Ids]
    BY <1>10, <1>openIds DEF EndBackfill
  <2>4. UNCHANGED <<unparsed, waha, loop, tasks, ran, dbUp, fetched, existing,
                    mishaps, dropped>>
    BY <1>10 DEF EndBackfill, backfill, history
  <2> QED
    BY <2>1, <2>2, <2>3, <2>4, <1>unparsed, <1>waha, <1>loop, <1>tasks, <1>ran, <1>dbUp,
       <1>fetched, <1>existing, <1>mishaps, <1>dropped DEF CaptureTypeOK
<1>11. CASE Outage
  <2>1. dbUp' \in BOOLEAN
    BY <1>11, <1>dbUp DEF Outage
  <2>2. mishaps' \in Nat
    BY <1>11, <1>mishaps DEF Outage
  <2>3. UNCHANGED <<rows, unparsed, waha, loop, tasks, ran, bpc, fetched,
                    existing, openIds, dropped>>
    BY <1>11 DEF Outage, backfill, history
  <2> QED
    BY <2>1, <2>2, <2>3, <1>rows, <1>unparsed, <1>waha, <1>loop, <1>tasks, <1>ran,
       <1>bpc, <1>fetched, <1>existing, <1>openIds, <1>dropped DEF CaptureTypeOK
<1>12. CASE Recover
  <2>1. dbUp' \in BOOLEAN
    BY <1>12, <1>dbUp DEF Recover
  <2>2. UNCHANGED <<rows, unparsed, waha, loop, tasks, ran, bpc, fetched,
                    existing, openIds, mishaps, dropped>>
    BY <1>12 DEF Recover, backfill, history
  <2> QED
    BY <2>1, <2>2, <1>rows, <1>unparsed, <1>waha, <1>loop, <1>tasks, <1>ran, <1>bpc,
       <1>fetched, <1>existing, <1>openIds, <1>mishaps, <1>dropped DEF CaptureTypeOK
<1>13. CASE CaptureCrash
  <2>1. mishaps' \in Nat
    BY <1>13, <1>mishaps DEF CaptureCrash
  <2>2. loop' \in (ChatMessages \X {"check", "store", "save"}) \union {Free}
    BY <1>13, <1>loop DEF CaptureCrash
  <2>3. tasks' \subseteq ChatMessages
    BY <1>13, <1>tasks DEF CaptureCrash
  <2>4. bpc' \in [Backfills -> {"idle", "reading", "inserting", "inserted", "done", "failed"}]
    BY <1>13, <1>bpc DEF CaptureCrash
  <2>5. openIds' \in [Backfills -> SUBSET Ids]
    BY <1>13, <1>openIds DEF CaptureCrash
  <2>6. UNCHANGED <<rows, unparsed, waha, ran, dbUp, fetched, existing, dropped>>
    BY <1>13 DEF CaptureCrash, backfill, history
  <2> QED
    BY <2>1, <2>2, <2>3, <2>4, <2>5, <2>6, <1>rows, <1>unparsed, <1>waha, <1>ran,
       <1>dbUp, <1>fetched, <1>existing, <1>dropped DEF CaptureTypeOK
<1>14. CASE UNCHANGED captureVars
  <2>1. UNCHANGED <<rows, unparsed, waha, loop, tasks, ran, dbUp, bpc,
                    fetched, existing, openIds, mishaps, dropped>>
    BY <1>14 DEF captureVars, backfill, history
  <2> QED
    BY <2>1, <1>rows, <1>unparsed, <1>waha, <1>loop, <1>tasks, <1>ran, <1>dbUp, <1>bpc,
       <1>fetched, <1>existing, <1>openIds, <1>mishaps, <1>dropped DEF CaptureTypeOK
<1> QED
  BY <1>1, <1>2, <1>3, <1>4, <1>5, <1>6, <1>7, <1>8, <1>9, <1>10, <1>11, <1>12, <1>13,
     <1>14 DEF CaptureNext, Handle, BackfillStep

\* Tasks are queued only by the step that stores the row, and no other step
\* brings a message back to them.
LEMMA TaskStep ==
  ASSUME CaptureTypeOK, QueuedOnce, TasksOnStored, [CaptureNext]_captureVars
  PROVE  QueuedOnce' /\ TasksOnStored'
<1>ran. ran \in [ChatMessages -> Nat]
  BY DEF CaptureTypeOK
<1>grow. rows \subseteq rows'
  BY KeptGrows
<1>1. ASSUME NEW m \in Delivered, Happen(m) PROVE QueuedOnce' /\ TasksOnStored'
  <2>1. UNCHANGED <<ran, tasks>>
    BY <1>1 DEF Happen, history
  <2> QED
    BY <2>1, <1>grow DEF QueuedOnce, TasksOnStored, WebhookId
<1>2. ASSUME NEW m \in Delivered, Deliver(m) PROVE QueuedOnce' /\ TasksOnStored'
  <2>1. UNCHANGED <<ran, tasks>>
    BY <1>2 DEF Deliver, history
  <2> QED
    BY <2>1, <1>grow DEF QueuedOnce, TasksOnStored, WebhookId
<1>3. ASSUME NEW m \in Delivered, Check(m) PROVE QueuedOnce' /\ TasksOnStored'
  <2>1. UNCHANGED <<ran, tasks>>
    BY <1>3 DEF Check, history
  <2> QED
    BY <2>1, <1>grow DEF QueuedOnce, TasksOnStored, WebhookId
<1>4. ASSUME NEW m \in Delivered, Store(m) PROVE QueuedOnce' /\ TasksOnStored'
  <2>1. ran' = ran
    BY <1>4 DEF Store, history
  <2>2. CASE tasks' = tasks
    BY <2>1, <2>2, <1>grow DEF QueuedOnce, TasksOnStored, WebhookId
  <2>3. CASE tasks' = tasks \union {m} /\ WebhookId(m) \notin rows /\ WebhookId(m) \in rows'
    <3>1. ran[m] = 0
      BY <2>3, <1>ran DEF TasksOnStored, Delivered
    <3>2. QueuedOnce'
      BY <2>1, <2>3, <3>1 DEF QueuedOnce
    <3>3. TasksOnStored'
      BY <2>1, <2>3, <1>grow DEF TasksOnStored, WebhookId
    <3> QED
      BY <3>2, <3>3
  <2> QED
    BY <1>4, <2>2, <2>3 DEF Store
<1>5. ASSUME NEW m \in Delivered, Save(m) PROVE QueuedOnce' /\ TasksOnStored'
  <2>1. UNCHANGED <<ran, tasks>>
    BY <1>5 DEF Save
  <2> QED
    BY <2>1, <1>grow DEF QueuedOnce, TasksOnStored, WebhookId
<1>6. ASSUME NEW m \in Delivered, RunTasks(m) PROVE QueuedOnce' /\ TasksOnStored'
  <2>1. ran[m] = 0 /\ m \in ChatMessages
    BY <1>6 DEF RunTasks, QueuedOnce, Delivered
  <2>2. ran' = [ran EXCEPT ![m] = 1]
    BY <1>6, <2>1, <1>ran DEF RunTasks
  <2>3. QueuedOnce'
    BY <1>6, <2>1, <2>2, <1>ran DEF RunTasks, QueuedOnce
  <2>4. WebhookId(m) \in rows
    BY <1>6, <2>1 DEF RunTasks, TasksOnStored
  <2>5. TasksOnStored'
    BY <1>6, <2>2, <2>4, <1>ran DEF RunTasks, TasksOnStored, WebhookId
  <2> QED
    BY <2>3, <2>5
<1>7. ASSUME NEW b \in Backfills, FetchStore(b) PROVE QueuedOnce' /\ TasksOnStored'
  <2>1. UNCHANGED <<ran, tasks>>
    BY <1>7 DEF FetchStore, history
  <2> QED
    BY <2>1, <1>grow DEF QueuedOnce, TasksOnStored, WebhookId
<1>8. ASSUME NEW b \in Backfills, ReadIds(b) PROVE QueuedOnce' /\ TasksOnStored'
  <2>1. UNCHANGED <<ran, tasks>>
    BY <1>8 DEF ReadIds, history
  <2> QED
    BY <2>1, <1>grow DEF QueuedOnce, TasksOnStored, WebhookId
<1>9. ASSUME NEW b \in Backfills, InsertMissing(b) PROVE QueuedOnce' /\ TasksOnStored'
  <2>1. UNCHANGED <<ran, tasks>>
    BY <1>9 DEF InsertMissing, history
  <2> QED
    BY <2>1, <1>grow DEF QueuedOnce, TasksOnStored, WebhookId
<1>10. ASSUME NEW b \in Backfills, EndBackfill(b) PROVE QueuedOnce' /\ TasksOnStored'
  <2>1. UNCHANGED <<ran, tasks>>
    BY <1>10 DEF EndBackfill, history
  <2> QED
    BY <2>1, <1>grow DEF QueuedOnce, TasksOnStored, WebhookId
<1>11. CASE Outage
  <2>1. UNCHANGED <<ran, tasks>>
    BY <1>11 DEF Outage, history
  <2> QED
    BY <2>1, <1>grow DEF QueuedOnce, TasksOnStored, WebhookId
<1>12. CASE Recover
  <2>1. UNCHANGED <<ran, tasks>>
    BY <1>12 DEF Recover, history
  <2> QED
    BY <2>1, <1>grow DEF QueuedOnce, TasksOnStored, WebhookId
<1>13. CASE CaptureCrash
  BY <1>13, <1>grow DEF CaptureCrash, history, QueuedOnce, TasksOnStored, WebhookId
<1>14. CASE UNCHANGED captureVars
  <2>1. UNCHANGED <<ran, tasks>>
    BY <1>14 DEF captureVars, history
  <2> QED
    BY <2>1, <1>grow DEF QueuedOnce, TasksOnStored, WebhookId
<1> QED
  BY <1>1, <1>2, <1>3, <1>4, <1>5, <1>6, <1>7, <1>8, <1>9, <1>10, <1>11, <1>12, <1>13,
     <1>14 DEF CaptureNext, Handle, BackfillStep

\* The answer 200 is only given for a message that is kept or dropped by then.
LEMMA KeptStep ==
  ASSUME CaptureTypeOK, KeptOrDropped, [CaptureNext]_captureVars
  PROVE  KeptOrDropped'
<1> DEFINE Safe(k) == Kept(k) \/ k \in dropped
<1>waha. waha \in [Delivered -> {"unsent", "pending", "acked"}]
  BY DEF CaptureTypeOK
<1>stays. \A k \in ChatMessages : Safe(k) => Safe(k)'
  BY KeptGrows DEF Kept, RowsOf
<1>was. \A k \in Delivered : k \in ChatMessages /\ (waha[k] = "acked" => Safe(k))
  BY DEF KeptOrDropped, Delivered
<1> SUFFICES ASSUME NEW k \in Delivered, waha'[k] = "acked" PROVE Safe(k)'
  BY DEF KeptOrDropped
<1>same. waha[k] = "acked" => Safe(k)'
  BY <1>was, <1>stays
<1>1. ASSUME NEW m \in Delivered, Happen(m) PROVE Safe(k)'
  BY <1>1, <1>waha, <1>same DEF Happen
<1>2. ASSUME NEW m \in Delivered, Deliver(m) PROVE Safe(k)'
  BY <1>2, <1>same DEF Deliver
<1>3. ASSUME NEW m \in Delivered, Check(m) PROVE Safe(k)'
  <2>1. CASE waha'[k] = waha[k]
    BY <2>1, <1>same
  <2>2. CASE waha'[k] # waha[k]
    <3>1. k = m
      BY <1>3, <2>2, <1>waha DEF Check, Answer
    <3>2. WebhookId(m) \in rows'
      BY <1>3, <2>2 DEF Check, Answer
    <3>3. WebhookId(m)[1] = m
      BY DEF WebhookId
    <3> QED
      BY <3>1, <3>2, <3>3 DEF Kept, RowsOf
  <2> QED
    BY <2>1, <2>2
<1>4. ASSUME NEW m \in Delivered, Store(m) PROVE Safe(k)'
  <2>1. CASE waha'[k] = waha[k]
    BY <2>1, <1>same
  <2>2. CASE waha'[k] # waha[k]
    <3>1. k = m
      BY <1>4, <2>2, <1>waha DEF Store, Answer
    <3>2. WebhookId(m) \in rows'
      BY <1>4, <2>2 DEF Store, Answer
    <3>3. WebhookId(m)[1] = m
      BY DEF WebhookId
    <3> QED
      BY <3>1, <3>2, <3>3 DEF Kept, RowsOf
  <2> QED
    BY <2>1, <2>2
<1>5. ASSUME NEW m \in Delivered, Save(m) PROVE Safe(k)'
  <2>1. CASE waha'[k] = waha[k]
    BY <2>1, <1>same
  <2>2. CASE waha'[k] # waha[k]
    <3>1. k = m
      BY <1>5, <2>2, <1>waha DEF Save, Answer
    <3>2. m \in unparsed' \/ m \in dropped'
      BY <1>5 DEF Save
    <3> QED
      BY <3>1, <3>2 DEF Kept
  <2> QED
    BY <2>1, <2>2
<1>6. ASSUME NEW m \in Delivered, RunTasks(m) PROVE Safe(k)'
  BY <1>6, <1>same DEF RunTasks
<1>7. ASSUME NEW b \in Backfills, FetchStore(b) PROVE Safe(k)'
  BY <1>7, <1>same DEF FetchStore
<1>8. ASSUME NEW b \in Backfills, ReadIds(b) PROVE Safe(k)'
  BY <1>8, <1>same DEF ReadIds
<1>9. ASSUME NEW b \in Backfills, InsertMissing(b) PROVE Safe(k)'
  BY <1>9, <1>same DEF InsertMissing
<1>10. ASSUME NEW b \in Backfills, EndBackfill(b) PROVE Safe(k)'
  BY <1>10, <1>same DEF EndBackfill
<1>11. CASE Outage
  BY <1>11, <1>same DEF Outage
<1>12. CASE Recover
  BY <1>12, <1>same DEF Recover
<1>13. CASE CaptureCrash
  BY <1>13, <1>same DEF CaptureCrash
<1>14. CASE UNCHANGED captureVars
  BY <1>14, <1>same DEF captureVars
<1> QED
  BY <1>1, <1>2, <1>3, <1>4, <1>5, <1>6, <1>7, <1>8, <1>9, <1>10, <1>11, <1>12, <1>13,
     <1>14 DEF CaptureNext, Handle, BackfillStep

\* The parts together are inductive.
LEMMA CInvStep == CInv /\ [CaptureNext]_captureVars => CInv'
BY TypeStep, TaskStep, KeptStep DEF CInv

\* CInv holds in every reachable state.
LEMMA Invariant == CaptureSpec => []CInv
<1> QED
  BY InitCInv, CInvStep, PTL DEF CaptureSpec

\* Every variable keeps its type: whatever fails, the handler of one message is
\* the only one the event loop holds.
THEOREM TypeCorrect == CaptureSpec => []CaptureTypeOK
<1>1. CInv => CaptureTypeOK
  BY DEF CInv
<1> QED
  BY <1>1, Invariant, PTL

\* A message's reply and ingest tasks run at most once, for any number of
\* deliveries, backfills, outages and crashes.
THEOREM TasksOnce == CaptureSpec => []TasksAtMostOnce
<1>1. CInv => TasksAtMostOnce
  BY DEF CInv, QueuedOnce, TasksAtMostOnce
<1> QED
  BY <1>1, Invariant, PTL

\* The tasks of a message are queued or run only while its row is in the table.
THEOREM TasksFollowTheRow == CaptureSpec => []TasksOnStored
<1>1. CInv => TasksOnStored
  BY DEF CInv
<1> QED
  BY <1>1, Invariant, PTL

\* No message is lost behind a 200: it is in one of the two tables, unless the
\* write to messages_unparsed failed as well.
THEOREM AnsweredIsKept == CaptureSpec => []KeptOrDropped
<1>1. CInv => KeptOrDropped
  BY DEF CInv
<1> QED
  BY <1>1, Invariant, PTL


-----------------------------------------------------------------------------
(* The promise to the tasks.                                               *)

\* Nothing is stored and nothing queued at first.
LEMMA BoxInit == CaptureInit => Mailbox!Init
BY DEF CaptureInit, Mailbox!Init, Recognized

\* What is inserted without tasks.
LEMMA BoxInsert ==
  ASSUME NEW new, rows' = rows \union new, UNCHANGED tasks
  PROVE  \E S \in SUBSET ChatMessages : Mailbox!Insert(S)
<1> DEFINE S == {m \in ChatMessages : WebhookId(m) \in new}
<1>1. Recognized' = Recognized \union S
  BY DEF Recognized, WebhookId
<1>2. Mailbox!Insert(S) /\ S \in SUBSET ChatMessages
  BY <1>1 DEF Mailbox!Insert
<1>3. QED
  BY <1>2

\* A step queues tasks with the row of their message, inserts rows without tasks, or
\* takes tasks from the queue.
LEMMA BoxStep ==
  ASSUME CaptureTypeOK, TasksOnStored, [CaptureNext]_captureVars
  PROVE  [Mailbox!Next]_(Mailbox!vars)
<1> DEFINE Goal == [Mailbox!Next]_(Mailbox!vars)
<1>1. ASSUME UNCHANGED <<rows, tasks>> PROVE Goal
  <2>1. Recognized' = Recognized
    BY <1>1 DEF Recognized, WebhookId
  <2>2. QED
    BY <1>1, <2>1 DEF Mailbox!vars
<1>2. ASSUME NEW new, rows' = rows \union new, UNCHANGED tasks PROVE Goal
  BY <1>2, BoxInsert DEF Mailbox!Next
<1>3. ASSUME NEW S \in SUBSET ChatMessages, tasks' = tasks \ S, UNCHANGED rows PROVE Goal
  <2>1. Recognized' = Recognized
    BY <1>3 DEF Recognized, WebhookId
  <2>2. Mailbox!Leave(S)
    BY <1>3, <2>1 DEF Mailbox!Leave
  <2>3. QED
    BY <2>2 DEF Mailbox!Next
<1>4. ASSUME NEW m \in Delivered, Store(m) PROVE Goal
  <2>1. m \in ChatMessages
    BY DEF Delivered
  <2>2. CASE /\ WebhookId(m) \notin rows
             /\ rows' = rows \union {WebhookId(m)} /\ tasks' = tasks \union {m}
    <3>1. \A n \in ChatMessages : WebhookId(n) = WebhookId(m) => n = m
      BY DEF WebhookId
    <3>2. Recognized' = Recognized \union {m}
      BY <2>1, <2>2, <3>1 DEF Recognized, WebhookId
    <3>3. m \notin Recognized \union tasks
      BY <2>1, <2>2 DEF Recognized, TasksOnStored
    <3>4. Mailbox!Receive(m)
      BY <2>2, <3>2, <3>3 DEF Mailbox!Receive
    <3>5. QED
      BY <2>1, <3>4 DEF Mailbox!Next
  <2>3. CASE rows' \in {rows, rows \union {WebhookId(m)}} /\ UNCHANGED tasks
    <3>1. CASE rows' = rows
      BY <1>1, <2>3, <3>1
    <3>2. CASE rows' = rows \union {WebhookId(m)}
      BY <1>2, <2>3, <3>2
    <3>3. QED
      BY <2>3, <3>1, <3>2
  <2>4. QED
    BY <1>4, <2>2, <2>3 DEF Store
<1>5. ASSUME NEW m \in Delivered, Happen(m) \/ Deliver(m) \/ Check(m) \/ Save(m) PROVE Goal
  <2>1. UNCHANGED <<rows, tasks>>
    BY <1>5 DEF Happen, Deliver, Check, Save
  <2>2. QED
    BY <1>1, <2>1
<1>6. ASSUME NEW m \in Delivered, RunTasks(m) PROVE Goal
  <2>1. {m} \in SUBSET ChatMessages /\ tasks' = tasks \ {m} /\ UNCHANGED rows
    BY <1>6 DEF RunTasks, Delivered
  <2>2. QED
    BY <1>3, <2>1
<1>7. ASSUME NEW b \in Backfills, FetchStore(b) \/ ReadIds(b) \/ InsertMissing(b) PROVE Goal
  <2>1. UNCHANGED <<rows, tasks>>
    BY <1>7 DEF FetchStore, ReadIds, InsertMissing
  <2>2. QED
    BY <1>1, <2>1
<1>8. ASSUME NEW b \in Backfills, EndBackfill(b) PROVE Goal
  <2>1. UNCHANGED tasks /\ (UNCHANGED rows \/ rows' = rows \union openIds[b])
    BY <1>8 DEF EndBackfill
  <2>2. QED
    BY <1>1, <1>2, <2>1
<1>9. ASSUME Outage \/ Recover \/ UNCHANGED captureVars PROVE Goal
  <2>1. UNCHANGED <<rows, tasks>>
    BY <1>9 DEF Outage, Recover, captureVars
  <2>2. QED
    BY <1>1, <2>1
<1>10. ASSUME CaptureCrash PROVE Goal
  <2>1. tasks' = tasks \ tasks /\ tasks \in SUBSET ChatMessages /\ UNCHANGED rows
    BY <1>10 DEF CaptureCrash, CaptureTypeOK
  <2>2. QED
    BY <1>3, <2>1
<1>11. QED
  BY <1>4, <1>5, <1>6, <1>7, <1>8, <1>9, <1>10 DEF CaptureNext, Handle, BackfillStep

\* Refinement: with every redelivery, outage, crash and backfill, the tasks of a message
\* are queued only in the step that stores it.
THEOREM CaptureImplementsInbox == CaptureSpec => DeliversToInbox
<1>1. CInv => CaptureTypeOK /\ TasksOnStored
  BY DEF CInv
<1>2. QED
  BY <1>1, BoxInit, BoxStep, Invariant, PTL DEF CaptureSpec, DeliversToInbox, Mailbox!Spec
=============================================================================
