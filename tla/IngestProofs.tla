---------------------------- MODULE IngestProofs ----------------------------
(***************************************************************************)
(* Proofs about the search index of a chat, for any number of messages and *)
(* any combination of faults: the daily operation (LiveSpec), which        *)
(* implements SearchIndex, and, as far as they survive imports, Spec, which *)
(* implements Inbox.                                                       *)
(***************************************************************************)
EXTENDS Ingest, FiniteSetTheorems, TLAPS

-----------------------------------------------------------------------------
\* Every variable keeps its type: Init and each step of Next, imports included.
LEMMA TypeStep == TypeOK /\ [Next]_vars => TypeOK'
<1> SUFFICES ASSUME TypeOK, [Next]_vars PROVE TypeOK'
  OBVIOUS
<1> USE ConstantsAssumption
<1> USE DEF TypeOK, Actors, Phases, LivePhases, ImportPhases, LockedPhases,
            TerminalPhases, tables, txs, GoTo, EndTransaction
<1>1. ASSUME NEW m \in Messages, Capture(m) PROVE TypeOK'
  BY <1>1 DEF Capture
<1>2. ASSUME NEW m \in Messages, ReplyRaises(m) PROVE TypeOK'
  BY <1>2 DEF ReplyRaises
<1>3. ASSUME NEW m \in Messages, Debounce(m) PROVE TypeOK'
  BY <1>3 DEF Debounce
<1>4. ASSUME NEW m \in Messages, ReadNewest(m) PROVE TypeOK'
  <2>1. seen' \in [Messages -> Messages \union {Nothing}]
    <3>1. NewestMessages \subseteq Messages
      BY DEF NewestMessages
    <3>2. QED
      BY <1>4, <3>1 DEF ReadNewest
  <2>2. lock' \in Messages \union {Nothing}
    BY <1>4 DEF ReadNewest
  <2>3. pc' \in [Actors -> Phases]
    BY <1>4 DEF ReadNewest
  <2>4. QED
    BY <1>4, <2>1, <2>2, <2>3 DEF ReadNewest
<1>5. ASSUME NEW m \in Messages, CheckCursor(m) PROVE TypeOK'
  BY <1>5 DEF CheckCursor
<1>6. ASSUME NEW a \in Actors, SelectMessages(a) PROVE TypeOK'
  <2>1. VisibleTo(a) \in SUBSET Messages
    BY DEF VisibleTo
  <2>2. QED
    BY <1>6, <2>1 DEF SelectMessages
<1>7. ASSUME NEW a \in Actors, StartDelete(a) PROVE TypeOK'
  BY <1>7 DEF StartDelete
<1>8. ASSUME NEW a \in Actors, FinishDelete(a) PROVE TypeOK'
  BY <1>8 DEF FinishDelete
<1>9. ASSUME NEW m \in Messages, Commit(m) PROVE TypeOK'
  BY <1>9 DEF Commit
<1>10. ASSUME NEW m \in Messages, Fail(m) PROVE TypeOK'
  BY <1>10 DEF Fail
<1>11. ASSUME NEW m \in Messages, RollBack(m) PROVE TypeOK'
  BY <1>11 DEF RollBack
<1>12. ASSUME NEW i \in Imports, BeginImport(i) PROVE TypeOK'
  BY <1>12 DEF BeginImport
<1>13. ASSUME NEW i \in Imports, FlushImport(i) PROVE TypeOK'
  BY <1>13 DEF FlushImport
<1>14. ASSUME NEW i \in Imports, CommitImport(i) PROVE TypeOK'
  BY <1>14 DEF CommitImport
<1>15. ASSUME NEW i \in Imports, AbortImport(i) PROVE TypeOK'
  BY <1>15 DEF AbortImport
<1>16. CASE WindowExpires
  BY <1>16 DEF WindowExpires
<1>17. CASE Crash
  BY <1>17 DEF Crash
<1>18. CASE Purge
  BY <1>18 DEF Purge
<1>19. CASE UNCHANGED vars
  BY <1>19 DEF vars
<1> HIDE DEF TypeOK, Phases, LivePhases, ImportPhases, LockedPhases,
             TerminalPhases, tables, txs, GoTo, EndTransaction
<1>20. ASSUME NEW m \in Messages, LiveStep(m) PROVE TypeOK'
  BY <1>20, <1>4, <1>5, <1>6, <1>7, <1>8, <1>9, <1>10, <1>11 DEF LiveStep
<1>21. ASSUME NEW i \in Imports, ImportStep(i) PROVE TypeOK'
  BY <1>21, <1>6, <1>7, <1>8, <1>13, <1>14, <1>15 DEF ImportStep
<1>22. QED
  BY <1>1, <1>2, <1>3, <1>12, <1>16, <1>17, <1>18, <1>19, <1>20, <1>21
  DEF Next, LiveNext

\* The initial state has the types.
LEMMA TypeInit == Init => TypeOK
<1> SUFFICES ASSUME Init PROVE TypeOK
  OBVIOUS
<1>1. "idle" \in Phases
  BY DEF Phases
<1>2. QED
  BY <1>1 DEF Init, TypeOK

\* Type correctness of the whole system, imports included.
THEOREM TypeCorrect == Spec => []TypeOK
  BY TypeInit, TypeStep, PTL DEF Spec

-----------------------------------------------------------------------------
(* The lock, imports included.                                             *)

\* Whoever works on a chat keeps its lock, and nobody else takes it.
LEMMA LockStep == TypeOK /\ LockHeld /\ [Next]_vars => LockHeld'
<1> SUFFICES ASSUME TypeOK, LockHeld, [Next]_vars PROVE LockHeld'
  OBVIOUS
<1> USE ConstantsAssumption DEF TypeOK, LockHeld, LockedPhases, Actors, GoTo
<1>1. ASSUME NEW m \in Messages, Capture(m) \/ ReplyRaises(m) \/ Debounce(m)
      PROVE  LockHeld'
  BY <1>1 DEF Capture, ReplyRaises, Debounce
<1>2. ASSUME NEW m \in Messages,
             ReadNewest(m) \/ CheckCursor(m) \/ Commit(m) \/ Fail(m) \/ RollBack(m)
      PROVE  LockHeld'
  BY <1>2 DEF ReadNewest, CheckCursor, Commit, Fail, RollBack
<1>3. ASSUME NEW a \in Actors, SelectMessages(a) \/ StartDelete(a) \/ FinishDelete(a)
      PROVE  LockHeld'
  BY <1>3 DEF SelectMessages, StartDelete, FinishDelete
<1>4. ASSUME NEW i \in Imports,
             BeginImport(i) \/ FlushImport(i) \/ CommitImport(i) \/ AbortImport(i)
      PROVE  LockHeld'
  BY <1>4 DEF BeginImport, FlushImport, CommitImport, AbortImport
<1>5. CASE WindowExpires \/ Purge \/ UNCHANGED vars
  BY <1>5 DEF WindowExpires, Purge, vars
<1>6. CASE Crash
  BY <1>6 DEF Crash, TerminalPhases
<1> HIDE DEF TypeOK, LockHeld, LockedPhases, GoTo
<1>7. QED
  BY <1>1, <1>2, <1>3, <1>4, <1>5, <1>6 DEF Next, LiveNext, LiveStep, ImportStep

\* Two live tasks are never inside the lock together, whatever imports, faults
\* and purges do.
THEOREM LiveRebuildsSerialized == Spec => []RebuildsSerialized
<1>1. Init => LockHeld
  BY ConstantsAssumption DEF Init, LockHeld, LockedPhases, Actors
<1>2. LockHeld => RebuildsSerialized
  BY DEF LockHeld, RebuildsSerialized
<1>3. QED
  BY <1>1, <1>2, LockStep, TypeCorrect, PTL DEF Spec

-----------------------------------------------------------------------------
(* What is searchable is stored, imports included.  The lock does not help  *)
(* here: an import covers rows nobody else sees before its commit.          *)

\* A committed generation belongs to an actor that ended; what an actor is about
\* to write covers rows it sees, its own inserts among them.
WritesStored ==
  /\ \A g \in index : pc[g] = "done" /\ built[g] \subseteq messages \intersect Indexable
  /\ \A a \in Actors : pc[a] \in {"selected", "deleting", "writing"} =>
       built[a] \subseteq VisibleTo(a) \intersect Indexable

\* What the actors write stays within what they see: rows only leave the table
\* in a purge, which takes no indexable one, and in a rollback with their actor.
LEMMA WriteStep == TypeOK /\ WritesStored /\ [Next]_vars => WritesStored'
<1> SUFFICES ASSUME TypeOK, WritesStored, [Next]_vars PROVE WritesStored'
  OBVIOUS
<1> DEFINE Building == {"selected", "deleting", "writing"}
<1>pc. pc \in [Actors -> Phases] /\ built \in [Actors -> SUBSET Messages]
  BY DEF TypeOK
<1>dirty. dirty \in [Imports -> SUBSET Messages]
  BY DEF TypeOK
<1>in. index \subseteq Actors /\ messages \subseteq Messages
  BY DEF TypeOK
<1>sets. Messages \subseteq Actors /\ Imports \subseteq Actors /\ Messages \intersect Imports = {}
  BY ConstantsAssumption DEF Actors
<1>was. /\ \A g \in index : pc[g] = "done" /\ built[g] \subseteq messages \intersect Indexable
        /\ \A a \in Actors : pc[a] \in Building =>
             built[a] \subseteq VisibleTo(a) \intersect Indexable
  BY DEF WritesStored
\* A step that leaves the tables alone and moves one actor that is not "done".
<1>move. ASSUME NEW a \in Actors, NEW phase, pc[a] # "done",
                pc' = [pc EXCEPT ![a] = phase],
                phase \in Building => pc[a] \in Building,
                UNCHANGED <<messages, index, built>>,
                \A i \in Imports : pc'[i] \in Building => dirty'[i] = dirty[i]
         PROVE  WritesStored'
  <2>1. ASSUME NEW g \in index'
        PROVE  pc'[g] = "done" /\ built'[g] \subseteq messages' \intersect Indexable
    BY <2>1, <1>move, <1>was, <1>pc, <1>in
  <2>2. ASSUME NEW b \in Actors, pc'[b] \in Building
        PROVE  built'[b] \subseteq VisibleTo(b)' \intersect Indexable
    <3>1. pc[b] \in Building
      BY <2>2, <1>move, <1>pc
    <3>2. VisibleTo(b)' = VisibleTo(b)
      BY <2>2, <1>move DEF VisibleTo
    <3> QED
      BY <3>1, <3>2, <1>was, <1>move
  <2> QED
    BY <2>1, <2>2 DEF WritesStored
<1>1. ASSUME NEW m \in Messages, Capture(m) PROVE WritesStored'
  <2>1. messages \subseteq messages' /\ UNCHANGED <<index, built, dirty>>
    BY <1>1 DEF Capture, txs
  <2>2. pc[m] = "idle" /\ pc' = [pc EXCEPT ![m] = "scheduled"]
    BY <1>1 DEF Capture, GoTo
  <2>3. \A b \in Actors : VisibleTo(b) \subseteq VisibleTo(b)'
    BY <2>1 DEF VisibleTo
  <2>4. ASSUME NEW g \in index'
        PROVE  pc'[g] = "done" /\ built'[g] \subseteq messages' \intersect Indexable
    BY <2>1, <2>2, <2>4, <1>was, <1>pc, <1>in, <1>sets
  <2>5. ASSUME NEW b \in Actors, pc'[b] \in Building
        PROVE  built'[b] \subseteq VisibleTo(b)' \intersect Indexable
    BY <2>1, <2>2, <2>3, <2>5, <1>was, <1>pc, <1>sets
  <2> QED
    BY <2>4, <2>5 DEF WritesStored
<1>2. ASSUME NEW m \in Messages, ReplyRaises(m) PROVE WritesStored'
  <2>1. /\ pc[m] # "done" /\ UNCHANGED <<messages, index, built>>
        /\ \A j \in Imports : pc'[j] \in Building => dirty'[j] = dirty[j]
    BY <1>2, <1>pc, <1>dirty, <1>sets DEF ReplyRaises, GoTo, tables, txs
  <2>2. \E phase \in {"lost"} : pc' = [pc EXCEPT ![m] = phase]
    BY <1>2 DEF ReplyRaises, GoTo
  <2>3. \A phase \in {"lost"} : phase \in Building => pc[m] \in Building
    BY <1>2 DEF ReplyRaises
  <2> QED
    BY <2>1, <2>2, <2>3, <1>move, <1>sets
<1>3. ASSUME NEW m \in Messages, Debounce(m) PROVE WritesStored'
  <2>1. /\ pc[m] # "done" /\ UNCHANGED <<messages, index, built>>
        /\ \A j \in Imports : pc'[j] \in Building => dirty'[j] = dirty[j]
    BY <1>3, <1>pc, <1>dirty, <1>sets DEF Debounce, GoTo, tables, txs
  <2>2. \E phase \in {"debounced", "granted"} : pc' = [pc EXCEPT ![m] = phase]
    BY <1>3 DEF Debounce, GoTo
  <2>3. \A phase \in {"debounced", "granted"} : phase \in Building => pc[m] \in Building
    BY <1>3 DEF Debounce
  <2> QED
    BY <2>1, <2>2, <2>3, <1>move, <1>sets
<1>4. ASSUME NEW m \in Messages, ReadNewest(m) PROVE WritesStored'
  <2>1. /\ pc[m] # "done" /\ UNCHANGED <<messages, index, built>>
        /\ \A j \in Imports : pc'[j] \in Building => dirty'[j] = dirty[j]
    BY <1>4, <1>pc, <1>dirty, <1>sets DEF ReadNewest, GoTo, tables, txs
  <2>2. \E phase \in {"unchanged", "locked"} : pc' = [pc EXCEPT ![m] = phase]
    BY <1>4 DEF ReadNewest, GoTo
  <2>3. \A phase \in {"unchanged", "locked"} : phase \in Building => pc[m] \in Building
    BY <1>4 DEF ReadNewest
  <2> QED
    BY <2>1, <2>2, <2>3, <1>move, <1>sets
<1>5. ASSUME NEW m \in Messages, CheckCursor(m) PROVE WritesStored'
  <2>1. /\ pc[m] # "done" /\ UNCHANGED <<messages, index, built>>
        /\ \A j \in Imports : pc'[j] \in Building => dirty'[j] = dirty[j]
    BY <1>5, <1>pc, <1>dirty, <1>sets DEF CheckCursor, GoTo, tables, txs
  <2>2. \E phase \in {"unchanged", "stale"} : pc' = [pc EXCEPT ![m] = phase]
    BY <1>5 DEF CheckCursor, GoTo
  <2>3. \A phase \in {"unchanged", "stale"} : phase \in Building => pc[m] \in Building
    BY <1>5 DEF CheckCursor
  <2> QED
    BY <2>1, <2>2, <2>3, <1>move, <1>sets
<1>6. ASSUME NEW m \in Messages, Fail(m) PROVE WritesStored'
  <2>1. /\ pc[m] # "done" /\ UNCHANGED <<messages, index, built>>
        /\ \A j \in Imports : pc'[j] \in Building => dirty'[j] = dirty[j]
    BY <1>6, <1>pc, <1>dirty, <1>sets DEF Fail, GoTo, tables, txs
  <2>2. \E phase \in {"failed"} : pc' = [pc EXCEPT ![m] = phase]
    BY <1>6 DEF Fail, GoTo
  <2>3. \A phase \in {"failed"} : phase \in Building => pc[m] \in Building
    BY <1>6 DEF Fail
  <2> QED
    BY <2>1, <2>2, <2>3, <1>move, <1>sets
<1>7. ASSUME NEW m \in Messages, RollBack(m) PROVE WritesStored'
  <2>1. /\ pc[m] # "done" /\ UNCHANGED <<messages, index, built>>
        /\ \A j \in Imports : pc'[j] \in Building => dirty'[j] = dirty[j]
    BY <1>7, <1>pc, <1>dirty, <1>sets DEF RollBack, GoTo, tables, txs
  <2>2. \E phase \in {"rolledback"} : pc' = [pc EXCEPT ![m] = phase]
    BY <1>7 DEF RollBack, GoTo
  <2>3. \A phase \in {"rolledback"} : phase \in Building => pc[m] \in Building
    BY <1>7 DEF RollBack
  <2> QED
    BY <2>1, <2>2, <2>3, <1>move, <1>sets
<1>8. ASSUME NEW a \in Actors, StartDelete(a) PROVE WritesStored'
  <2>1. /\ pc[a] # "done" /\ UNCHANGED <<messages, index, built>>
        /\ \A j \in Imports : pc'[j] \in Building => dirty'[j] = dirty[j]
    BY <1>8, <1>pc, <1>dirty, <1>sets DEF StartDelete, GoTo, tables, txs
  <2>2. \E phase \in {"deleting"} : pc' = [pc EXCEPT ![a] = phase]
    BY <1>8 DEF StartDelete, GoTo
  <2>3. \A phase \in {"deleting"} : phase \in Building => pc[a] \in Building
    BY <1>8 DEF StartDelete
  <2> QED
    BY <2>1, <2>2, <2>3, <1>move, <1>sets
<1>9. ASSUME NEW a \in Actors, FinishDelete(a) PROVE WritesStored'
  <2>1. /\ pc[a] # "done" /\ UNCHANGED <<messages, index, built>>
        /\ \A j \in Imports : pc'[j] \in Building => dirty'[j] = dirty[j]
    BY <1>9, <1>pc, <1>dirty, <1>sets DEF FinishDelete, GoTo, tables, txs
  <2>2. \E phase \in {"writing"} : pc' = [pc EXCEPT ![a] = phase]
    BY <1>9 DEF FinishDelete, GoTo
  <2>3. \A phase \in {"writing"} : phase \in Building => pc[a] \in Building
    BY <1>9 DEF FinishDelete
  <2> QED
    BY <2>1, <2>2, <2>3, <1>move, <1>sets
<1>10. ASSUME NEW i \in Imports, BeginImport(i) PROVE WritesStored'
  <2>1. /\ pc[i] # "done" /\ UNCHANGED <<messages, index, built>>
        /\ \A j \in Imports : pc'[j] \in Building => dirty'[j] = dirty[j]
    BY <1>10, <1>pc, <1>dirty, <1>sets DEF BeginImport, GoTo, tables, txs
  <2>2. \E phase \in {"inserting"} : pc' = [pc EXCEPT ![i] = phase]
    BY <1>10 DEF BeginImport, GoTo
  <2>3. \A phase \in {"inserting"} : phase \in Building => pc[i] \in Building
    BY <1>10 DEF BeginImport
  <2> QED
    BY <2>1, <2>2, <2>3, <1>move, <1>sets
<1>11. ASSUME NEW i \in Imports, FlushImport(i) PROVE WritesStored'
  <2>1. /\ pc[i] # "done" /\ UNCHANGED <<messages, index, built>>
        /\ \A j \in Imports : pc'[j] \in Building => dirty'[j] = dirty[j]
    BY <1>11, <1>pc, <1>dirty, <1>sets DEF FlushImport, GoTo, tables, txs
  <2>2. \E phase \in {"stale", "rolledback"} : pc' = [pc EXCEPT ![i] = phase]
    BY <1>11 DEF FlushImport, GoTo
  <2>3. \A phase \in {"stale", "rolledback"} : phase \in Building => pc[i] \in Building
    BY <1>11 DEF FlushImport
  <2> QED
    BY <2>1, <2>2, <2>3, <1>move, <1>sets
<1>12. ASSUME NEW i \in Imports, AbortImport(i) PROVE WritesStored'
  <2>1. /\ pc[i] # "done" /\ UNCHANGED <<messages, index, built>>
        /\ \A j \in Imports : pc'[j] \in Building => dirty'[j] = dirty[j]
    BY <1>12, <1>pc, <1>dirty, <1>sets DEF AbortImport, GoTo, tables, txs
  <2>2. \E phase \in {"rolledback"} : pc' = [pc EXCEPT ![i] = phase]
    BY <1>12 DEF AbortImport, GoTo
  <2>3. \A phase \in {"rolledback"} : phase \in Building => pc[i] \in Building
    BY <1>12 DEF AbortImport
  <2> QED
    BY <2>1, <2>2, <2>3, <1>move, <1>sets
<1>13. ASSUME NEW a \in Actors, SelectMessages(a) PROVE WritesStored'
  <2>1. /\ pc[a] = "stale" /\ pc' = [pc EXCEPT ![a] = "selected"]
        /\ UNCHANGED <<messages, index, dirty>>
        /\ built' = [built EXCEPT ![a] = VisibleTo(a) \intersect Indexable]
    BY <1>13 DEF SelectMessages, GoTo, tables
  <2>2. \A b \in Actors : VisibleTo(b)' = VisibleTo(b)
    BY <2>1 DEF VisibleTo
  <2>3. ASSUME NEW g \in index'
        PROVE  pc'[g] = "done" /\ built'[g] \subseteq messages' \intersect Indexable
    BY <2>1, <2>3, <1>was, <1>pc, <1>in
  <2>4. ASSUME NEW b \in Actors, pc'[b] \in Building
        PROVE  built'[b] \subseteq VisibleTo(b)' \intersect Indexable
    BY <2>1, <2>2, <2>4, <1>was, <1>pc
  <2> QED
    BY <2>3, <2>4 DEF WritesStored
<1>14. ASSUME NEW m \in Messages, Commit(m) PROVE WritesStored'
  <2>1. /\ pc[m] = "writing" /\ pc' = [pc EXCEPT ![m] = "done"]
        /\ index' \subseteq index \union {m}
        /\ UNCHANGED <<messages, built, dirty>>
    BY <1>14 DEF Commit, GoTo
  <2>2. built[m] \subseteq messages \intersect Indexable
    BY <2>1, <1>was, <1>sets DEF VisibleTo
  <2>3. \A b \in Actors : VisibleTo(b)' = VisibleTo(b)
    BY <2>1 DEF VisibleTo
  <2>4. ASSUME NEW g \in index'
        PROVE  pc'[g] = "done" /\ built'[g] \subseteq messages' \intersect Indexable
    BY <2>1, <2>2, <2>4, <1>was, <1>pc, <1>in, <1>sets
  <2>5. ASSUME NEW b \in Actors, pc'[b] \in Building
        PROVE  built'[b] \subseteq VisibleTo(b)' \intersect Indexable
    BY <2>1, <2>3, <2>5, <1>was, <1>pc, <1>sets
  <2> QED
    BY <2>4, <2>5 DEF WritesStored
<1>15. ASSUME NEW i \in Imports, CommitImport(i) PROVE WritesStored'
  <2>1. /\ pc[i] = "writing" /\ pc' = [pc EXCEPT ![i] = "done"]
        /\ index' \subseteq index \union {i} /\ built' = built
        /\ messages' = messages \union dirty[i]
        /\ dirty' = [dirty EXCEPT ![i] = {}]
    BY <1>15 DEF CommitImport, GoTo
  <2>2. built[i] \subseteq messages' \intersect Indexable
    BY <2>1, <1>was, <1>sets DEF VisibleTo
  <2>3. \A b \in Actors : b # i => VisibleTo(b) \subseteq VisibleTo(b)'
    BY <2>1, <1>dirty DEF VisibleTo
  <2>4. ASSUME NEW g \in index'
        PROVE  pc'[g] = "done" /\ built'[g] \subseteq messages' \intersect Indexable
    BY <2>1, <2>2, <2>4, <1>was, <1>pc, <1>in, <1>sets
  <2>5. ASSUME NEW b \in Actors, pc'[b] \in Building
        PROVE  built'[b] \subseteq VisibleTo(b)' \intersect Indexable
    BY <2>1, <2>3, <2>5, <1>was, <1>pc, <1>sets
  <2> QED
    BY <2>4, <2>5 DEF WritesStored
<1>16. CASE Crash
  <2>1. \A b \in Actors : pc'[b] \notin Building /\ (pc[b] = "done" => pc'[b] = "done")
    BY <1>16 DEF Crash, TerminalPhases
  <2>2. UNCHANGED <<messages, index, built>>
    BY <1>16 DEF Crash, tables
  <2> QED
    BY <2>1, <2>2, <1>was, <1>in DEF WritesStored
<1>17. CASE Purge
  <2>1. UNCHANGED <<index, built, dirty, pc>> /\ messages' = messages \ Undated
    BY <1>17 DEF Purge, txs
  <2>2. Undated \intersect Indexable = {}
    BY ConstantsAssumption
  <2>3. \A b \in Actors : VisibleTo(b) \intersect Indexable \subseteq VisibleTo(b)'
    BY <2>1, <2>2 DEF VisibleTo
  <2> QED
    BY <2>1, <2>2, <2>3, <1>was DEF WritesStored
<1>18. CASE WindowExpires \/ UNCHANGED vars
  <2>1. UNCHANGED <<messages, index, built, dirty, pc>>
    BY <1>18 DEF WindowExpires, tables, txs, vars
  <2> QED
    BY <2>1, <1>was DEF WritesStored, VisibleTo
<1>19. ASSUME NEW m \in Messages, LiveStep(m) PROVE WritesStored'
  BY <1>19, <1>4, <1>5, <1>6, <1>7, <1>8, <1>9, <1>13, <1>14, <1>sets DEF LiveStep
<1>20. ASSUME NEW i \in Imports, ImportStep(i) PROVE WritesStored'
  BY <1>20, <1>8, <1>9, <1>11, <1>12, <1>13, <1>15, <1>sets DEF ImportStep
<1> QED
  BY <1>1, <1>2, <1>3, <1>10, <1>16, <1>17, <1>18, <1>19, <1>20 DEF Next, LiveNext

\* Session rows only ever cover stored messages, whatever live tasks, imports,
\* failures, crashes and purges do next to each other.
THEOREM SearchableIsStored == Spec => []IndexedIsStored
<1>1. Init => WritesStored
  BY DEF Init, WritesStored
<1>2. WritesStored => IndexedIsStored
  BY DEF WritesStored, IndexedIsStored, Indexed
<1>3. QED
  BY <1>1, <1>2, WriteStep, TypeCorrect, PTL DEF Spec

-----------------------------------------------------------------------------
(* The daily operation keeps the invariant.  Everything hangs on the lock:  *)
(* only its holder commits, so between its DELETE and its commit nobody     *)
(* else changes the index, and what it selected after taking the lock       *)
(* covers what was there before.                                            *)

\* Every step of live ingest keeps the invariant.
LEMMA InvStep == IInv /\ [LiveNext]_vars => IInv'
<1> SUFFICES ASSUME IInv, [LiveNext]_vars PROVE IInv'
  OBVIOUS
<1> USE ConstantsAssumption DEF IInv, TypeOK, Actors, GoTo, tables, txs
<1>0. TypeOK'
  BY TypeStep DEF Next
<1>1. ASSUME NEW m \in Messages, Capture(m) PROVE IInv'
  <2>1. (ImportsIdle /\ LockHeld /\ TimesKnown)'
    BY <1>1 DEF Capture, ImportsIdle, LockHeld, TimesKnown, LockedPhases
  <2>2. OneGeneration'
    BY <1>1 DEF Capture, OneGeneration, Indexed, ShouldBeIndexed
  <2>3. SeenIsNewest'
    BY <1>1 DEF Capture, SeenIsNewest, TimesKnown, LockedPhases
  <2>4. (BuiltCovers /\ DeletesAll)'
    BY <1>1 DEF Capture, BuiltCovers, DeletesAll, SeenIsNewest, TimesKnown,
                Indexed, ShouldBeIndexed, LockedPhases
  <2>5. (CursorStored /\ CursorSound)'
    BY <1>1 DEF Capture, CursorStored, CursorSound, TimesKnown, Indexed,
                ShouldBeIndexed
  <2>6. FinishedTaskVouches'
    BY <1>1 DEF Capture, FinishedTaskVouches, TimesKnown, Indexed, ShouldBeIndexed
  <2>7. QED
    BY <1>0, <2>1, <2>2, <2>3, <2>4, <2>5, <2>6
<1>2. ASSUME NEW m \in Messages, ReplyRaises(m) PROVE IInv'
  BY <1>0, <1>2
  DEF ReplyRaises, ImportsIdle, LockHeld, TimesKnown, OneGeneration, SeenIsNewest,
      BuiltCovers, DeletesAll, CursorStored, CursorSound, FinishedTaskVouches,
      Indexed, ShouldBeIndexed, LockedPhases
<1>3. ASSUME NEW m \in Messages, Debounce(m) PROVE IInv'
  BY <1>0, <1>3
  DEF Debounce, ImportsIdle, LockHeld, TimesKnown, OneGeneration, SeenIsNewest,
      BuiltCovers, DeletesAll, CursorStored, CursorSound, FinishedTaskVouches,
      Indexed, ShouldBeIndexed, LockedPhases
<1>4. ASSUME NEW m \in Messages, ReadNewest(m) PROVE IInv'
  <2>1. (ImportsIdle /\ LockHeld /\ TimesKnown)'
    BY <1>4 DEF ReadNewest, ImportsIdle, LockHeld, TimesKnown, LockedPhases
  <2>2. OneGeneration'
    BY <1>4 DEF ReadNewest, OneGeneration, Indexed, ShouldBeIndexed
  <2>3. SeenIsNewest'
    BY <1>4 DEF ReadNewest, NewestMessages, SeenIsNewest, LockHeld, TimesKnown,
                LockedPhases
  <2>4. (BuiltCovers /\ DeletesAll)'
    BY <1>4 DEF ReadNewest, BuiltCovers, DeletesAll, Indexed, ShouldBeIndexed
  <2>5. (CursorStored /\ CursorSound)'
    BY <1>4 DEF ReadNewest, CursorStored, CursorSound, Indexed, ShouldBeIndexed
  <2>6. FinishedTaskVouches'
    BY <1>4 DEF ReadNewest, FinishedTaskVouches, Indexed, ShouldBeIndexed
  <2>7. QED
    BY <1>0, <2>1, <2>2, <2>3, <2>4, <2>5, <2>6
<1>5. ASSUME NEW m \in Messages, CheckCursor(m) PROVE IInv'
  <2>1. (ImportsIdle /\ LockHeld /\ TimesKnown)'
    BY <1>5 DEF CheckCursor, ImportsIdle, LockHeld, TimesKnown, LockedPhases
  <2>2. OneGeneration'
    BY <1>5 DEF CheckCursor, OneGeneration, Indexed, ShouldBeIndexed
  <2>3. SeenIsNewest'
    BY <1>5 DEF CheckCursor, SeenIsNewest, LockedPhases
  <2>4. (BuiltCovers /\ DeletesAll)'
    BY <1>5 DEF CheckCursor, BuiltCovers, DeletesAll, Indexed, ShouldBeIndexed
  <2>5. (CursorStored /\ CursorSound)'
    BY <1>5 DEF CheckCursor, CursorStored, CursorSound, Indexed, ShouldBeIndexed
  <2>6. FinishedTaskVouches'
    \* "nothing new": the cursor vouches for everything up to the newest row.
    BY <1>5 DEF CheckCursor, FinishedTaskVouches, CursorSound, SeenIsNewest,
                Indexed, ShouldBeIndexed, LockedPhases
  <2>7. QED
    BY <1>0, <2>1, <2>2, <2>3, <2>4, <2>5, <2>6
<1>6. ASSUME NEW m \in Messages, SelectMessages(m) PROVE IInv'
  <2>0. m \notin index /\ VisibleTo(m) = messages
    BY <1>6 DEF SelectMessages, OneGeneration, VisibleTo
  <2>1. (ImportsIdle /\ LockHeld /\ TimesKnown /\ SeenIsNewest /\ DeletesAll)'
    BY <1>6 DEF SelectMessages, ImportsIdle, LockHeld, TimesKnown, SeenIsNewest,
                DeletesAll, LockedPhases
  <2>2. Indexed' = Indexed /\ OneGeneration'
    BY <1>6, <2>0 DEF SelectMessages, OneGeneration, Indexed, ShouldBeIndexed
  <2>3. BuiltCovers'
    BY <1>6, <2>0, <2>2 DEF SelectMessages, BuiltCovers, OneGeneration, ShouldBeIndexed
  <2>4. (CursorStored /\ CursorSound /\ FinishedTaskVouches)'
    BY <1>6, <2>2 DEF SelectMessages, CursorStored, CursorSound,
                      FinishedTaskVouches, ShouldBeIndexed
  <2>5. QED
    BY <1>0, <2>1, <2>2, <2>3, <2>4
<1>7. ASSUME NEW m \in Messages, StartDelete(m) PROVE IInv'
  BY <1>0, <1>7
  DEF StartDelete, ImportsIdle, LockHeld, TimesKnown, OneGeneration, SeenIsNewest,
      BuiltCovers, DeletesAll, CursorStored, CursorSound, FinishedTaskVouches,
      Indexed, ShouldBeIndexed, LockedPhases
<1>8. ASSUME NEW m \in Messages, FinishDelete(m) PROVE IInv'
  BY <1>0, <1>8
  DEF FinishDelete, ImportsIdle, LockHeld, TimesKnown, OneGeneration, SeenIsNewest,
      BuiltCovers, DeletesAll, CursorStored, CursorSound, FinishedTaskVouches,
      Indexed, ShouldBeIndexed, LockedPhases
<1>9. ASSUME NEW m \in Messages, Commit(m) PROVE IInv'
  <2>0. /\ index' = IF built[m] = {} THEN {} ELSE {m}
        /\ Indexed' = built[m]
        /\ Indexed \subseteq built[m]
    BY <1>9 DEF Commit, BuiltCovers, DeletesAll, Indexed
  <2>1. (ImportsIdle /\ LockHeld /\ TimesKnown)'
    BY <1>9 DEF Commit, EndTransaction, ImportsIdle, LockHeld, TimesKnown, LockedPhases
  <2>2. OneGeneration'
    BY <1>9, <2>0 DEF Commit, OneGeneration, BuiltCovers, ShouldBeIndexed
  <2>3. (SeenIsNewest /\ BuiltCovers /\ DeletesAll)'
    \* No other task is inside the lock.
    BY <1>9 DEF Commit, EndTransaction, SeenIsNewest, BuiltCovers, DeletesAll,
                LockHeld, LockedPhases
  <2>4. (CursorStored /\ CursorSound)'
    BY <1>9, <2>0 DEF Commit, CursorStored, CursorSound, BuiltCovers, ShouldBeIndexed
  <2>5. FinishedTaskVouches'
    BY <1>9, <2>0 DEF Commit, FinishedTaskVouches, BuiltCovers, SeenIsNewest,
                      ShouldBeIndexed, LockedPhases
  <2>6. QED
    BY <1>0, <2>1, <2>2, <2>3, <2>4, <2>5
<1>10. ASSUME NEW m \in Messages, Fail(m) PROVE IInv'
  BY <1>0, <1>10
  DEF Fail, ImportsIdle, LockHeld, TimesKnown, OneGeneration, SeenIsNewest,
      BuiltCovers, DeletesAll, CursorStored, CursorSound, FinishedTaskVouches,
      Indexed, ShouldBeIndexed, LockedPhases
<1>11. ASSUME NEW m \in Messages, RollBack(m) PROVE IInv'
  BY <1>0, <1>11
  DEF RollBack, EndTransaction, ImportsIdle, LockHeld, TimesKnown, OneGeneration,
      SeenIsNewest, BuiltCovers, DeletesAll, CursorStored, CursorSound,
      FinishedTaskVouches, Indexed, ShouldBeIndexed, LockedPhases
<1>12. CASE WindowExpires
  BY <1>0, <1>12
  DEF WindowExpires, ImportsIdle, LockHeld, TimesKnown, OneGeneration, SeenIsNewest,
      BuiltCovers, DeletesAll, CursorStored, CursorSound, FinishedTaskVouches,
      Indexed, ShouldBeIndexed
<1>13. CASE Crash
  BY <1>0, <1>13
  DEF Crash, ImportsIdle, LockHeld, TimesKnown, OneGeneration, SeenIsNewest,
      BuiltCovers, DeletesAll, CursorStored, CursorSound, FinishedTaskVouches,
      Indexed, ShouldBeIndexed, LockedPhases, TerminalPhases
<1>14. CASE Purge
  BY <1>0, <1>14
  DEF Purge, ImportsIdle, LockHeld, TimesKnown, OneGeneration, SeenIsNewest,
      BuiltCovers, DeletesAll, CursorStored, CursorSound, FinishedTaskVouches,
      Indexed, ShouldBeIndexed
<1>15. CASE UNCHANGED vars
  BY <1>0, <1>15
  DEF vars, ImportsIdle, LockHeld, TimesKnown, OneGeneration, SeenIsNewest,
      BuiltCovers, DeletesAll, CursorStored, CursorSound, FinishedTaskVouches,
      Indexed, ShouldBeIndexed
<1> HIDE DEF TypeOK, GoTo, tables, txs
<1>16. QED
  BY <1>1, <1>2, <1>3, <1>4, <1>5, <1>6, <1>7, <1>8, <1>9, <1>10, <1>11, <1>12,
     <1>13, <1>14, <1>15
  DEF LiveNext, LiveStep

\* The invariant holds throughout the daily operation.
LEMMA LiveInvariant == LiveSpec => []IInv
<1>1. Init => IInv
  BY TypeInit, ConstantsAssumption
  DEF Init, IInv, ImportsIdle, LockHeld, TimesKnown, OneGeneration, Indexed,
      ShouldBeIndexed, SeenIsNewest, BuiltCovers, DeletesAll, CursorStored,
      CursorSound, FinishedTaskVouches, LockedPhases, Actors
<1>2. QED
  BY <1>1, InvStep, PTL DEF LiveSpec

\* No message is in two committed session rows.
THEOREM NoDuplicates == LiveSpec => []NoDuplicateSessions
<1>1. IInv => NoDuplicateSessions
  BY DEF IInv, OneGeneration, NoDuplicateSessions
<1>2. QED
  BY <1>1, LiveInvariant, PTL

\* The cursor never makes a task skip a rebuild that was needed.
THEOREM CursorIsSound == LiveSpec => []CursorSound
<1>1. IInv => CursorSound
  BY DEF IInv
<1>2. QED
  BY <1>1, LiveInvariant, PTL

\* A finished task leaves everything captured up to its message searchable.
THEOREM FinishedTasksVouch == LiveSpec => []FinishedTaskVouches
<1>1. IInv => FinishedTaskVouches
  BY DEF IInv
<1>2. QED
  BY <1>1, LiveInvariant, PTL

-----------------------------------------------------------------------------
(* What a step does to the index.                                          *)

\* A commit makes exactly what its rebuild covers searchable.
LEMMA CommitIndexes ==
  ASSUME IInv, NEW m \in Messages, Commit(m)
  PROVE  Indexed' = built[m] /\ Indexed \subseteq built[m]
<1>1. Indexed \subseteq built[m]
  BY DEF Commit, IInv, BuiltCovers
<1>2. index' = IF built[m] = {} THEN {} ELSE {m}
  BY DEF Commit, IInv, DeletesAll
<1>3. built' = built
  BY DEF Commit
<1>4. QED
  BY <1>1, <1>2, <1>3 DEF Indexed

\* Only a commit changes what is searchable.
LEMMA IndexStep ==
  ASSUME IInv, [LiveNext]_vars
  PROVE  \/ Indexed' = Indexed
         \/ \E m \in Messages : /\ Commit(m)
                                /\ Indexed' = built[m]
                                /\ Indexed \subseteq built[m]
<1> USE DEF IInv
<1>1. ASSUME NEW m \in Messages, SelectMessages(m) PROVE Indexed' = Indexed
  <2>1. m \notin index
    BY <1>1 DEF SelectMessages, OneGeneration
  <2>2. \A g \in index : built'[g] = built[g]
    BY <1>1, <2>1 DEF SelectMessages, TypeOK, Actors
  <2>3. QED
    BY <1>1, <2>2 DEF SelectMessages, Indexed, tables
<1>2. ASSUME NEW m \in Messages, Commit(m)
      PROVE  Indexed' = built[m] /\ Indexed \subseteq built[m]
  BY <1>2, CommitIndexes
<1>3. ASSUME UNCHANGED <<index, built>> PROVE Indexed' = Indexed
  BY <1>3 DEF Indexed
<1>4. ASSUME NEW m \in Messages, LiveStep(m), ~ SelectMessages(m), ~ Commit(m)
      PROVE  UNCHANGED <<index, built>>
  BY <1>4 DEF LiveStep, ReadNewest, CheckCursor, StartDelete, FinishDelete, Fail,
              RollBack, tables, txs
<1>5. ASSUME \/ \E m \in Messages : Capture(m) \/ ReplyRaises(m) \/ Debounce(m)
             \/ WindowExpires \/ Crash \/ Purge \/ UNCHANGED vars
      PROVE  UNCHANGED <<index, built>>
  BY <1>5 DEF Capture, ReplyRaises, Debounce, WindowExpires, Crash, Purge, vars,
              tables, txs
<1>6. QED
  BY <1>1, <1>2, <1>3, <1>4, <1>5 DEF LiveNext

\* A searchable message stays searchable, through rebuilds, failures, crashes
\* and purges.
THEOREM SearchableMessagesStay == LiveSpec => SearchableStays
<1>1. IInv /\ [LiveNext]_vars => [Indexed \subseteq Indexed']_vars
  BY IndexStep
<1>2. QED
  BY <1>1, LiveInvariant, PTL DEF LiveSpec, SearchableStays

-----------------------------------------------------------------------------
(* The daily operation implements the search index a reader is promised.   *)

\* With one generation of rows a message is covered once or not at all.
LEMMA CopiesValue ==
  IInv => Copies = [m \in Messages |-> IF m \in Indexed THEN 1 ELSE 0]
<1> SUFFICES ASSUME IInv, NEW m \in Messages
             PROVE  Cardinality({g \in index : m \in built[g]})
                      = IF m \in Indexed THEN 1 ELSE 0
  BY DEF Copies
<1> DEFINE holders == {g \in index : m \in built[g]}
<1>1. CASE m \in Indexed
  <2>1. PICK g \in index : m \in built[g]
    BY <1>1 DEF Indexed
  <2>2. holders = {g}
    BY <2>1 DEF IInv, OneGeneration
  <2>3. QED
    BY <1>1, <2>2, FS_Singleton
<1>2. CASE m \notin Indexed
  <2>1. holders = {}
    BY <1>2 DEF Indexed
  <2>2. QED
    BY <1>2, <2>1, FS_EmptySet
<1>3. QED
  BY <1>1, <1>2

\* An index starts as a reader expects it.
LEMMA ReaderInit == Init => Reader!Init
<1> SUFFICES ASSUME Init PROVE Reader!Init
  OBVIOUS
<1>1. \A m \in Messages : {g \in index : m \in built[g]} = {}
  BY DEF Init
<1>2. Copies = [m \in Messages |-> 0]
  BY <1>1, FS_EmptySet DEF Copies
<1>3. QED
  BY <1>2 DEF Reader!Init, Init

\* Every step is one a reader may see, or none.
LEMMA ReaderStep ==
  ASSUME IInv, IInv', [LiveNext]_vars
  PROVE  [Reader!Next]_(Reader!vars)
<1> USE ConstantsAssumption
<1>1. Copies = [m \in Messages |-> IF m \in Indexed THEN 1 ELSE 0]
  BY CopiesValue
<1>2. Copies' = [m \in Messages |-> IF m \in Indexed' THEN 1 ELSE 0]
  <2>1. IInv' => (Copies = [m \in Messages |-> IF m \in Indexed THEN 1 ELSE 0])'
    BY CopiesValue, PTL
  <2>2. QED
    BY <2>1
<1>3. ASSUME NEW m \in Messages, Commit(m) PROVE Reader!Refresh(built[m])
  <2>1. Indexed' = built[m] /\ Indexed \subseteq built[m]
    BY <1>3, CommitIndexes
  <2>2. Reader!Searchable \subseteq built[m]
    BY <1>1, <2>1 DEF Reader!Searchable
  <2>3. built[m] \subseteq messages \intersect Indexable
    BY <1>3 DEF IInv, BuiltCovers, ShouldBeIndexed, Commit
  <2>4. Copies' = [n \in Messages |-> IF n \in built[m] THEN 1 ELSE 0]
    BY <1>2, <2>1
  <2>5. QED
    BY <1>3, <2>2, <2>3, <2>4 DEF Reader!Refresh, Commit
<1>4. ASSUME \A m \in Messages : ~ Commit(m) PROVE Copies' = Copies
  BY <1>1, <1>2, <1>4, IndexStep
<1>5. ASSUME NEW m \in Messages, Capture(m) PROVE Reader!Capture(m)
  <2>1. \A n \in Messages : ~ Commit(n)
    BY <1>5 DEF Capture, Commit, GoTo, IInv, TypeOK
  <2>2. QED
    BY <1>4, <1>5, <2>1 DEF Capture, Reader!Capture
<1>6. CASE Purge
  <2>1. \A n \in Messages : ~ Commit(n)
    BY <1>6 DEF Purge, Commit
  <2>2. Reader!Forget(Undated)
    BY <1>4, <1>6, <2>1 DEF Purge, Reader!Forget
  <2>3. QED
    BY <2>2 DEF Reader!Next
<1>7. ASSUME NEW m \in Messages, LiveStep(m) \/ ReplyRaises(m) \/ Debounce(m)
      PROVE  UNCHANGED messages
  BY <1>7 DEF LiveStep, ReplyRaises, Debounce, ReadNewest, CheckCursor,
              SelectMessages, StartDelete, FinishDelete, Commit, Fail, RollBack,
              tables
<1>8. ASSUME WindowExpires \/ Crash \/ UNCHANGED vars PROVE UNCHANGED messages
  BY <1>8 DEF WindowExpires, Crash, vars, tables
<1>9. CASE \E m \in Messages : Commit(m)
  <2>1. PICK m \in Messages : Commit(m)
    BY <1>9
  <2>2. built[m] \in SUBSET Messages
    BY DEF IInv, TypeOK, Actors
  <2>3. QED
    BY <1>3, <2>1, <2>2 DEF Reader!Next
<1>10. CASE \A m \in Messages : ~ Commit(m)
  <2>1. \/ UNCHANGED messages
        \/ \E m \in Messages : Capture(m)
        \/ Purge
    BY <1>7, <1>8 DEF LiveNext
  <2>2. QED
    BY <1>4, <1>5, <1>6, <1>10, <2>1 DEF Reader!Next, Reader!vars
<1>11. QED
  BY <1>9, <1>10

\* Refinement: a reader of the index sees captures, purges and whole rebuilds
\* that only add, never a message twice and never a rebuild in progress.
THEOREM LiveImplementsSearchIndex == LiveSpec => ImplementsSearchIndex
  BY ReaderInit, ReaderStep, LiveInvariant, PTL
  DEF LiveSpec, ImplementsSearchIndex, Reader!Spec

-----------------------------------------------------------------------------
(* Messages come as Capture queues them.                                   *)

\* Nothing is stored and nothing waits at first.
LEMMA BoxInit == Init => Box!Init
BY DEF Init, Box!Init, Waiting, Actors

\* A step of Ingest is a capture, rows of an import, the end of a wait or a purge.
LEMMA BoxStep ==
  ASSUME TypeOK, [Next]_vars
  PROVE  [Box!Next]_(Box!vars)
<1> DEFINE Goal == [Box!Next]_(Box!vars)
<1> USE ConstantsAssumption
<1>1. pc \in [Actors -> Phases] /\ Messages \subseteq Actors
  BY DEF TypeOK, Actors
<1>2. ASSUME UNCHANGED messages, NEW S \in SUBSET Messages,
             \A n \in Messages : pc'[n] = "scheduled" <=> n \notin S /\ pc[n] = "scheduled"
      PROVE  Goal
  <2>1. Waiting' = Waiting \ S
    BY <1>2 DEF Waiting
  <2>2. Box!Leave(S)
    BY <1>2, <2>1 DEF Box!Leave
  <2>3. QED
    BY <2>2 DEF Box!Next
<1>3. ASSUME UNCHANGED messages, NEW a \in Actors, NEW p, GoTo(a, p), p # "scheduled"
      PROVE  Goal
  <2> DEFINE S == {a} \intersect Messages
  <2>1. \A n \in Messages : pc'[n] = "scheduled" <=> n \notin S /\ pc[n] = "scheduled"
    BY <1>1, <1>3 DEF GoTo
  <2>2. S \in SUBSET Messages
    OBVIOUS
  <2>3. UNCHANGED messages
    BY <1>3
  <2> HIDE DEF S, Goal
  <2>4. QED
    BY <1>2, <2>1, <2>2, <2>3
<1>4. ASSUME NEW m \in Messages, Capture(m) PROVE Goal
  <2>1. m \notin messages \union Waiting /\ messages' = messages \union {m}
    BY <1>4 DEF Capture, Waiting
  <2>2. Waiting' = Waiting \union {m}
    <3>1. pc' = [pc EXCEPT ![m] = "scheduled"]
      BY <1>4 DEF Capture, GoTo
    <3>2. pc'[m] = "scheduled" /\ \A n \in Messages \ {m} : pc'[n] = pc[n]
      BY <1>1, <3>1
    <3>3. QED
      BY <3>2 DEF Waiting
  <2>3. Box!Receive(m)
    BY <2>1, <2>2 DEF Box!Receive
  <2>4. QED
    BY <2>3 DEF Box!Next
<1>5. ASSUME NEW m \in Messages, ReplyRaises(m) \/ Debounce(m) PROVE Goal
  <2>1. m \in Actors /\ UNCHANGED messages
    BY <1>1, <1>5 DEF ReplyRaises, Debounce, tables
  <2>2. \E p \in {"lost", "debounced", "granted"} : GoTo(m, p)
    BY <1>5 DEF ReplyRaises, Debounce
  <2>3. QED
    BY <1>3, <2>1, <2>2
<1>6. ASSUME NEW a \in Actors, SelectMessages(a) \/ StartDelete(a) \/ FinishDelete(a) PROVE Goal
  <2>1. UNCHANGED messages /\ \E p \in {"selected", "deleting", "writing"} : GoTo(a, p)
    BY <1>6 DEF SelectMessages, StartDelete, FinishDelete, tables
  <2>2. QED
    BY <1>3, <2>1
<1>7. ASSUME NEW m \in Messages,
             ReadNewest(m) \/ CheckCursor(m) \/ Commit(m) \/ Fail(m) \/ RollBack(m)
      PROVE  Goal
  <2>1. /\ m \in Actors /\ UNCHANGED messages
        /\ \E p \in {"unchanged", "locked", "stale", "done", "failed", "rolledback"} : GoTo(m, p)
    BY <1>1, <1>7 DEF ReadNewest, CheckCursor, Commit, Fail, RollBack, tables
  <2>2. QED
    BY <1>3, <2>1
<1>8. ASSUME NEW i \in Imports, BeginImport(i) \/ FlushImport(i) \/ AbortImport(i) PROVE Goal
  <2>1. /\ i \in Actors /\ UNCHANGED messages
        /\ \E p \in {"inserting", "stale", "rolledback"} : GoTo(i, p)
    BY <1>8 DEF BeginImport, FlushImport, AbortImport, tables, Actors
  <2>2. QED
    BY <1>3, <2>1
<1>9. ASSUME NEW i \in Imports, CommitImport(i) PROVE Goal
  <2>1. messages' = messages \union dirty[i] /\ dirty[i] \in SUBSET Messages
    BY <1>9 DEF CommitImport, TypeOK
  <2>2. Waiting' = Waiting
    BY <1>1, <1>9 DEF CommitImport, GoTo, Waiting
  <2>3. Box!Insert(dirty[i])
    BY <2>1, <2>2 DEF Box!Insert
  <2>4. QED
    BY <2>1, <2>3 DEF Box!Next
<1>10. CASE Crash
  <2>1. UNCHANGED messages /\ Messages \in SUBSET Messages
    BY <1>10 DEF Crash, tables
  <2>2. \A n \in Messages : pc'[n] # "scheduled"
    BY <1>1, <1>10 DEF Crash, TerminalPhases
  <2>3. QED
    BY <1>2, <2>1, <2>2
<1>11. CASE Purge
  <2>1. messages' = messages \ Undated /\ Undated \in SUBSET Messages /\ Waiting' = Waiting
    BY <1>11 DEF Purge, Waiting
  <2>2. Box!Remove(Undated)
    BY <2>1 DEF Box!Remove
  <2>3. QED
    BY <2>1, <2>2 DEF Box!Next
<1>12. CASE WindowExpires \/ UNCHANGED vars
  <2>1. UNCHANGED messages /\ Waiting' = Waiting
    BY <1>12 DEF WindowExpires, vars, tables, Waiting
  <2>2. QED
    BY <2>1 DEF Box!vars
<1>13. Imports \subseteq Actors
  BY DEF Actors
<1>14. CASE LiveNext
  BY <1>1, <1>4, <1>5, <1>6, <1>7, <1>10, <1>11, <1>12, <1>14 DEF LiveNext, LiveStep
<1>15. CASE \E i \in Imports : BeginImport(i) \/ ImportStep(i)
  BY <1>6, <1>8, <1>9, <1>13, <1>15 DEF ImportStep
<1>16. QED
  BY <1>12, <1>14, <1>15 DEF Next

\* Refinement: the index's tasks get their messages as Capture hands them over, with
\* imports, crashes and purges.
THEOREM IngestImplementsInbox == Spec => ImplementsInbox
  BY TypeCorrect, BoxInit, BoxStep, PTL DEF Spec, ImplementsInbox, Box!Spec
=============================================================================
