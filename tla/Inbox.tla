------------------------------- MODULE Inbox -------------------------------
(***************************************************************************)
(* What capture promises the background tasks behind it: the tasks of a    *)
(* message are queued in the one step that stores the message, and in no   *)
(* other.  Capture implements this with its deliveries, faults and         *)
(* backfills; Ingest implements it as well, so that the step with which a  *)
(* message enters Ingest stands for the one with which Capture stores it.  *)
(***************************************************************************)

CONSTANT Messages

VARIABLES
  stored,   \* messages with a row the webhook would recognize
  queued    \* messages whose tasks wait to be run

vars == <<stored, queued>>

Init ==
  /\ stored = {}
  /\ queued = {}

\* A webhook: the row is committed and the tasks are queued.
Receive(m) ==
  /\ m \notin stored \union queued
  /\ stored' = stored \union {m}
  /\ queued' = queued \union {m}

\* Rows without tasks: backfills, exports, a commit that reports an error.
Insert(S) ==
  /\ stored' = stored \union S
  /\ UNCHANGED queued

\* Tasks start, or are lost with the process.
Leave(S) ==
  /\ queued' = queued \ S
  /\ UNCHANGED stored

\* The purge.
Remove(S) ==
  /\ stored' = stored \ S
  /\ UNCHANGED queued

Next ==
  \/ \E m \in Messages : Receive(m)
  \/ \E S \in SUBSET Messages : Insert(S) \/ Leave(S) \/ Remove(S)

Spec == Init /\ [][Next]_vars
=============================================================================
