------------------------------ MODULE Library ------------------------------
(***************************************************************************)
(* What the owner of the recordings is promised, whatever uploads overlap  *)
(* and whatever fails: bytes that were stored stay stored and are never    *)
(* transcribed into a second recording, they become searchable in the one  *)
(* step that stores them as done and stay searchable, and a failed         *)
(* recording remains failed.                                               *)
(***************************************************************************)

CONSTANT Bytes

VARIABLES
  done,         \* bytes with a recording whose status is done
  failed,       \* bytes with one whose status is failed
  searchable    \* bytes with committed chunks

vars == <<done, failed, searchable>>

Init ==
  /\ done = {}
  /\ failed = {}
  /\ searchable = {}

\* A transcribed recording and its chunks.
Publish(b) ==
  /\ b \notin done \union failed \union searchable
  /\ done' = done \union {b}
  /\ searchable' = searchable \union {b}
  /\ UNCHANGED failed

\* The audio of a recording that could not be transcribed or embedded.
Shelve(b) ==
  /\ b \notin done \union failed \union searchable
  /\ failed' = failed \union {b}
  /\ UNCHANGED <<done, searchable>>

\* A recording whose answer could not be built; its chunks stay.
Downgrade(b) ==
  /\ b \in done
  /\ done' = done \ {b}
  /\ failed' = failed \union {b}
  /\ UNCHANGED searchable

Next == \E b \in Bytes : Publish(b) \/ Shelve(b) \/ Downgrade(b)

Spec == Init /\ [][Next]_vars
=============================================================================
