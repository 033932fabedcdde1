------------------------------ MODULE MCVoice ------------------------------
(***************************************************************************)
(* Small instances of Voice: a1, a2, a3 carry the same bytes, a4 others.   *)
(***************************************************************************)
EXTENDS Voice

CONSTANTS a1, a2, a3, a4

FileOf == [u \in Uploads |-> IF u = a4 THEN "other" ELSE "same"]
=============================================================================
