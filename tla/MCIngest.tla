------------------------------ MODULE MCIngest ------------------------------
(***************************************************************************)
(* Small instances of Ingest.  m1, m2 are ordinary messages delivered by   *)
(* the webhook, s1 has no timestamp (a simulated payload the purge script  *)
(* removes), x1 is known to WAHA's store only.                             *)
(***************************************************************************)
EXTENDS Ingest

CONSTANTS m1, m2, s1, x1, i1, i2

NoFile == [i \in {} |-> {}]

\* A backfill whose store holds a message the webhook delivers as well, and an
\* import of messages the webhook never sees.
BackfillFile == [i \in {i1} |-> {m1, x1}]
TwoFiles     == [i \in {i1, i2} |-> IF i = i1 THEN {m1, x1} ELSE {x1}]
=============================================================================
