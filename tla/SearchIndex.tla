---------------------------- MODULE SearchIndex ----------------------------
(***************************************************************************)
(* What a reader of the search index is promised, whatever rebuilds run:   *)
(* messages are captured, each is in the index at most once, and the index *)
(* only ever changes in one step, from the messages it held to those and   *)
(* more.                                                                   *)
(***************************************************************************)
EXTENDS Naturals

CONSTANTS
  Messages,
  Indexable     \* the messages the index may hold

VARIABLES
  captured,     \* the stored messages
  copies        \* how many committed session rows cover a message

vars == <<captured, copies>>

Searchable == {m \in Messages : copies[m] > 0}

Init ==
  /\ captured = {}
  /\ copies = [m \in Messages |-> 0]

Capture(m) ==
  /\ m \notin captured
  /\ captured' = captured \union {m}
  /\ UNCHANGED copies

\* One rebuild becomes visible.
Refresh(S) ==
  /\ Searchable \subseteq S
  /\ S \subseteq captured \intersect Indexable
  /\ copies' = [m \in Messages |-> IF m \in S THEN 1 ELSE 0]
  /\ UNCHANGED captured

\* Messages the index may not hold are removed.
Forget(S) ==
  /\ S \intersect Indexable = {}
  /\ captured' = captured \ S
  /\ UNCHANGED copies

Next ==
  \/ \E m \in Messages : Capture(m)
  \/ \E S \in SUBSET Messages : Refresh(S) \/ Forget(S)

Spec == Init /\ [][Next]_vars
=============================================================================
