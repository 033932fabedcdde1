------------------------------ MODULE MCReply ------------------------------
(***************************************************************************)
(* Small instances of Reply: c1..c3 are commands, q1 and q2 are mentions   *)
(* with a question, w1 is one without, p1 a direct message.                *)
(***************************************************************************)
EXTENDS Reply

CONSTANTS c1, c2, c3, q1, q2, w1, p1

KindOf == [t \in Tasks |-> CASE t \in {c1, c3} -> "on"
                           [] t = c2 -> "off"
                           [] t \in {q1, q2} -> "mention"
                           [] t = w1 -> "clarify"
                           [] t = p1 -> "dm"
                           [] OTHER -> "other"]
=============================================================================
