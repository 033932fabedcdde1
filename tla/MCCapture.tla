----------------------------- MODULE MCCapture -----------------------------
(***************************************************************************)
(* Small instances of Capture: d1 is a direct message, g1 a group message, *)
(* n1 a payload without an id, u1 one that cannot be mapped, o1 a message  *)
(* the bot sent.                                                           *)
(***************************************************************************)
EXTENDS Capture

CONSTANTS d1, g1, n1, u1, o1, b1
=============================================================================
