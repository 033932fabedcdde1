----------------------------- MODULE MCCooldown -----------------------------
(* Two threads and two chats on a clock of a few windows' length.           *)
EXTENDS Cooldown

CONSTANTS t1, t2, k1, k2
=============================================================================
