----------------------------- MODULE MCService -----------------------------
(* Small instances of Service: those of its parts.                          *)
EXTENDS Service, MCIngest, MCCooldown, MCReply, MCCapture, MCVoice
=============================================================================
