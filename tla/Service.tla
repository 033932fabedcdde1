------------------------------ MODULE Service ------------------------------
(***************************************************************************)
(* The parts of the service that run many threads at once: the ingest of a *)
(* chat (Ingest), the reply cooldown (Cooldown), the replies (Reply), the  *)
(* capture of messages (Capture) and the uploads of recordings (Voice).    *)
(* What one of them needs of another is in its own variables, so that they *)
(* share none: a behaviour goes on with the part it begins with.           *)
(***************************************************************************)
EXTENDS Ingest, Cooldown, Reply, Capture, Voice

serviceVars == <<vars, cooldownVars, replyVars, captureVars, uploadVars>>

ServiceInit == Init /\ CooldownInit /\ ReplyInit /\ CaptureInit /\ VoiceInit

IngestRests   == Init         /\ UNCHANGED vars
CooldownRests == CooldownInit /\ UNCHANGED cooldownVars
ReplyRests    == ReplyInit    /\ UNCHANGED replyVars
CaptureRests  == CaptureInit  /\ UNCHANGED captureVars
VoiceRests    == VoiceInit    /\ UNCHANGED uploadVars

OthersRest == CooldownRests /\ ReplyRests /\ CaptureRests /\ VoiceRests

OtherParts ==
  \/ IngestRests /\ ReplyRests /\ CaptureRests /\ VoiceRests /\ CooldownNext
  \/ IngestRests /\ CooldownRests /\ CaptureRests /\ VoiceRests /\ ReplyNext
  \/ IngestRests /\ CooldownRests /\ ReplyRests /\ VoiceRests /\ CaptureNext
  \/ IngestRests /\ CooldownRests /\ ReplyRests /\ CaptureRests /\ VoiceNext

\* From day to day: only webhooks touch the index of the chat.
DailyNext == (OthersRest /\ LiveNext) \/ OtherParts

DailySpec == ServiceInit /\ [][DailyNext]_serviceVars

\* With exports and backfills.
ServiceNext == (OthersRest /\ Next) \/ OtherParts

\* The fairness of each part: nothing is due in one that rests.
ServiceFairSpec ==
  /\ ServiceInit
  /\ [][ServiceNext]_serviceVars
  /\ Fairness /\ ReplyFairness /\ CaptureFairness /\ VoiceFairness
=============================================================================
