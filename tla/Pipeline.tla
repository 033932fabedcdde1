------------------------------ MODULE Pipeline ------------------------------
(***************************************************************************)
(* The way into the index and out of it: what the sequential programs make *)
(* of a log, a file or a recording (Content), and of a question (Answer).  *)
(* A behaviour is one of either; what an answer finds in the index is left *)
(* open in Retrieval, so no variable is shared.                            *)
(***************************************************************************)
EXTENDS Content, Answer

pipelineVars == <<contentVars, retrievalVars, answerVars>>

ContentAtRest == RebuildAtRest /\ ImportsAtRest /\ TranscriptAtRest

AnswerAtRest ==
  /\ RetrievalInit
  /\ question = [date |-> <<>>, phrases |-> {}]
  /\ clock = [year |-> 1, month |-> 1, day |-> 1, hour |-> 0]
  /\ past = [sessions |-> <<>>, calls |-> {}]
  /\ at = "answered"
  /\ period = <<0, 0>>
  /\ listed = <<>>
  /\ recalled = {}
  /\ requests = 0
  /\ said = "quotes"

PipelineInit ==
  \/ ContentInit /\ AnswerAtRest
  \/ ContentAtRest /\ AnswerInit

PipelineNext ==
  \/ ContentNext /\ UNCHANGED <<retrievalVars, answerVars>>
  \/ AnswerNext /\ UNCHANGED contentVars

\* A rebuild and an answer run in a thread each; every request returns or fails.
PipelineSpec ==
  /\ PipelineInit
  /\ [][PipelineNext]_pipelineVars
  /\ WF_contentVars(Next /\ UNCHANGED <<importVars, voiceVars>>)
  /\ WF_<<retrievalVars, answerVars>>(AnswerNext)
=============================================================================
