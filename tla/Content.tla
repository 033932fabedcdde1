------------------------------ MODULE Content ------------------------------
(***************************************************************************)
(* The three ways of content into the index, next to each other: the       *)
(* rebuild of a chat's log (Rebuild), the imports of exported files        *)
(* (Export) and the transcription of a recording (Transcript).  They are   *)
(* sequential programs of one thread each and share no variable here; a    *)
(* behaviour runs one of them and leaves the others at rest.  What happens *)
(* between requests of the same chat is the subject of Ingest and Voice.   *)
(***************************************************************************)
EXTENDS Rebuild, Export, Transcript

contentVars == <<vars, importVars, voiceVars>>

RebuildAtRest ==
  /\ log = <<>>
  /\ phase = "done"
  /\ pos = 1
  /\ start = 1
  /\ sessions = <<>>
  /\ nth = 0
  /\ lines = <<>>
  /\ used = 0
  /\ chunks = <<>>
  /\ vectors = <<>>
  /\ attempt = 0
  /\ rows = <<>>

ImportsAtRest ==
  /\ history = <<>>
  /\ written = "MDY"
  /\ imports = MaxImports
  /\ NothingImported

TranscriptAtRest ==
  /\ recording = [length |-> 0, speech |-> <<>>]
  /\ stage = "none"
  /\ NothingHeard

ContentInit ==
  \/ Init /\ ImportsAtRest /\ TranscriptAtRest
  \/ RebuildAtRest /\ ExportInit /\ TranscriptAtRest
  \/ RebuildAtRest /\ ImportsAtRest /\ TranscriptInit

ContentNext ==
  \/ Next /\ UNCHANGED <<importVars, voiceVars>>
  \/ ExportNext /\ UNCHANGED <<vars, voiceVars>>
  \/ TranscriptNext /\ UNCHANGED <<vars, importVars>>

\* A rebuild runs in one thread; every request returns or fails.
ContentSpec ==
  /\ ContentInit
  /\ [][ContentNext]_contentVars
  /\ WF_contentVars(Next /\ UNCHANGED <<importVars, voiceVars>>)
=============================================================================
