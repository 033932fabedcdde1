----------------------------- MODULE MCPipeline -----------------------------
(* A small instance of Pipeline: those of Content and Answer.               *)
EXTENDS Pipeline, MCContent, MCRetrieval
=============================================================================
