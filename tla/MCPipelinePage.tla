--------------------------- MODULE MCPipelinePage ----------------------------
(***************************************************************************)
(* PipelinePage with one document and a few polls.                         *)
(***************************************************************************)
EXTENDS PipelinePage
=============================================================================
