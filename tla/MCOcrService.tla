---------------------------- MODULE MCOcrService -----------------------------
(***************************************************************************)
(* OcrService on a small instance: two calls at once, or the call of one    *)
(* worker and the run that its call before has left behind.                 *)
(***************************************************************************)
EXTENDS OcrService
=============================================================================
