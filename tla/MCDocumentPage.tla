--------------------------- MODULE MCDocumentPage ----------------------------
(***************************************************************************)
(* DocumentPage with a few polls.                                          *)
(***************************************************************************)
EXTENDS DocumentPage
=============================================================================
