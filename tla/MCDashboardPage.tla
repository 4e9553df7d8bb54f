--------------------------- MODULE MCDashboardPage ---------------------------
(***************************************************************************)
(* DashboardPage on a small instance: one document whose decisions stand,   *)
(* one whose decisions may be taken back.                                  *)
(***************************************************************************)
EXTENDS DashboardPage
=============================================================================
