-------------------------- MODULE MCClientSession ---------------------------
(***************************************************************************)
(* ClientSession on a small instance.                                      *)
(***************************************************************************)
EXTENDS ClientSession, TLC

SessionSymmetry ==
  Permutations(Users) \cup Permutations(Tabs) \cup Permutations(Calls)
=============================================================================
